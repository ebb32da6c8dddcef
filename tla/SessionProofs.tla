--------------------------- MODULE SessionProofs ---------------------------
(***************************************************************************)
(* Process keeps its contract: for every number of handlers, every set of  *)
(* documents and rules, and every order of expiries, store errors and      *)
(* restarts, an id that is used under one rule and for which no reverse    *)
(* request has met an empty store gets the same mask from every forward    *)
(* request and its own words back from every reverse request; and a client *)
(* that may not have values restored never gets one it did not send.       *)
(*                                                                         *)
(* Any number of instances behind nginx: as long as none has fallen back   *)
(* to its own memory they implement the one service of Session over the    *)
(* store they share, and lose no session by their deaths; and also when    *)
(* the cluster is split into Redis and memories, the contract of Session   *)
(* holds, since every store holds the same session of a document or none.  *)
(***************************************************************************)
EXTENDS Cluster, MaskingProofs

\* The shape of the state, as far as the argument needs it.
TypeOK ==
  /\ DOMAIN store = Ids
  /\ DOMAIN issued = Ids
  /\ rule \in [Ids -> Rules \cup {NoRule}]
  /\ DOMAIN req = Workers
  /\ \A w \in Workers :
       /\ req[w].pc \in {"idle", "lookup", "mask", "done"}
       /\ req[w].pc # "idle" =>
            /\ req[w].id \in Ids
            /\ req[w].dir \in {"forward", "reverse"}
            /\ req[w].opts \in Rules

\* The ids the contract says nothing of.
Void == mixed \cup missed

\* Masking the document of an id under its rule ended.
Ended(id) == rule[id] # NoRule /\ ~Hangs(Doc[id], rule[id])

\* The store holds the session of the document under the id's only rule, or
\* none.
StoreOK ==
  \A id \in Ids : id \notin Void =>
    /\ store[id] \in {NoSession, SessionOf(Doc[id], rule[id])}
    /\ store[id] # NoSession => Ended(id)

\* Clients hold no other mask than that session's.
IssuedOK ==
  \A id \in Ids : id \notin Void =>
    /\ issued[id] \subseteq {MaskText(Doc[id], rule[id])}
    /\ issued[id] # {} => Ended(id)

\* A request carries the document or a part of its mask, and the answer that
\* is owed to it.
Asked(r) ==
  \/ /\ r.dir = "forward"
     /\ r.payload = Doc[r.id]
     /\ r.want = MaskText(Doc[r.id], r.opts)
  \/ /\ r.dir = "reverse"
     /\ \E p \in Picks :
          /\ \A k \in DOMAIN p : p[k] \in DOMAIN Doc[r.id]
          /\ r.payload = Pick(MaskText(Doc[r.id], r.opts), p)
          /\ r.want = Restored(Doc[r.id], r.opts, p)

Kept(r) ==
  (r.dir = "reverse" =>
     \A p \in Picks : (\A k \in DOMAIN p : p[k] \in DOMAIN Doc[r.id])
        => Reversible(Doc[r.id], r.opts, p))
  => r.reply = r.want

RequestOK(r, u) ==
  /\ r.opts = u[r.id]
  /\ Asked(r)
  /\ r.pc = "mask" => r.dir = "forward"
  /\ r.pc = "done" => Kept(r)
  /\ r.pc = "done" \/ r.dir = "reverse" => ~Hangs(Doc[r.id], r.opts)

RequestsOK ==
  \A w \in Workers : req[w].pc # "idle" /\ req[w].id \notin Void =>
    RequestOK(req[w], rule)

IInv == TypeOK /\ StoreOK /\ IssuedOK /\ RequestsOK

USE SessionAssumption

----------------------------------------------------------------------------
(* The answer from the id's own session is the one owed.                   *)

\* A mask has as many words as its text.
LEMMA MaskDomain ==
  ASSUME NEW text, NEW o
  PROVE  DOMAIN MaskText(text, o) = DOMAIN text
BY DEF MaskText

\* Answering from the session of the id's own document gives what is owed
\* (Answer).
LEMMA AnswerKept ==
  ASSUME NEW r, Asked(r), NEW s, s = SessionOf(Doc[r.id], r.opts),
         r.reply = Answer(s, r.payload, r.opts)
  PROVE  Kept(r)
<1>1. SUFFICES ASSUME r.dir = "reverse" =>
                        \A p \in Picks :
                          (\A k \in DOMAIN p : p[k] \in DOMAIN Doc[r.id])
                             => Reversible(Doc[r.id], r.opts, p)
               PROVE  r.reply = r.want
  BY DEF Kept
<1>2. CASE r.dir = "forward"
  <2>1. r.payload = Doc[r.id] /\ r.want = MaskText(Doc[r.id], r.opts)
    BY <1>2 DEF Asked
  <2> QED  BY <2>1 DEF Answer, SessionOf
<1>3. CASE r.dir = "reverse"
  <2>1. PICK p \in Picks :
          /\ \A k \in DOMAIN p : p[k] \in DOMAIN Doc[r.id]
          /\ r.payload = Pick(MaskText(Doc[r.id], r.opts), p)
          /\ r.want = Restored(Doc[r.id], r.opts, p)
    BY <1>3 DEF Asked
  <2>2. Reversible(Doc[r.id], r.opts, p)
    BY <1>1, <1>3, <2>1
  <2> QED  BY <2>1, <2>2 DEF Reversible
<1> QED  BY <1>2, <1>3 DEF Asked

----------------------------------------------------------------------------
(* The invariant.                                                          *)

\* The handlers start idle, with well-typed variables.
LEMMA TypeInit == Init => TypeOK
BY DEF Init, TypeOK, Idle

\* Every step keeps the types.
LEMMA TypeNext == TypeOK /\ [Next]_vars => TypeOK'
<1> SUFFICES ASSUME TypeOK, [Next]_vars PROVE TypeOK'
  OBVIOUS
<1>1. ASSUME NEW w \in Workers, NEW id \in Ids, NEW o \in Rules,
             SendForward(w, id, o)
      PROVE  TypeOK'
  BY <1>1 DEF TypeOK, SendForward, UseRule, Request
<1>2. ASSUME NEW w \in Workers, NEW id \in Ids, NEW o \in Rules, NEW mask,
             NEW p, SendReverse(w, id, o, mask, p)
      PROVE  TypeOK'
  BY <1>2 DEF TypeOK, SendReverse, UseRule, Request
<1>3. ASSUME NEW w \in Workers, LookupHit(w)
      PROVE  TypeOK'
  BY <1>3 DEF TypeOK, LookupHit, Reply, history
<1>4. ASSUME NEW w \in Workers, LookupMiss(w)
      PROVE  TypeOK'
  BY <1>4 DEF TypeOK, LookupMiss, Request
<1>5. ASSUME NEW w \in Workers, MaskAndSet(w)
      PROVE  TypeOK'
  BY <1>5 DEF TypeOK, MaskAndSet, Reply, history
<1>6. ASSUME NEW w \in Workers, Deliver(w)
      PROVE  TypeOK'
  BY <1>6 DEF TypeOK, Deliver, Idle, history
<1>7. ASSUME NEW S \in SUBSET Ids, Forget(S)
      PROVE  TypeOK'
  BY <1>7 DEF TypeOK, Forget, history
<1>8. CASE Restart
  BY <1>8 DEF TypeOK, Restart, Idle, history
<1>9. ASSUME NEW W \in SUBSET Workers, Abort(W)
       PROVE  TypeOK'
  BY <1>9 DEF TypeOK, Abort, Idle, history
<1>10. CASE UNCHANGED vars
  BY <1>10 DEF TypeOK, vars
<1> QED
  BY <1>1, <1>2, <1>3, <1>4, <1>5, <1>6, <1>7, <1>8, <1>10, <1>9
     DEF Next, Serve

\* An id that is still good after a request was so before, and the request's
\* rule is its only one.
LEMMA OneRule ==
  ASSUME TypeOK, NEW id \in Ids, NEW o \in Rules, UseRule(id, o)
  PROVE  /\ \A i \in Ids : i \notin Void' => i \notin Void
         /\ \A i \in Ids : rule'[i] # rule[i] => i = id /\ rule[i] = NoRule
         /\ id \notin Void' => rule'[id] = o
BY DEF TypeOK, UseRule, Void

\* A new request leaves the others, the store and the masks as they should be.
LEMMA SendKeeps ==
  ASSUME IInv, TypeOK', NEW w \in Workers, NEW id \in Ids, NEW o \in Rules,
         UseRule(id, o), UNCHANGED <<store, issued>>,
         NEW r, req' = [req EXCEPT ![w] = r], r.pc = "lookup", r.id = id,
         r.opts = o, id \notin Void' => Asked(r) /\ (r.dir = "reverse" => ~Hangs(Doc[id], o))
  PROVE  IInv'
<1>1. StoreOK'
  BY OneRule DEF IInv, StoreOK, Ended, TypeOK
<1>2. IssuedOK'
  BY OneRule DEF IInv, IssuedOK, Ended, TypeOK
<1>3. ASSUME NEW v \in Workers, req'[v].pc # "idle", req'[v].id \notin Void'
      PROVE  RequestOK(req'[v], rule')
  <2>1. CASE v = w
    <3>1. req'[v] = r
      BY <2>1 DEF IInv, TypeOK
    <3> QED  BY <1>3, <3>1, OneRule DEF RequestOK, IInv
  <2>2. CASE v # w
    <3>1. req'[v] = req[v] /\ req[v].id \in Ids /\ req[v].opts \in Rules
      BY <1>3, <2>2 DEF IInv, TypeOK
    <3>2. RequestOK(req[v], rule)
      BY <1>3, <3>1, OneRule DEF IInv, RequestsOK
    <3>3. rule'[req[v].id] = rule[req[v].id]
      BY <3>1, <3>2, OneRule DEF RequestOK, IInv
    <3> QED  BY <3>1, <3>2, <3>3 DEF RequestOK
  <2> QED  BY <2>1, <2>2
<1> QED  BY <1>1, <1>2, <1>3 DEF IInv, RequestsOK

\* A handler's step that leaves its request good leaves the rest so.
LEMMA ServeKeeps ==
  ASSUME IInv, TypeOK', NEW w \in Workers, NEW r,
         req' = [req EXCEPT ![w] = r], UNCHANGED <<rule, mixed>>,
         missed \subseteq missed', StoreOK', IssuedOK',
         r.pc # "idle" /\ r.id \notin Void' => RequestOK(r, rule')
  PROVE  IInv'
<1>1. ASSUME NEW v \in Workers, req'[v].pc # "idle", req'[v].id \notin Void'
      PROVE  RequestOK(req'[v], rule')
  <2>1. CASE v = w
    <3>1. req'[v] = r
      BY <2>1 DEF IInv, TypeOK
    <3> QED  BY <1>1, <3>1 DEF RequestOK
  <2>2. CASE v # w
    <3>1. req'[v] = req[v]
      BY <2>2 DEF IInv, TypeOK
    <3>2. RequestOK(req[v], rule)
      BY <1>1, <3>1 DEF IInv, RequestsOK, Void
    <3> QED  BY <3>1, <3>2 DEF RequestOK
  <2> QED  BY <2>1, <2>2
<1> QED  BY <1>1 DEF IInv, RequestsOK

\* No session is stored and no request served at first.
LEMMA InvInit == Init => IInv
<1> SUFFICES ASSUME Init PROVE IInv
  OBVIOUS
<1>1. TypeOK
  BY TypeInit
<1>2. StoreOK /\ IssuedOK /\ RequestsOK
  BY DEF Init, Idle, StoreOK, IssuedOK, Ended, RequestsOK
<1> QED  BY <1>1, <1>2 DEF IInv

\* Every step of clients, handlers and store keeps the invariant.
LEMMA InvNext == IInv /\ [Next]_vars => IInv'
<1> SUFFICES ASSUME IInv, [Next]_vars PROVE IInv'
  OBVIOUS
<1>1. TypeOK /\ TypeOK'
  BY TypeNext DEF IInv
<1>2. ASSUME NEW w \in Workers, NEW id \in Ids, NEW o \in Rules,
             SendForward(w, id, o)
      PROVE  IInv'
  <2> DEFINE r == Request(id, "forward", o, Doc[id], MaskText(Doc[id], o))
  <2>1. /\ UseRule(id, o) /\ UNCHANGED <<store, issued>>
        /\ req' = [req EXCEPT ![w] = r]
    BY <1>2 DEF SendForward
  <2>2. /\ r.pc = "lookup" /\ r.id = id /\ r.opts = o /\ Asked(r)
        /\ r.dir = "forward"
    BY DEF Request, Asked
  <2> HIDE DEF r
  <2> QED  BY <1>1, <2>1, <2>2, SendKeeps
<1>3. ASSUME NEW w \in Workers, NEW id \in Ids, NEW o \in Rules,
             NEW mask \in issued[id], NEW p \in Picks,
             SendReverse(w, id, o, mask, p)
      PROVE  IInv'
  <2> DEFINE r == Request(id, "reverse", o, Pick(mask, p),
                          Restored(Doc[id], o, p))
  <2>1. /\ UseRule(id, o) /\ UNCHANGED <<store, issued>>
        /\ req' = [req EXCEPT ![w] = r]
        /\ \A k \in DOMAIN p : p[k] \in DOMAIN mask
    BY <1>3 DEF SendReverse
  <2>2. ASSUME id \notin Void'
        PROVE  mask = MaskText(Doc[id], o) /\ ~Hangs(Doc[id], o)
    <3>1. id \notin Void /\ rule[id] # NoRule /\ rule'[id] = o
      BY <1>1, <2>1, <2>2, OneRule DEF IInv, IssuedOK, Ended
    <3>2. rule[id] = o
      BY <1>1, <2>1, <3>1, OneRule
    <3> QED  BY <3>1, <3>2 DEF IInv, IssuedOK, Ended
  <2>3. id \notin Void' => Asked(r)
    BY <2>1, <2>2, MaskDomain DEF Request, Asked
  <2>4. r.pc = "lookup" /\ r.id = id /\ r.opts = o
    BY DEF Request
  <2> HIDE DEF r
  <2> QED  BY <1>1, <2>1, <2>2, <2>3, <2>4, SendKeeps
<1>4. ASSUME NEW w \in Workers, LookupHit(w)
      PROVE  IInv'
  <2> DEFINE r == Reply(req[w],
                        Answer(store[req[w].id], req[w].payload, req[w].opts))
  <2>1. /\ req[w].pc = "lookup" /\ store[req[w].id] # NoSession
        /\ req' = [req EXCEPT ![w] = r]
        /\ UNCHANGED <<store, issued, rule, mixed, missed>>
    BY <1>4 DEF LookupHit, history
  <2>2. StoreOK' /\ IssuedOK'
    BY <2>1 DEF IInv, StoreOK, IssuedOK, Ended, Void
  <2>3. ASSUME r.id \notin Void'
        PROVE  RequestOK(r, rule')
    <3>1. req[w].id \in Ids /\ req[w].id \notin Void
      BY <1>1, <2>1, <2>3 DEF Reply, Void, TypeOK
    <3>2. RequestOK(req[w], rule)
      BY <2>1, <3>1 DEF IInv, RequestsOK
    <3>3. /\ store[req[w].id] = SessionOf(Doc[req[w].id], req[w].opts)
          /\ ~Hangs(Doc[req[w].id], req[w].opts)
      BY <2>1, <3>1, <3>2 DEF IInv, StoreOK, Ended, RequestOK
    <3>4. Asked(r)
      BY <3>2 DEF RequestOK, Asked, Reply
    <3>5. Kept(r)
      BY <3>3, <3>4, AnswerKept DEF Reply
    <3> QED  BY <2>1, <3>2, <3>3, <3>4, <3>5 DEF RequestOK, Reply
  <2> HIDE DEF r
  <2> QED  BY <1>1, <2>1, <2>2, <2>3, ServeKeeps
<1>5. ASSUME NEW w \in Workers, LookupMiss(w)
      PROVE  IInv'
  <2> DEFINE q == req[w]
             r == [Request(q.id, q.dir, q.opts, q.payload, q.want)
                     EXCEPT !.pc = "mask"]
  <2>1. /\ req[w].pc = "lookup" /\ req' = [req EXCEPT ![w] = r]
        /\ UNCHANGED <<store, issued, rule, mixed>>
        /\ missed \subseteq missed'
        /\ q.dir = "reverse" => q.id \in missed'
    BY <1>5 DEF LookupMiss
  <2>2. StoreOK' /\ IssuedOK'
    BY <2>1 DEF IInv, StoreOK, IssuedOK, Ended, Void
  <2>3. ASSUME r.id \notin Void'
        PROVE  RequestOK(r, rule')
    <3>1. q.id \in Ids /\ q.id \notin Void /\ q.dir = "forward"
      BY <1>1, <2>1, <2>3 DEF Request, Void, TypeOK
    <3>2. RequestOK(q, rule)
      BY <2>1, <3>1 DEF IInv, RequestsOK
    <3> QED  BY <2>1, <3>1, <3>2 DEF RequestOK, Request, Asked
  <2> HIDE DEF r
  <2> QED  BY <1>1, <2>1, <2>2, <2>3, ServeKeeps
<1>6. ASSUME NEW w \in Workers, MaskAndSet(w)
      PROVE  IInv'
  <2> DEFINE q == req[w]
             s == SessionOf(q.payload, q.opts)
             r == Reply(q, MaskText(q.payload, q.opts))
  <2>1. /\ q.pc = "mask" /\ req' = [req EXCEPT ![w] = r]
        /\ ~Hangs(q.payload, q.opts)
        /\ store' = [store EXCEPT ![q.id] = s] \/ store' = store
        /\ UNCHANGED <<issued, rule, mixed, missed>>
    BY <1>6 DEF MaskAndSet, history
  <2>2. ASSUME q.id \notin Void
        PROVE  /\ q.id \in Ids /\ RequestOK(q, rule) /\ q.dir = "forward"
               /\ s = SessionOf(Doc[q.id], rule[q.id])
               /\ Ended(q.id) /\ q.opts = rule[q.id]
    <3>1. q.id \in Ids /\ q.opts \in Rules
      BY <1>1, <2>1 DEF TypeOK
    <3>2. RequestOK(q, rule)
      BY <2>1, <2>2 DEF IInv, RequestsOK
    <3> QED  BY <2>1, <3>1, <3>2 DEF RequestOK, Asked, Ended
  <2>3. StoreOK'
    <3> HIDE DEF s
    <3> QED  BY <1>1, <2>1, <2>2 DEF IInv, StoreOK, Ended, Void, TypeOK
  <2>4. IssuedOK'
    BY <2>1 DEF IInv, IssuedOK, Ended, Void
  <2>5. ASSUME r.id \notin Void'
        PROVE  RequestOK(r, rule')
    <3>1. q.id \notin Void
      BY <2>1, <2>5 DEF Reply, Void
    <3>2. RequestOK(q, rule) /\ q.dir = "forward" /\ ~Hangs(Doc[q.id], q.opts)
      BY <2>2, <3>1 DEF Ended
    <3>3. Asked(r) /\ r.reply = r.want
      BY <3>2 DEF RequestOK, Asked, Reply
    <3> QED  BY <2>1, <3>2, <3>3 DEF RequestOK, Reply, Kept
  <2> HIDE DEF r
  <2> QED  BY <1>1, <2>1, <2>3, <2>4, <2>5, ServeKeeps
<1>7. ASSUME NEW w \in Workers, Deliver(w)
      PROVE  IInv'
  <2>1. /\ req[w].pc = "done" /\ req' = [req EXCEPT ![w] = Idle]
        /\ UNCHANGED <<store, rule, mixed, missed>>
        /\ \/ /\ req[w].dir = "forward"
              /\ issued' = [issued EXCEPT ![req[w].id] = @ \cup {req[w].reply}]
           \/ issued' = issued
    BY <1>7 DEF Deliver, history
  <2>2. StoreOK'
    BY <2>1 DEF IInv, StoreOK, Ended, Void
  <2>3. ASSUME req[w].dir = "forward", req[w].id \notin Void
        PROVE  /\ req[w].reply = MaskText(Doc[req[w].id], rule[req[w].id])
               /\ Ended(req[w].id)
    <3>1. RequestOK(req[w], rule) /\ req[w].opts \in Rules
      BY <1>1, <2>1, <2>3 DEF IInv, RequestsOK, TypeOK
    <3> QED  BY <2>1, <2>3, <3>1 DEF RequestOK, Kept, Asked, Ended
  <2>4. IssuedOK'
    BY <1>1, <2>1, <2>3 DEF IInv, IssuedOK, Ended, Void, TypeOK
  <2>5. Idle.pc = "idle"
    BY DEF Idle
  <2> QED  BY <1>1, <2>1, <2>2, <2>4, <2>5, ServeKeeps
<1>8. ASSUME NEW S \in SUBSET Ids, Forget(S)
      PROVE  IInv'
  <2>1. /\ store' = [id \in Ids |-> IF id \in S THEN NoSession ELSE store[id]]
        /\ UNCHANGED <<req, issued, rule, mixed, missed>>
    BY <1>8 DEF Forget, history
  <2>2. StoreOK'
    BY <1>1, <2>1 DEF IInv, StoreOK, Ended, Void, TypeOK
  <2>3. IssuedOK' /\ RequestsOK'
    BY <2>1 DEF IInv, IssuedOK, Ended, RequestsOK, Void
  <2> QED  BY <1>1, <2>2, <2>3 DEF IInv
<1>9. CASE Restart
  <2>1. StoreOK' /\ IssuedOK' /\ RequestsOK'
    BY <1>9 DEF IInv, StoreOK, IssuedOK, Ended, RequestsOK, Void, Restart, Idle,
                history
  <2> QED  BY <1>1, <2>1 DEF IInv
<1>10. ASSUME NEW W \in SUBSET Workers, Abort(W)
       PROVE  IInv'
  <2>1. /\ req' = [w \in Workers |-> IF w \in W THEN Idle ELSE req[w]]
        /\ UNCHANGED <<store, issued, rule, mixed, missed>>
    BY <1>10 DEF Abort, history
  <2>2. StoreOK' /\ IssuedOK'
    BY <2>1 DEF IInv, StoreOK, IssuedOK, Ended, Void
  <2>3. RequestsOK'
    <3>1. Void' = Void
      BY <2>1 DEF Void
    <3>2. ASSUME NEW v \in Workers, req'[v].pc # "idle", req'[v].id \notin Void'
          PROVE  RequestOK(req[v], rule)'
      <4>1. req'[v] = req[v]
        BY <2>1, <3>2 DEF Idle
      <4>2. RequestOK(req[v], rule)
        BY <3>1, <3>2, <4>1 DEF IInv, RequestsOK
      <4> QED  BY <2>1, <4>1, <4>2 DEF RequestOK, Kept, Asked
    <3> QED  BY <3>2 DEF RequestsOK
  <2> QED  BY <1>1, <2>2, <2>3 DEF IInv
<1>11. CASE UNCHANGED vars
  <2>1. StoreOK' /\ IssuedOK' /\ RequestsOK'
    BY <1>11 DEF IInv, StoreOK, IssuedOK, Ended, RequestsOK, Void, vars
  <2> QED  BY <1>1, <2>1 DEF IInv
<1> QED
  BY <1>2, <1>3, <1>4, <1>5, <1>6, <1>7, <1>8, <1>9, <1>11, <1>10
     DEF Next, Serve

----------------------------------------------------------------------------
(* The theorems.                                                           *)

\* In every reachable state the sessions stored, the masks issued and the
\* requests being served agree with the documents.
THEOREM Invariance == Spec => []IInv
<1>1. Init => IInv
  BY InvInit
<1>2. IInv /\ [Next]_vars => IInv'
  BY InvNext
<1> QED  BY <1>1, <1>2, PTL DEF Spec

\* Every forward request for an id used under one rule gets the same mask,
\* through any interleaving, expiry, store error and restart, unless a
\* reverse request met an empty store (Service.Process).
THEOREM ForwardIdempotence == Spec => []ForwardIdempotent
<1>1. IInv => ForwardIdempotent
  BY DEF IInv, RequestsOK, RequestOK, Kept, ForwardIdempotent, Owed, Done, Void
<1> QED  BY <1>1, Invariance, PTL

\* Every reverse request for such an id gets the originals of what it sent
\* back, provided its document is reversible (Service.Process).
THEOREM ReverseRestoration == Spec => []ReverseRestores
<1>1. IInv => ReverseRestores
  BY DEF IInv, RequestsOK, RequestOK, Kept, ReverseRestores, Owed, Done, Void
<1> QED  BY <1>1, Invariance, PTL

\* No step replaces a stored session by a different one (the miss branch of
\* Process, run twice for one id, writes the same thing twice).
THEOREM SessionStability == Spec => SessionStable
<1> DEFINE Stable == \A id \in Ids :
             id \notin mixed' \cup missed' /\ store[id] # NoSession
               => store'[id] \in {store[id], NoSession}
<1>1. ASSUME IInv, IInv', [Next]_vars
      PROVE  Stable
  <2>1. SUFFICES ASSUME NEW id \in Ids, id \notin Void',
                        store[id] # NoSession
                 PROVE  store'[id] \in {store[id], NoSession}
    BY DEF Void
  <2> DEFINE Held == id \notin Void /\ (rule'[id] = rule[id] \/ rule[id] = NoRule)
  <2>2. Held
    <3>1. ASSUME NEW i \in Ids, NEW o \in Rules, UseRule(i, o)
          PROVE  Held
      BY <1>1, <2>1, <3>1, OneRule DEF IInv
    <3>2. ASSUME rule' = rule, mixed' = mixed, missed \subseteq missed'
          PROVE  Held
      BY <2>1, <3>2 DEF Void
    <3>3. \/ \E i \in Ids, o \in Rules : UseRule(i, o)
          \/ rule' = rule /\ mixed' = mixed /\ missed \subseteq missed'
      BY <1>1 DEF Next, Serve, SendForward, SendReverse, LookupHit, LookupMiss,
                  MaskAndSet, Deliver, Forget, Abort, Restart, history,
                  vars
    <3> QED  BY <3>1, <3>2, <3>3
  <2>3. rule[id] # NoRule
    BY <1>1, <2>1, <2>2 DEF IInv, StoreOK, Ended
  <2> QED  BY <1>1, <2>1, <2>2, <2>3 DEF IInv, StoreOK, Ended
<1>2. IInv /\ IInv' /\ [Next]_vars => [Stable]_vars
  BY <1>1
<1>3. Spec => [][Stable]_vars
  BY <1>2, Invariance, PTL DEF Spec
<1> QED  BY <1>3 DEF SessionStable

\* The provisos on the pure functions in words of the document: one without a
\* word written like one of the words that mask it, from whose mask no reply
\* spells the document again, comes back word for word, under every strategy
\* and even if its type's pool is small, since only documents whose generator
\* ended have masks (Mask, MaskSynthetic, Demask and Process).
SpelledAgain(id, o) ==
  \E p \in Picks : /\ \A k \in DOMAIN p : p[k] \in DOMAIN Doc[id]
                  /\ ReadsLikeOriginal(Doc[id], o, p)

WordsRestored ==
  \A w \in Workers :
    LET r == req[w]
    IN /\ Done(w)
       /\ r.id \notin mixed \cup missed
       /\ r.dir = "reverse"
       /\ CollisionFree(Doc[r.id], r.opts)
       /\ ~SpelledAgain(r.id, r.opts)
       => r.reply = r.want

\* In states of the invariant the proviso of ReverseRestores holds of such
\* documents (Reversibility).
LEMMA InvRestores == IInv => WordsRestored
<1> SUFFICES ASSUME IInv, NEW w \in Workers, Done(w),
                    req[w].id \notin mixed \cup missed,
                    req[w].dir = "reverse",
                    CollisionFree(Doc[req[w].id], req[w].opts),
                    ~SpelledAgain(req[w].id, req[w].opts)
             PROVE  req[w].reply = req[w].want
  BY DEF WordsRestored
<1>1. req[w].id \in Ids /\ Doc[req[w].id] \in Text /\ req[w].opts \in Options
  BY DEF IInv, TypeOK, Done
<1>2. RequestOK(req[w], rule) /\ req[w].pc = "done"
  BY DEF IInv, RequestsOK, Void, Done
<1>3. ~Hangs(Doc[req[w].id], req[w].opts)
  BY <1>2 DEF RequestOK
<1>4. \A p \in Picks : (\A k \in DOMAIN p : p[k] \in DOMAIN Doc[req[w].id])
         => Reversible(Doc[req[w].id], req[w].opts, p)
  BY <1>1, <1>3, Reversibility DEF SpelledAgain
<1> QED  BY <1>2, <1>4 DEF RequestOK, Kept

\* Reverse requests restore every document that does not contain one of its
\* own replacements (Service.Process).
THEOREM WordRestoration == Spec => []WordsRestored
BY Invariance, InvRestores, PTL

----------------------------------------------------------------------------
(* What may not be restored is not shown.                                  *)

\* A session is made of texts and words, and its mask shows nothing new.
SessionOK(s) ==
  /\ s.original \in Text
  /\ s.masked \in Text
  /\ \A w \in DOMAIN s.mapping : s.mapping[w] \in Word
  /\ NothingNew(s.original, s.masked)

\* A request carries a text, and an answer without restoring shows only what
\* it carries.
RequestText(r) ==
  /\ r.payload \in Text
  /\ r.pc = "done" => /\ r.reply \in Text
                      /\ ~r.opts.demask => NothingNew(r.payload, r.reply)

\* Whatever was lost, overwritten or masked twice: all of it is texts.  The
\* provisos of StoreOK are not needed.
TextsOK ==
  /\ \A id \in Ids : store[id] # NoSession => SessionOK(store[id])
  /\ \A id \in Ids : issued[id] \subseteq Text
  /\ \A w \in Workers : req[w].pc # "idle" => RequestText(req[w])

\* Any text makes a session (Process' miss branch).
LEMMA SessionOfText ==
  ASSUME NEW text \in Text, NEW o \in Options
  PROVE  SessionOK(SessionOf(text, o))
BY MaskIsText, MappingToWords, MaskShowsNothingNew DEF SessionOK, SessionOf

\* Process answers a text from a session with a text, and without restoring
\* with the mask or with what it was sent.
LEMMA AnswerText ==
  ASSUME NEW s, SessionOK(s), NEW payload \in Text, NEW o
  PROVE  /\ Answer(s, payload, o) \in Text
         /\ ~o.demask => NothingNew(payload, Answer(s, payload, o))
<1>1. CASE payload = s.original
  BY <1>1 DEF SessionOK, Answer
<1>2. CASE payload # s.original /\ ~o.demask
  BY <1>2 DEF Answer, NothingNew
<1>3. CASE payload # s.original /\ o.demask
  BY <1>3, DemaskIsText DEF SessionOK, Answer
<1> QED  BY <1>1, <1>2, <1>3

\* A step of one handler keeps the other requests.
LEMMA ServeTexts ==
  ASSUME TypeOK, TextsOK, NEW w \in Workers, NEW r,
         req' = [req EXCEPT ![w] = r], r.pc # "idle" => RequestText(r),
         \A id \in Ids : store'[id] # NoSession => SessionOK(store'[id]),
         \A id \in Ids : issued'[id] \subseteq Text
  PROVE  TextsOK'
<1>1. ASSUME NEW v \in Workers, req'[v].pc # "idle"
      PROVE  RequestText(req'[v])
  <2>1. CASE v = w
    <3>1. req'[v] = r
      BY <2>1 DEF TypeOK
    <3> QED  BY <1>1, <3>1
  <2>2. CASE v # w
    <3>1. req'[v] = req[v]
      BY <2>2 DEF TypeOK
    <3> QED  BY <1>1, <3>1 DEF TextsOK
  <2> QED  BY <2>1, <2>2
<1>2. ASSUME NEW v \in Workers, req'[v].pc # "idle"
      PROVE  RequestText(req[v])'
  BY <1>1, <1>2 DEF RequestText
<1> QED  BY <1>2 DEF TextsOK, SessionOK

\* An answer from any session of texts, wherever it is stored.
LEMMA AnswerTexts ==
  ASSUME TypeOK, TextsOK, NEW w \in Workers, req[w].pc = "lookup",
         NEW s, SessionOK(s),
         req' = [req EXCEPT ![w] =
                   Reply(req[w], Answer(s, req[w].payload, req[w].opts))],
         UNCHANGED <<store, issued>>
  PROVE  TextsOK'
<1> DEFINE r == Reply(req[w], Answer(s, req[w].payload, req[w].opts))
<1>1. RequestText(req[w])
  BY DEF TextsOK
<1>2. RequestText(r)
  BY <1>1, AnswerText DEF RequestText, Reply
<1>3. req' = [req EXCEPT ![w] = r]
  OBVIOUS
<1> HIDE DEF r
<1> QED  BY <1>2, <1>3, ServeTexts DEF TextsOK

\* Every step hands on texts.
LEMMA TextsNext == TypeOK /\ TextsOK /\ [Next]_vars => TextsOK'
<1> SUFFICES ASSUME TypeOK, TextsOK, [Next]_vars PROVE TextsOK'
  OBVIOUS
<1>1. ASSUME NEW w \in Workers, NEW id \in Ids, NEW o \in Rules,
             SendForward(w, id, o)
      PROVE  TextsOK'
  <2> DEFINE r == Request(id, "forward", o, Doc[id], MaskText(Doc[id], o))
  <2>1. req' = [req EXCEPT ![w] = r] /\ UNCHANGED <<store, issued>>
    BY <1>1 DEF SendForward
  <2>2. RequestText(r)
    BY DEF RequestText, Request
  <2> HIDE DEF r
  <2> QED  BY <2>1, <2>2, ServeTexts DEF TextsOK
<1>2. ASSUME NEW w \in Workers, NEW id \in Ids, NEW o \in Rules,
             NEW mask \in issued[id], NEW p \in Picks,
             SendReverse(w, id, o, mask, p)
      PROVE  TextsOK'
  <2> DEFINE r == Request(id, "reverse", o, Pick(mask, p),
                          Restored(Doc[id], o, p))
  <2>1. /\ req' = [req EXCEPT ![w] = r] /\ UNCHANGED <<store, issued>>
        /\ \A k \in DOMAIN p : p[k] \in DOMAIN mask
    BY <1>2 DEF SendReverse
  <2>2. mask \in Text /\ p \in Seq(Nat)
    BY DEF TextsOK
  <2>3. Pick(mask, p) \in Text
    BY <2>1, <2>2, PickIsText
  <2>4. RequestText(r)
    BY <2>3 DEF RequestText, Request
  <2> HIDE DEF r
  <2> QED  BY <2>1, <2>4, ServeTexts DEF TextsOK
<1>3. ASSUME NEW w \in Workers, LookupHit(w)
      PROVE  TextsOK'
  <2>1. SessionOK(store[req[w].id])
    BY <1>3 DEF LookupHit, TypeOK, TextsOK
  <2> QED  BY <1>3, <2>1, AnswerTexts DEF LookupHit
<1>4. ASSUME NEW w \in Workers, LookupMiss(w)
      PROVE  TextsOK'
  <2> DEFINE q == req[w]
             r == [Request(q.id, q.dir, q.opts, q.payload, q.want)
                     EXCEPT !.pc = "mask"]
  <2>1. q.pc = "lookup" /\ req' = [req EXCEPT ![w] = r]
          /\ UNCHANGED <<store, issued>>
    BY <1>4 DEF LookupMiss
  <2>2. RequestText(r)
    BY <2>1 DEF TextsOK, RequestText, Request
  <2> HIDE DEF r
  <2> QED  BY <2>1, <2>2, ServeTexts DEF TextsOK
<1>5. ASSUME NEW w \in Workers, MaskAndSet(w)
      PROVE  TextsOK'
  <2> DEFINE q == req[w]
             s == SessionOf(q.payload, q.opts)
             r == Reply(q, MaskText(q.payload, q.opts))
  <2>1. /\ q.pc = "mask" /\ req' = [req EXCEPT ![w] = r]
        /\ store' = [store EXCEPT ![q.id] = s] \/ store' = store
        /\ UNCHANGED issued
    BY <1>5 DEF MaskAndSet, history
  <2>2. q.payload \in Text /\ q.opts \in Options
    BY <2>1 DEF TypeOK, TextsOK, RequestText
  <2>3. SessionOK(s)
    BY <2>2, SessionOfText
  <2>4. RequestText(r)
    BY <2>2, MaskIsText, MaskShowsNothingNew DEF RequestText, Reply
  <2> HIDE DEF s, r
  <2>5. \A id \in Ids : store'[id] # NoSession => SessionOK(store'[id])
    BY <2>1, <2>3 DEF TypeOK, TextsOK
  <2> QED  BY <2>1, <2>4, <2>5, ServeTexts DEF TextsOK
<1>6. ASSUME NEW w \in Workers, Deliver(w)
      PROVE  TextsOK'
  <2>1. /\ req[w].pc = "done" /\ req' = [req EXCEPT ![w] = Idle]
        /\ UNCHANGED store
        /\ \/ issued' = [issued EXCEPT ![req[w].id] = @ \cup {req[w].reply}]
           \/ issued' = issued
    BY <1>6 DEF Deliver, history
  <2>2. req[w].reply \in Text
    BY <2>1 DEF TextsOK, RequestText
  <2>3. \A id \in Ids : issued'[id] \subseteq Text
    BY <2>1, <2>2 DEF TypeOK, TextsOK
  <2>4. Idle.pc = "idle"
    BY DEF Idle
  <2> QED  BY <2>1, <2>3, <2>4, ServeTexts DEF TextsOK
<1>7. ASSUME NEW S \in SUBSET Ids, Forget(S)
      PROVE  TextsOK'
  BY <1>7 DEF TextsOK, SessionOK, RequestText, Forget, history
<1>8. ASSUME NEW W \in SUBSET Workers, Abort(W)
      PROVE  TextsOK'
  BY <1>8 DEF TextsOK, SessionOK, RequestText, Abort, Idle, history
<1>9. CASE Restart
  BY <1>9 DEF TextsOK, SessionOK, RequestText, Restart, Idle, history
<1>10. CASE UNCHANGED vars
  BY <1>10 DEF TextsOK, SessionOK, RequestText, vars
<1> QED
  BY <1>1, <1>2, <1>3, <1>4, <1>5, <1>6, <1>7, <1>8, <1>9, <1>10
     DEF Next, Serve

\* A client for which restoring is switched off is shown no value that it did
\* not send, under any mixture of rules and after any loss (Service.Process).
THEOREM NothingHiddenShown == Spec => []DemaskDisabledHides
<1>1. Init => TypeOK /\ TextsOK
  BY TypeInit DEF Init, Idle, TextsOK
<1>2. TypeOK /\ TextsOK /\ [Next]_vars => (TypeOK /\ TextsOK)'
  BY TypeNext, TextsNext
<1>3. TextsOK => DemaskDisabledHides
  BY DEF TextsOK, RequestText, NothingNew, DemaskDisabledHides, Done
<1> QED  BY <1>1, <1>2, <1>3, PTL DEF Spec

USE ClusterAssumption

----------------------------------------------------------------------------
(* The cluster: types.                                                     *)

ClusterTypeOK ==
  /\ TypeOK
  /\ store = [id \in Ids |-> store[id]]
  /\ req = [w \in Workers |-> req[w]]
  /\ redisUp \in BOOLEAN
  /\ phase \in [Instances -> {"down", "up", "draining"}]
  /\ backend \in [Instances -> {"redis", "memory"}]
  /\ DOMAIN memory = Instances
  /\ \A i \in Instances : DOMAIN memory[i] = Ids
  /\ rules \in [Instances -> Rules]
  /\ at \in [Workers -> Instances \cup {None}]
  /\ \A w \in Workers :
       req[w].pc \in {"lookup", "mask"} => at[w] \in Instances

\* All instances are down at first.
LEMMA ClusterTypeInit == ClusterInit => ClusterTypeOK
<1> SUFFICES ASSUME ClusterInit PROVE ClusterTypeOK
  OBVIOUS
<1>1. TypeOK
  BY TypeInit DEF ClusterInit
<1> QED  BY <1>1 DEF ClusterInit, ClusterTypeOK, Init, Idle, Empty

\* Every step of clients, handlers, instances and Redis keeps the types.
LEMMA ClusterTypeNext == ClusterTypeOK /\ [ClusterNext]_clusterVars => ClusterTypeOK'
<1> SUFFICES ASSUME ClusterTypeOK, [ClusterNext]_clusterVars PROVE ClusterTypeOK'
  OBVIOUS
<1>1. ASSUME NEW w \in Workers, NEW id \in Ids, NEW i \in Instances,
             RouteForward(w, id, i)
      PROVE  ClusterTypeOK'
  BY <1>1 DEF ClusterTypeOK, TypeOK, RouteForward, Route, SendForward, UseRule,
              Request, instances
<1>2. ASSUME NEW w \in Workers, NEW id \in Ids, NEW i \in Instances,
             NEW mask, NEW p, RouteReverse(w, id, i, mask, p)
      PROVE  ClusterTypeOK'
  BY <1>2 DEF ClusterTypeOK, TypeOK, RouteReverse, Route, SendReverse, UseRule,
              Request, instances
<1>3. ASSUME NEW w \in Workers, Hit(w)
      PROVE  ClusterTypeOK'
  BY <1>3 DEF ClusterTypeOK, TypeOK, Hit, Reply, history, instances
<1>4. ASSUME NEW w \in Workers, Miss(w)
      PROVE  ClusterTypeOK'
  BY <1>4 DEF ClusterTypeOK, TypeOK, Miss, LookupMiss, Request, instances
<1>5. ASSUME NEW w \in Workers, Mask(w)
      PROVE  ClusterTypeOK'
  BY <1>5, SMTT(20) DEF ClusterTypeOK, TypeOK, Mask, Put, Reply, history
<1>6. ASSUME NEW w \in Workers, Return(w)
      PROVE  ClusterTypeOK'
  BY <1>6 DEF ClusterTypeOK, TypeOK, Return, Deliver, Idle, history, instances
<1>7. ASSUME NEW i \in Instances, Start(i)
      PROVE  ClusterTypeOK'
  BY <1>7 DEF ClusterTypeOK, TypeOK, Start, vars
<1>8. ASSUME NEW i \in Instances, Dies(i)
      PROVE  ClusterTypeOK'
  BY <1>8 DEF ClusterTypeOK, TypeOK, Dies, Serving, Idle, Empty, history
<1>9. ASSUME NEW i \in Instances, Terminate(i)
      PROVE  ClusterTypeOK'
  BY <1>9 DEF ClusterTypeOK, TypeOK, Terminate, vars
<1>10. ASSUME NEW i \in Instances, NEW o \in Rules, Configure(i, o)
       PROVE  ClusterTypeOK'
  BY <1>10 DEF ClusterTypeOK, TypeOK, Configure, vars
<1>11. CASE RedisFails
  <2>1. /\ store' \in {store, Empty} /\ redisUp' \in BOOLEAN
        /\ UNCHANGED <<req, issued, rule, phase, backend, memory, rules, at>>
    BY <1>11 DEF RedisFails, history, instances
  <2>2. DOMAIN store' = Ids /\ store' = [id \in Ids |-> store'[id]]
    BY <2>1 DEF ClusterTypeOK, TypeOK, Empty
  <2> QED  BY <2>1, <2>2 DEF ClusterTypeOK, TypeOK
<1>12. CASE RedisReturns
  BY <1>12 DEF ClusterTypeOK, TypeOK, RedisReturns, vars, instances
<1>13. CASE UNCHANGED clusterVars
  BY <1>13 DEF ClusterTypeOK, TypeOK, clusterVars, vars, instances
<1> QED
  BY <1>1, <1>2, <1>3, <1>4, <1>5, <1>6, <1>7, <1>8, <1>9, <1>10, <1>11,
     <1>12, <1>13
     DEF ClusterNext, ServeAt, Shutdown, Crash, Exit, Overdue

----------------------------------------------------------------------------
(* The cluster implements the service.                                     *)

\* Handlers run on instances that are not down, and as long as no instance
\* has fallen back, those have chosen Redis.
Shared ==
  /\ \A w \in Workers :
       req[w].pc \in {"lookup", "mask"} => phase[at[w]] # "down"
  /\ ~fellBack =>
       \A i \in Instances : phase[i] # "down" => backend[i] = "redis"

\* No instance is down with a request or away from Redis at the start.
LEMMA SharedInit == ClusterInit => Shared
BY DEF ClusterInit, Shared, Init, Idle

\* Neither a step of a handler nor one of the cluster changes that.
LEMMA SharedNext ==
  ClusterTypeOK /\ Shared /\ [ClusterNext]_clusterVars => Shared'
<1> SUFFICES ASSUME ClusterTypeOK, Shared, [ClusterNext]_clusterVars
             PROVE  Shared'
  OBVIOUS
<1>1. ASSUME NEW w \in Workers, NEW id \in Ids, NEW i \in Instances,
             RouteForward(w, id, i)
      PROVE  Shared'
  BY <1>1 DEF ClusterTypeOK, Shared, RouteForward, Route, SendForward, instances,
              record
<1>2. ASSUME NEW w \in Workers, NEW id \in Ids, NEW i \in Instances,
             NEW mask, NEW p, RouteReverse(w, id, i, mask, p)
      PROVE  Shared'
  BY <1>2 DEF ClusterTypeOK, Shared, RouteReverse, Route, SendReverse, instances,
              record
<1>3. ASSUME NEW w \in Workers, Hit(w)
      PROVE  Shared'
  BY <1>3 DEF ClusterTypeOK, Shared, Hit, Reply, instances, record
<1>4. ASSUME NEW w \in Workers, Miss(w)
      PROVE  Shared'
  BY <1>4 DEF ClusterTypeOK, Shared, Miss, LookupMiss, Request, instances, record
<1>5. ASSUME NEW w \in Workers, Mask(w)
      PROVE  Shared'
  BY <1>5 DEF ClusterTypeOK, Shared, Mask, Reply, record
<1>6. ASSUME NEW w \in Workers, Return(w)
      PROVE  Shared'
  BY <1>6 DEF ClusterTypeOK, Shared, Return, Deliver, Idle, instances, record
<1>7. ASSUME NEW i \in Instances, Start(i)
      PROVE  Shared'
  BY <1>7 DEF ClusterTypeOK, Shared, Start, vars
<1>8. ASSUME NEW i \in Instances, Dies(i)
      PROVE  Shared'
  BY <1>8 DEF ClusterTypeOK, Shared, Dies, Serving, Idle
<1>9. ASSUME NEW i \in Instances, Terminate(i)
      PROVE  Shared'
  BY <1>9 DEF ClusterTypeOK, Shared, Terminate, vars
<1>10. ASSUME NEW i \in Instances, NEW o \in Rules, Configure(i, o)
       PROVE  Shared'
  BY <1>10 DEF Shared, Configure, vars
<1>11. CASE RedisFails
  BY <1>11 DEF Shared, RedisFails, instances
<1>12. CASE RedisReturns
  BY <1>12 DEF Shared, RedisReturns, vars, instances, record
<1>13. CASE UNCHANGED clusterVars
  BY <1>13 DEF Shared, clusterVars, vars, instances, record
<1> QED
  BY <1>1, <1>2, <1>3, <1>4, <1>5, <1>6, <1>7, <1>8, <1>9, <1>10, <1>11,
     <1>12, <1>13
     DEF ClusterNext, ServeAt, Shutdown, Crash, Exit, Overdue

\* The one step that Session does not have: an answer from a session of an
\* instance's own memory.
HitInMemory(w) == Hit(w) /\ backend[at[w]] = "memory"

\* Every other step of the cluster is a step of the service over Redis, or
\* none: a session written to a memory is a failed SET, the death of an
\* instance aborts its requests, a Redis that comes back empty has forgotten
\* all sessions.
LEMMA StepOfSession ==
  ASSUME ClusterTypeOK, [ClusterNext]_clusterVars
  PROVE  [Next]_vars \/ \E w \in Workers : HitInMemory(w)
<1>1. ASSUME NEW w \in Workers, NEW id \in Ids, NEW i \in Instances,
             RouteForward(w, id, i)
      PROVE  Next
  BY <1>1 DEF ClusterTypeOK, RouteForward, Next
<1>2. ASSUME NEW w \in Workers, NEW id \in Ids, NEW i \in Instances,
             NEW mask \in issued[id], NEW p \in Picks,
             RouteReverse(w, id, i, mask, p)
      PROVE  Next
  BY <1>2 DEF ClusterTypeOK, RouteReverse, Next
<1>3. ASSUME NEW w \in Workers, Hit(w)
      PROVE  LookupHit(w) \/ HitInMemory(w)
  BY <1>3 DEF ClusterTypeOK, Hit, HitInMemory, Get, LookupHit
<1>4. ASSUME NEW w \in Workers, Mask(w)
      PROVE  MaskAndSet(w)
  BY <1>4 DEF ClusterTypeOK, Mask, Put, MaskAndSet
<1>5. ASSUME NEW i \in Instances, Dies(i)
      PROVE  [Next]_vars
  <2>1. Serving(i) \in SUBSET Workers
    BY DEF Serving
  <2>2. CASE Serving(i) = {}
    BY <1>5, <2>2 DEF ClusterTypeOK, Dies, vars, history
  <2>3. CASE Serving(i) # {}
    <3>1. \E w \in Serving(i) : req[w].pc # "idle"
      BY <2>3 DEF Serving
    <3>2. Abort(Serving(i))
      BY <1>5, <3>1 DEF Dies, Abort
    <3> QED  BY <2>1, <3>2 DEF Next
  <2> QED  BY <2>2, <2>3
<1>6. CASE RedisFails
  <2>1. CASE store' = store
    BY <1>6, <2>1 DEF RedisFails, vars, history
  <2>2. CASE store' # store
    <3>1. store' = [id \in Ids |-> NoSession]
      BY <1>6, <2>2 DEF RedisFails, Empty
    <3>2. \E id \in Ids : store[id] # NoSession
      BY <2>2, <3>1 DEF ClusterTypeOK
    <3>3. store' = [id \in Ids |-> IF id \in Ids THEN NoSession ELSE store[id]]
      BY <3>1
    <3>4. Forget(Ids)
      BY <1>6, <3>2, <3>3 DEF RedisFails, Forget
    <3> QED  BY <3>4 DEF Next
  <2> QED  BY <2>1, <2>2
<1>7. ASSUME UNCHANGED vars
      PROVE  [Next]_vars
  BY <1>7
<1> QED
  BY <1>1, <1>2, <1>3, <1>4, <1>5, <1>6, <1>7
     DEF ClusterNext, ServeAt, Miss, Return, Next, Serve, Start, Shutdown,
         Crash, Exit, Overdue, Terminate, Configure, RedisReturns, clusterVars

\* As long as no instance has fallen back to its own memory the cluster of
\* any number of instances behaves like the one service of Session: whichever
\* instance serves a request, and whichever dies (main, NewRedisStore).
THEOREM ClusterRefinement == ClusterSpec => ImplementsSession
<1> DEFINE RInv == ClusterTypeOK /\ Shared
<1>1. ClusterInit => RInv /\ Init
  BY ClusterTypeInit, SharedInit DEF ClusterInit
<1>2. RInv /\ [ClusterNext]_clusterVars => RInv'
  BY ClusterTypeNext, SharedNext
<1>3. RInv /\ RInv' /\ [ClusterNext]_clusterVars => [fellBack' \/ Next]_vars
  <2>1. ASSUME ClusterTypeOK, Shared, NEW w \in Workers, HitInMemory(w)
        PROVE  fellBack'
    BY <2>1 DEF ClusterTypeOK, Shared, HitInMemory, Hit, record
  <2> QED  BY <2>1, StepOfSession
<1> QED  BY <1>1, <1>2, <1>3, PTL DEF ClusterSpec, ImplementsSession

----------------------------------------------------------------------------
(* The contract, also of a cluster that is split.                          *)

\* Every memory, like Redis, holds the session of the document under the id's
\* only rule, or none.
MemoriesOK ==
  \A i \in Instances, id \in Ids : id \notin Void =>
    /\ memory[i][id] \in {NoSession, SessionOf(Doc[id], rule[id])}
    /\ memory[i][id] # NoSession => Ended(id)

ClusterInv == ClusterTypeOK /\ IInv /\ MemoriesOK

\* What no step of the cluster undoes: an id that is still good was so before,
\* and its rule has not changed since the first request.
LEMMA RuleKept ==
  ASSUME ClusterTypeOK, [ClusterNext]_clusterVars, NEW id \in Ids, id \notin Void'
  PROVE  id \notin Void /\ (rule'[id] = rule[id] \/ rule[id] = NoRule)
<1>1. ASSUME NEW w \in Workers, NEW d \in Ids, NEW i \in Instances,
             UseRule(d, rules[i])
      PROVE  id \notin Void /\ (rule'[id] = rule[id] \/ rule[id] = NoRule)
  BY <1>1, OneRule DEF ClusterTypeOK
<1>2. ASSUME NEW w \in Workers, NEW d \in Ids, NEW i \in Instances,
             \/ RouteForward(w, d, i)
             \/ \E mask \in issued[d], p \in Picks : RouteReverse(w, d, i, mask, p)
      PROVE  UseRule(d, rules[i])
  BY <1>2 DEF RouteForward, RouteReverse, SendForward, SendReverse
<1> DEFINE Same == rule' = rule /\ mixed' = mixed /\ missed \subseteq missed'
<1>3. ASSUME NEW w \in Workers, ServeAt(w)
      PROVE  Same
  BY <1>3 DEF ServeAt, Hit, Miss, LookupMiss, Mask, Return, Deliver, history
<1>4. ASSUME NEW i \in Instances, Start(i) \/ Terminate(i)
      PROVE  Same
  BY <1>4 DEF Start, Terminate, vars
<1>5. ASSUME NEW i \in Instances, Crash(i) \/ Shutdown(i)
      PROVE  Same
  BY <1>5 DEF Crash, Shutdown, Exit, Overdue, Dies, history
<1>6. ASSUME NEW i \in Instances, NEW o \in Rules, Configure(i, o)
      PROVE  Same
  BY <1>6 DEF Configure, vars
<1>7. CASE RedisFails \/ RedisReturns \/ UNCHANGED clusterVars
  <2>1. Same
    BY <1>7 DEF RedisFails, RedisReturns, clusterVars, vars, history
  <2> QED  BY <2>1 DEF Void
<1>8. ASSUME Same
      PROVE  id \notin Void /\ (rule'[id] = rule[id] \/ rule[id] = NoRule)
  BY <1>8 DEF Void
<1> HIDE DEF Same
<1> QED
  BY <1>1, <1>2, <1>3, <1>4, <1>5, <1>6, <1>7, <1>8 DEF ClusterNext

\* What an instance writes is the session of the id's document.
LEMMA MemoriesNext ==
  ClusterInv /\ [ClusterNext]_clusterVars => MemoriesOK'
<1> SUFFICES ASSUME ClusterInv, [ClusterNext]_clusterVars,
                    NEW i \in Instances, NEW id \in Ids, id \notin Void'
             PROVE  /\ memory'[i][id] \in {NoSession, SessionOf(Doc[id], rule'[id])}
                    /\ memory'[i][id] # NoSession => Ended(id)'
  BY DEF MemoriesOK
<1>1. ClusterTypeOK /\ id \notin Void
        /\ (rule'[id] = rule[id] \/ rule[id] = NoRule)
  BY RuleKept DEF ClusterInv
<1>2. CASE memory'[i][id] \in {memory[i][id], NoSession}
  BY <1>1, <1>2 DEF ClusterInv, MemoriesOK, Ended
<1>3. ASSUME NEW w \in Workers, Mask(w)
      PROVE  \/ memory'[i][id] = memory[i][id]
             \/ /\ memory'[i][id] = SessionOf(Doc[id], rule'[id])
                /\ Ended(id)'
  <2> DEFINE q == req[w]
             s == SessionOf(q.payload, q.opts)
  <2>1. /\ q.pc = "mask" /\ Put(at[w], q.id, s) /\ ~Hangs(q.payload, q.opts)
        /\ UNCHANGED <<rule, mixed, missed>>
    BY <1>3 DEF Mask, history
  <2>2. CASE at[w] # i \/ q.id # id \/ memory' = memory
    <3> HIDE DEF s
    <3> QED  BY <1>1, <2>1, <2>2 DEF Put, ClusterTypeOK
  <2>3. CASE at[w] = i /\ q.id = id /\ memory' # memory
    <3>1. RequestOK(q, rule) /\ q.opts \in Rules
      BY <1>1, <2>1, <2>3 DEF ClusterInv, IInv, RequestsOK, TypeOK
    <3>2. q.payload = Doc[id] /\ q.opts = rule[id] /\ rule[id] # NoRule
      BY <2>1, <2>3, <3>1, SessionAssumption DEF RequestOK, Asked
    <3>3. memory'[i][id] = s
      <4> HIDE DEF s
      <4> QED  BY <1>1, <2>1, <2>3 DEF Put, ClusterTypeOK
    <3> QED  BY <2>1, <3>2, <3>3 DEF Ended
  <2> QED  BY <2>2, <2>3
<1>4. ASSUME NEW j \in Instances, Dies(j)
      PROVE  memory'[i][id] \in {memory[i][id], NoSession}
  BY <1>1, <1>4 DEF ClusterTypeOK, Dies, Empty
<1>5. \/ memory' = memory
      \/ \E w \in Workers : Mask(w)
      \/ \E j \in Instances : Dies(j)
  BY DEF ClusterNext, RouteForward, RouteReverse, Route, ServeAt, Hit, Miss,
         Return, Start, Shutdown, Crash, Exit, Overdue, Terminate, Configure,
         RedisFails, RedisReturns, clusterVars, instances
<1> QED  BY <1>1, <1>2, <1>3, <1>4, <1>5 DEF ClusterInv, MemoriesOK, Ended

\* An answer from an instance's memory is the one owed.
LEMMA HitInMemoryKeeps ==
  ASSUME ClusterInv, NEW w \in Workers, HitInMemory(w), TypeOK'
  PROVE  IInv'
<1> DEFINE s == Get(at[w], req[w].id)
           r == Reply(req[w], Answer(s, req[w].payload, req[w].opts))
<1>1. /\ req[w].pc = "lookup" /\ s # NoSession
      /\ req' = [req EXCEPT ![w] = r]
      /\ UNCHANGED <<store, issued, rule, mixed, missed>>
  BY DEF HitInMemory, Hit, history
<1>2. StoreOK' /\ IssuedOK'
  BY <1>1 DEF ClusterInv, IInv, StoreOK, IssuedOK, Ended, Void
<1>3. ASSUME r.id \notin Void'
      PROVE  RequestOK(r, rule')
  <2>1. /\ req[w].id \in Ids /\ req[w].id \notin Void
        /\ at[w] \in Instances /\ s = memory[at[w]][req[w].id]
    BY <1>1, <1>3 DEF Reply, Void, ClusterInv, ClusterTypeOK, TypeOK,
                      HitInMemory, Get
  <2>2. RequestOK(req[w], rule)
    BY <1>1, <2>1 DEF ClusterInv, IInv, RequestsOK
  <2>3. /\ s = SessionOf(Doc[req[w].id], req[w].opts)
        /\ ~Hangs(Doc[req[w].id], req[w].opts)
    BY <1>1, <2>1, <2>2 DEF ClusterInv, MemoriesOK, Ended, RequestOK
  <2>4. Asked(r)
    BY <2>2 DEF RequestOK, Asked, Reply
  <2>5. Kept(r)
    BY <2>3, <2>4, AnswerKept DEF Reply
  <2> QED  BY <1>1, <2>2, <2>3, <2>4, <2>5 DEF RequestOK, Reply
<1> HIDE DEF r, s
<1> QED  BY <1>1, <1>2, <1>3, ServeKeeps DEF ClusterInv

\* In every reachable state every store, every mask given out and every
\* request agrees with the documents.
THEOREM ClusterInvariance == ClusterSpec => []ClusterInv
<1>1. ClusterInit => ClusterInv
  BY ClusterTypeInit, InvInit DEF ClusterInv, ClusterInit, MemoriesOK, Empty
<1>2. ClusterInv /\ [ClusterNext]_clusterVars => ClusterInv'
  <2> SUFFICES ASSUME ClusterInv, [ClusterNext]_clusterVars PROVE ClusterInv'
    OBVIOUS
  <2>1. ClusterTypeOK' /\ MemoriesOK' /\ TypeOK'
    BY ClusterTypeNext, MemoriesNext DEF ClusterInv, ClusterTypeOK
  <2>2. IInv'
    BY <2>1, StepOfSession, InvNext, HitInMemoryKeeps DEF ClusterInv
  <2> QED  BY <2>1, <2>2 DEF ClusterInv
<1> QED  BY <1>1, <1>2, PTL DEF ClusterSpec

\* A document that is sent again, to any instance of a cluster that may be
\* split, gets the mask it got before (Service.Process).
THEOREM ClusterForwardIdempotence == ClusterSpec => []ForwardIdempotent
<1>1. ClusterInv => ForwardIdempotent
  BY DEF ClusterInv, IInv, RequestsOK, RequestOK, Kept, ForwardIdempotent, Owed,
         Done, Void
<1> QED  BY <1>1, ClusterInvariance, PTL

\* Whichever instance restores, restores right (Service.Process).
THEOREM ClusterReverseRestoration == ClusterSpec => []ReverseRestores
<1>1. ClusterInv => ReverseRestores
  BY DEF ClusterInv, IInv, RequestsOK, RequestOK, Kept, ReverseRestores, Owed,
         Done, Void
<1> QED  BY <1>1, ClusterInvariance, PTL

\* Whichever instance restores, every document that does not contain one of its
\* own replacements comes back word for word (Service.Process).
THEOREM ClusterWordRestoration == ClusterSpec => []WordsRestored
<1>1. ClusterInv => WordsRestored
  BY InvRestores DEF ClusterInv
<1> QED  BY <1>1, ClusterInvariance, PTL

\* Sessions in the instances' memories are made of texts, too.
MemoryTexts ==
  \A i \in Instances, id \in Ids :
    memory[i][id] # NoSession => SessionOK(memory[i][id])

\* What an instance keeps for itself is a session of the text it was sent.
LEMMA MemoryTextsNext ==
  ClusterTypeOK /\ TextsOK /\ MemoryTexts /\ [ClusterNext]_clusterVars
    => MemoryTexts'
<1> SUFFICES ASSUME ClusterTypeOK, TextsOK, MemoryTexts,
                    [ClusterNext]_clusterVars,
                    NEW i \in Instances, NEW id \in Ids,
                    memory'[i][id] # NoSession
             PROVE  SessionOK(memory'[i][id])
  BY DEF MemoryTexts, SessionOK
<1>1. ASSUME NEW w \in Workers, Mask(w)
      PROVE  \/ memory'[i][id] = memory[i][id]
             \/ SessionOK(memory'[i][id])
  <2> DEFINE q == req[w]
             s == SessionOf(q.payload, q.opts)
  <2>1. q.pc = "mask" /\ Put(at[w], q.id, s)
    BY <1>1 DEF Mask
  <2>2. q.payload \in Text /\ q.opts \in Options
    BY <2>1 DEF ClusterTypeOK, TypeOK, TextsOK, RequestText
  <2>3. SessionOK(s)
    BY <2>2, SessionOfText
  <2> HIDE DEF s
  <2> QED  BY <2>1, <2>3 DEF Put, ClusterTypeOK
<1>2. ASSUME NEW j \in Instances, Dies(j)
      PROVE  memory'[i][id] \in {memory[i][id], NoSession}
  BY <1>2 DEF ClusterTypeOK, Dies, Empty
<1>3. \/ memory' = memory
      \/ \E w \in Workers : Mask(w)
      \/ \E j \in Instances : Dies(j)
  BY DEF ClusterNext, RouteForward, RouteReverse, Route, ServeAt, Hit, Miss,
         Return, Start, Shutdown, Crash, Exit, Overdue, Terminate, Configure,
         RedisFails, RedisReturns, clusterVars, instances
<1> QED  BY <1>1, <1>2, <1>3 DEF MemoryTexts

\* A client for which restoring is switched off is shown nothing that it did
\* not send by any instance either, also when its id's sessions in Redis and in
\* the memories differ (Service.Process, main's choice of the store).
THEOREM ClusterNothingHiddenShown == ClusterSpec => []DemaskDisabledHides
<1> DEFINE TInv == ClusterTypeOK /\ TextsOK /\ MemoryTexts
<1>1. ClusterInit => TInv
  BY ClusterTypeInit DEF ClusterInit, Init, Idle, Empty, TextsOK, MemoryTexts
<1>2. TInv /\ [ClusterNext]_clusterVars => TInv'
  <2> SUFFICES ASSUME TInv, [ClusterNext]_clusterVars PROVE TInv'
    OBVIOUS
  <2>1. ClusterTypeOK' /\ MemoryTexts'
    BY ClusterTypeNext, MemoryTextsNext
  <2>2. ASSUME NEW w \in Workers, HitInMemory(w)
        PROVE  TextsOK'
    <3> DEFINE s == Get(at[w], req[w].id)
    <3>1. /\ req[w].pc = "lookup" /\ s # NoSession
          /\ req' = [req EXCEPT ![w] =
                       Reply(req[w], Answer(s, req[w].payload, req[w].opts))]
          /\ UNCHANGED <<store, issued>>
      BY <2>2 DEF HitInMemory, Hit
    <3>2. s = memory[at[w]][req[w].id] /\ at[w] \in Instances
      BY <2>2, <3>1 DEF HitInMemory, Get, ClusterTypeOK
    <3>3. SessionOK(s)
      BY <3>1, <3>2 DEF ClusterTypeOK, TypeOK, MemoryTexts
    <3> HIDE DEF s
    <3> QED  BY <3>1, <3>3, AnswerTexts DEF ClusterTypeOK
  <2>3. [Next]_vars \/ \E w \in Workers : HitInMemory(w)
    BY StepOfSession
  <2>4. TextsOK'
    BY <2>2, <2>3, TextsNext DEF ClusterTypeOK
  <2> QED  BY <2>1, <2>4
<1>3. TInv => DemaskDisabledHides
  BY DEF TextsOK, RequestText, NothingNew, DemaskDisabledHides, Done
<1> QED  BY <1>1, <1>2, <1>3, PTL DEF ClusterSpec

----------------------------------------------------------------------------
(* Restarts lose nothing.                                                  *)

\* Until Redis fails, an id has its session as soon as anybody knows a mask of
\* it, so that reverse requests find it and only documents are masked.
Safe ==
  /\ redisUp
  /\ ~fellBack
  /\ missed = {}
  /\ \A id \in Ids : issued[id] # {} => store[id] # NoSession
  /\ \A w \in Workers :
       LET r == req[w]
       IN /\ r.pc = "done" \/ (r.pc = "lookup" /\ r.dir = "reverse") =>
               store[r.id] # NoSession
          /\ r.pc # "idle" /\ r.dir = "forward" => r.payload = Doc[r.id]
          /\ r.pc = "mask" => r.dir = "forward"

LossInv == ClusterTypeOK /\ Shared /\ (~trouble => Safe)

\* No step but a failure of Redis makes the cluster unsafe.
LEMMA SafeNext ==
  ASSUME ClusterTypeOK, ClusterTypeOK', Shared, Safe, ~trouble', ~trouble,
         [ClusterNext]_clusterVars
  PROVE  Safe'
<1>1. ASSUME NEW w \in Workers, NEW id \in Ids, NEW i \in Instances,
             RouteForward(w, id, i)
      PROVE  Safe'
  BY <1>1 DEF ClusterTypeOK, TypeOK, Safe, RouteForward, Route, SendForward,
              Request, UseRule, instances, record
<1>2. ASSUME NEW w \in Workers, NEW id \in Ids, NEW i \in Instances,
             NEW mask \in issued[id], NEW p, RouteReverse(w, id, i, mask, p)
      PROVE  Safe'
  BY <1>2 DEF ClusterTypeOK, TypeOK, Safe, RouteReverse, Route, SendReverse,
              Request, UseRule, instances, record
<1>3. ASSUME NEW w \in Workers, req[w].pc \in {"lookup", "mask"}
      PROVE  backend[at[w]] = "redis" /\ at[w] \in Instances
  BY <1>3 DEF ClusterTypeOK, Shared, Safe
<1>4. ASSUME NEW w \in Workers, Hit(w)
      PROVE  Safe'
  <2> DEFINE q == req[w]
             r == Reply(q, Answer(Get(at[w], q.id), q.payload, q.opts))
  <2>1. /\ q.pc = "lookup" /\ req' = [req EXCEPT ![w] = r]
        /\ UNCHANGED <<store, issued, missed, redisUp, fellBack>>
    BY <1>4 DEF Hit, history, record
  <2>2. store[q.id] # NoSession
    BY <1>3, <1>4, <2>1 DEF Hit, Get, Safe
  <2>3. r.pc = "done" /\ r.id = q.id /\ r.dir = q.dir /\ r.payload = q.payload
    BY DEF Reply
  <2> HIDE DEF r
  <2>4. req'[w] = r /\ \A v \in Workers : v # w => req'[v] = req[v]
    BY <2>1 DEF ClusterTypeOK, TypeOK
  <2> QED  BY <2>1, <2>2, <2>3, <2>4 DEF Safe
<1>5. ASSUME NEW w \in Workers, Miss(w)
      PROVE  Safe'
  <2>1. req[w].dir = "forward"
    BY <1>3, <1>5 DEF ClusterTypeOK, TypeOK, Safe, Miss, Get
  <2> DEFINE q == req[w]
             r == [Request(q.id, q.dir, q.opts, q.payload, q.want) EXCEPT !.pc = "mask"]
  <2>2. /\ q.pc = "lookup" /\ req' = [req EXCEPT ![w] = r]
        /\ UNCHANGED <<store, issued, missed, redisUp, fellBack>>
    BY <1>5, <2>1 DEF Miss, LookupMiss, record
  <2>3. r.pc = "mask" /\ r.id = q.id /\ r.dir = q.dir /\ r.payload = q.payload
    BY DEF Request
  <2> HIDE DEF r
  <2>4. req'[w] = r /\ \A v \in Workers : v # w => req'[v] = req[v]
    BY <2>2 DEF ClusterTypeOK, TypeOK
  <2> QED  BY <2>1, <2>2, <2>3, <2>4 DEF Safe
<1>6. ASSUME NEW w \in Workers, Mask(w)
      PROVE  Safe'
  <2> DEFINE q == req[w]
             s == SessionOf(q.payload, q.opts)
             r == Reply(q, MaskText(q.payload, q.opts))
  <2>1. /\ q.pc = "mask" /\ Put(at[w], q.id, s) /\ req' = [req EXCEPT ![w] = r]
        /\ UNCHANGED <<issued, missed, redisUp, fellBack>>
    BY <1>6 DEF Mask, history, record
  <2>2. q.id \in Ids /\ q.opts \in Rules /\ q.dir = "forward"
          /\ q.payload = Doc[q.id]
    BY <2>1 DEF ClusterTypeOK, TypeOK, Safe
  <2>3. s # NoSession
    BY <2>2
  <2>4. r.pc = "done" /\ r.id = q.id /\ r.dir = q.dir /\ r.payload = q.payload
    BY DEF Reply
  <2> HIDE DEF q, s, r
  <2>5. store' = [store EXCEPT ![q.id] = s]
    BY <1>3, <2>1 DEF Put, Safe, q
  <2>6. \A id \in Ids : store[id] # NoSession => store'[id] # NoSession
    BY <2>2, <2>3, <2>5 DEF ClusterTypeOK, TypeOK
  <2>7. store'[q.id] # NoSession
    BY <2>2, <2>3, <2>5 DEF ClusterTypeOK, TypeOK
  <2> QED  BY <2>1, <2>2, <2>4, <2>6, <2>7 DEF ClusterTypeOK, TypeOK, Safe
<1>7. ASSUME NEW w \in Workers, Return(w)
      PROVE  Safe'
  <2>1. /\ req[w].pc = "done" /\ req' = [req EXCEPT ![w] = Idle]
        /\ UNCHANGED <<store, missed, redisUp, fellBack>>
        /\ \/ issued' = [issued EXCEPT ![req[w].id] = @ \cup {req[w].reply}]
           \/ issued' = issued
    BY <1>7 DEF Return, Deliver, history, record
  <2>2. \A id \in Ids : issued'[id] # {} => store[id] # NoSession
    BY <2>1 DEF ClusterTypeOK, TypeOK, Safe
  <2>3. \A v \in Workers : req'[v] = req[v] \/ req'[v].pc = "idle"
    BY <2>1 DEF ClusterTypeOK, TypeOK, Idle
  <2> QED  BY <2>1, <2>2, <2>3 DEF Safe
<1>8. ASSUME NEW i \in Instances, Start(i)
      PROVE  Safe'
  BY <1>8 DEF Safe, Start, vars
<1>9. ASSUME NEW i \in Instances, Dies(i)
      PROVE  Safe'
  BY <1>9 DEF ClusterTypeOK, TypeOK, Safe, Dies, Idle, history
<1>10. ASSUME NEW i \in Instances, NEW o \in Rules,
              Terminate(i) \/ Configure(i, o)
       PROVE  Safe'
  <2>1. UNCHANGED <<store, req, issued, missed, redisUp, fellBack>>
    BY <1>10 DEF Terminate, Configure, vars
  <2> QED  BY <2>1 DEF Safe
<1>11. ~RedisFails /\ ~RedisReturns
  BY DEF RedisFails, RedisReturns, Safe
<1>12. CASE UNCHANGED clusterVars
  BY <1>12 DEF Safe, clusterVars, vars, record
<1> QED
  BY <1>1, <1>2, <1>4, <1>5, <1>6, <1>7, <1>8, <1>9, <1>10, <1>11, <1>12
     DEF ClusterNext, ServeAt, Shutdown, Crash, Exit, Overdue

\* As long as Redis answers, crashes, stops and starts of any number of
\* instances cost no session (main's choice of the store, redis.go).
THEOREM NothingLost == ClusterSpec => []RestartsLoseNothing
<1>1. ClusterInit => LossInv
  <2>1. ClusterInit => Safe
    BY DEF ClusterInit, Init, Idle, Safe
  <2> QED  BY <2>1, ClusterTypeInit, SharedInit DEF LossInv
<1>2. LossInv /\ [ClusterNext]_clusterVars => LossInv'
  <2> SUFFICES ASSUME LossInv, [ClusterNext]_clusterVars PROVE LossInv'
    OBVIOUS
  <2>1. ClusterTypeOK' /\ Shared'
    BY ClusterTypeNext, SharedNext DEF LossInv
  <2>2. ~trouble' => ~trouble
    BY DEF ClusterNext, RouteForward, RouteReverse, Route, ServeAt, Hit, Miss,
           Mask, Return, Start, Shutdown, Crash, Exit, Overdue, Dies, Terminate,
           Configure, RedisFails, RedisReturns, clusterVars, record
  <2> QED  BY <2>1, <2>2, SafeNext DEF LossInv
<1>3. LossInv => RestartsLoseNothing
  BY DEF LossInv, Safe, RestartsLoseNothing
<1> QED  BY <1>1, <1>2, <1>3, PTL DEF ClusterSpec
=============================================================================
