------------------------------ MODULE Session ------------------------------
(***************************************************************************)
(* Service.Process: the two steps of a document, forward (mask) and        *)
(* reverse (restore), served by concurrent request handlers over a session *)
(* store that may lose sessions or fail (service.go:241-283).              *)
(*                                                                         *)
(* Clients follow the protocol: under an id they send the one document     *)
(* Doc[id] for masking, as often as they like, and once they have received *)
(* a mask, parts of it for restoring.                                      *)
(***************************************************************************)
EXTENDS Masking

CONSTANTS
  Workers,    \* the goroutines that serve /process
  Ids,        \* payload_id
  Doc,        \* Doc[id]: the document sent under id
  Rules,      \* the ProcessOptions the consuming systems' rules resolve to
  Picks,      \* the selections of words that come back in reverse requests
  Faults,     \* which of "forget", "getError", "setError", "abort" and
              \* "restart" happen
  NoSession,  \* no entry in the store
  NoRule      \* no request has used the id

ASSUME SessionAssumption ==
  /\ Doc \in [Ids -> Text]
  /\ Rules \subseteq Options
  /\ Picks \subseteq Seq(Nat)
  /\ NoRule \notin Rules

VARIABLES
  store,   \* Store: payload_id -> SessionState
  req,     \* what each worker is serving
  issued,  \* the masks each id's client has received
  rule,    \* history: the rule of the first request for each id
  mixed,   \* history: the ids used under more than one rule
  missed   \* history: the ids a reverse request found no session for

history == <<rule, mixed, missed>>
vars == <<store, req, issued, rule, mixed, missed>>

Idle == [pc |-> "idle"]

\* want is no part of the request: what its client is owed.
Request(id, dir, o, payload, want) ==
  [pc |-> "lookup", id |-> id, dir |-> dir, opts |-> o, payload |-> payload,
   want |-> want]

Init ==
  /\ store = [id \in Ids |-> NoSession]
  /\ req = [w \in Workers |-> Idle]
  /\ issued = [id \in Ids |-> {}]
  /\ rule = [id \in Ids |-> NoRule]
  /\ mixed = {}
  /\ missed = {}

----------------------------------------------------------------------------
(* Clients.  Nothing stops a second request for an id while the first is   *)
(* being served: a retry after a timeout is exactly that.                  *)

UseRule(id, o) ==
  /\ rule' = [rule EXCEPT ![id] = IF @ = NoRule THEN o ELSE @]
  /\ mixed' = IF rule[id] \in {NoRule, o} THEN mixed ELSE mixed \cup {id}
  /\ UNCHANGED missed

SendForward(w, id, o) ==
  /\ req[w].pc = "idle"
  /\ req' = [req EXCEPT ![w] =
               Request(id, "forward", o, Doc[id], MaskText(Doc[id], o))]
  /\ UseRule(id, o)
  /\ UNCHANGED <<store, issued>>

SendReverse(w, id, o, mask, p) ==
  /\ req[w].pc = "idle"
  /\ mask \in issued[id]
  /\ \A k \in DOMAIN p : p[k] \in DOMAIN mask
  /\ req' = [req EXCEPT ![w] =
               Request(id, "reverse", o, Pick(mask, p),
                       Restored(Doc[id], o, p))]
  /\ UseRule(id, o)
  /\ UNCHANGED <<store, issued>>

\* The client reads the reply, or has given up waiting for it.
Deliver(w) ==
  /\ req[w].pc = "done"
  /\ \/ /\ req[w].dir = "forward"
        /\ issued' = [issued EXCEPT ![req[w].id] = @ \cup {req[w].reply}]
     \/ UNCHANGED issued
  /\ req' = [req EXCEPT ![w] = Idle]
  /\ UNCHANGED <<store, history>>

----------------------------------------------------------------------------
(* Process.                                                                *)

Reply(r, text) ==
  [pc |-> "done", id |-> r.id, dir |-> r.dir, opts |-> r.opts,
   payload |-> r.payload, want |-> r.want, reply |-> text]

\* Faulty variant of LookupHit for mutation: a hit renews the session.
LookupHit_Renews(w) ==
  LET r == req[w]
  IN /\ r.pc = "lookup"
     /\ store[r.id] # NoSession
     /\ store' = [store EXCEPT ![r.id] = SessionOf(r.payload, r.opts)]
     /\ req' = [req EXCEPT ![w] =
                  Reply(r, Answer(store[r.id], r.payload, r.opts))]
     /\ UNCHANGED <<issued, history>>

\* cache.Get found the session.
LookupHit(w) ==
  LET r == req[w]
  IN /\ r.pc = "lookup"
     /\ store[r.id] # NoSession
     /\ req' = [req EXCEPT ![w] =
                  Reply(r, Answer(store[r.id], r.payload, r.opts))]
     /\ UNCHANGED <<store, issued, history>>

\* cache.Get found nothing; a Redis error reads the same (redis.go:35-45).
LookupMiss(w) ==
  LET r == req[w]
  IN /\ r.pc = "lookup"
     /\ store[r.id] = NoSession \/ "getError" \in Faults
     /\ req' = [req EXCEPT ![w] =
                  [Request(r.id, r.dir, r.opts, r.payload, r.want)
                     EXCEPT !.pc = "mask"]]
     /\ missed' = IF r.dir = "reverse" THEN missed \cup {r.id} ELSE missed
     /\ UNCHANGED <<store, issued, rule, mixed>>

\* Faulty variant of MaskAndSet for mutation: the session is made of the mask.
MaskAndSet_OfMask(w) ==
  LET r == req[w]
  IN /\ r.pc = "mask"
     /\ ~Hangs(r.payload, r.opts)
     /\ \/ store' = [store EXCEPT ![r.id] =
                       SessionOf(MaskText(r.payload, r.opts), r.opts)]
        \/ "setError" \in Faults /\ UNCHANGED store
     /\ req' = [req EXCEPT ![w] = Reply(r, MaskText(r.payload, r.opts))]
     /\ UNCHANGED <<issued, history>>

\* Whatever the payload is, it is masked and becomes the id's session.  An
\* error of Redis' SET is dropped.
MaskAndSet(w) ==
  LET r == req[w]
  IN /\ r.pc = "mask"
     /\ ~Hangs(r.payload, r.opts)
     /\ \/ store' = [store EXCEPT ![r.id] = SessionOf(r.payload, r.opts)]
        \/ "setError" \in Faults /\ UNCHANGED store
     /\ req' = [req EXCEPT ![w] = Reply(r, MaskText(r.payload, r.opts))]
     /\ UNCHANGED <<issued, history>>

----------------------------------------------------------------------------
(* The store: TTL expiry and eviction, a Redis that comes back empty; the  *)
(* loss of requests and of the whole process.                              *)

Forget(S) ==
  /\ "forget" \in Faults
  /\ \E id \in S : store[id] # NoSession
  /\ store' = [id \in Ids |-> IF id \in S THEN NoSession ELSE store[id]]
  /\ UNCHANGED <<req, issued, history>>

\* Requests die with the instance that serves them; the store is elsewhere.
Abort(W) ==
  /\ "abort" \in Faults
  /\ \E w \in W : req[w].pc # "idle"
  /\ req' = [w \in Workers |-> IF w \in W THEN Idle ELSE req[w]]
  /\ UNCHANGED <<store, issued, history>>

\* The in-memory store and the requests in flight die with the process.
Restart ==
  /\ "restart" \in Faults
  /\ store' = [id \in Ids |-> NoSession]
  /\ req' = [w \in Workers |-> Idle]
  /\ UNCHANGED <<issued, history>>

Serve(w) == LookupHit(w) \/ LookupMiss(w) \/ MaskAndSet(w) \/ Deliver(w)

Next ==
  \/ \E w \in Workers :
       \/ \E id \in Ids, o \in Rules :
            \/ SendForward(w, id, o)
            \/ \E mask \in issued[id], p \in Picks :
                 SendReverse(w, id, o, mask, p)
       \/ Serve(w)
  \/ \E S \in SUBSET Ids : Forget(S)
  \/ \E W \in SUBSET Workers : Abort(W)
  \/ Restart

Spec == Init /\ [][Next]_vars

\* A goroutine that can run is run.
FairSpec == Spec /\ \A w \in Workers : WF_vars(Serve(w))

----------------------------------------------------------------------------
(* Properties.                                                             *)

Done(w) == req[w].pc = "done"

Owed(w, dir) ==
  LET r == req[w]
  IN /\ Done(w)
     /\ r.dir = dir
     /\ dir = "reverse" =>
          \A p \in Picks : (\A k \in DOMAIN p : p[k] \in DOMAIN Doc[r.id])
             => Reversible(Doc[r.id], r.opts, p)

\* Every forward request for an id is answered with the same mask of the
\* document, however many run at once and however often the session is lost,
\* while the id is used under one rule and no reverse request came between
\* (Process: the miss branch and the retry test payload = OriginalText).
ForwardIdempotent ==
  \A w \in Workers :
    Owed(w, "forward") /\ req[w].id \notin mixed \cup missed =>
      req[w].reply = req[w].want

\* Under the same provisos every reverse request gets the originals of the
\* words it sent, whichever worker issued the mask (Process, Demask).
ReverseRestores ==
  \A w \in Workers :
    Owed(w, "reverse") /\ req[w].id \notin mixed \cup missed =>
      req[w].reply = req[w].want

\* A client for which restoring is switched off never gets a value it did not
\* send, whatever was lost or overwritten before and whichever rules the id
\* was used under (service.go:270-273).
DemaskDisabledHides ==
  \A w \in Workers :
    Done(w) /\ ~req[w].opts.demask =>
      \A i \in DOMAIN req[w].reply :
        LET word == req[w].reply[i]
        IN word.kind = "value" =>
             \E k \in DOMAIN req[w].payload : req[w].payload[k] = word

\* A stored session is never replaced by a different one: late first requests
\* and retries write back what is there (Process' Get-then-Set).
SessionStable ==
  [][\A id \in Ids : id \notin mixed' \cup missed' /\ store[id] # NoSession
       => store'[id] \in {store[id], NoSession}]_vars

\* Every request is answered.
EveryRequestAnswered ==
  \A w \in Workers : req[w].pc = "lookup" ~> req[w].pc = "idle"

\* README.md: a repeated forward request gets the mask it got before.
ForwardIdempotentAlways ==
  \A w \in Workers :
    Owed(w, "forward") /\ req[w].id \notin mixed => req[w].reply = req[w].want
=============================================================================
