------------------------------- MODULE Cluster ------------------------------
(***************************************************************************)
(* Several instances of the service behind nginx (docker-compose.yml,      *)
(* deploy/nginx.conf).  Each chooses its store once, when it starts: Redis *)
(* if it answers, else a memory of its own (main.go:23-36).  Each has its  *)
(* own copy of the rules, which a PUT reaches on one instance only.        *)
(* Instances crash, are told to stop and are started again; Redis may be   *)
(* out of reach and come back empty.                                       *)
(*                                                                         *)
(* The requests, the clients and their contract are those of Session,      *)
(* whose store is Redis; a request also has an instance that serves it.    *)
(***************************************************************************)
EXTENDS Session

CONSTANTS
  Instances,
  None,       \* no instance
  FileRule,   \* the rule of the configuration file
  MaxEvents   \* bound: failures, stops and configuration changes

ASSUME ClusterAssumption ==
  /\ Faults = {"forget", "getError", "setError", "abort"}
  /\ FileRule \in Rules
  /\ \A id \in Ids, o \in Rules : SessionOf(Doc[id], o) # NoSession
  /\ None \notin Instances
  /\ MaxEvents \in Nat

\* store is what Redis holds.
VARIABLES
  redisUp,    \* whether Redis answers
  phase,      \* of each instance: "down", "up", or "draining" (srv.Shutdown)
  backend,    \* what it chose: "redis" or "memory"
  memory,     \* its own ShardedCache
  rules,      \* its config.Store
  at,         \* the instance that serves each worker's request, or None
  trouble,    \* history: Redis has failed
  fellBack,   \* history: an instance has chosen its own memory
  events      \* how many of MaxEvents have happened

instances == <<phase, backend, memory, rules>>
record == <<trouble, fellBack, events>>
clusterVars == <<vars, redisUp, instances, at, record>>

Empty == [id \in Ids |-> NoSession]

ClusterInit ==
  /\ Init
  /\ redisUp = TRUE
  /\ phase = [i \in Instances |-> "down"]
  /\ backend = [i \in Instances |-> "memory"]
  /\ memory = [i \in Instances |-> Empty]
  /\ rules = [i \in Instances |-> FileRule]
  /\ at = [w \in Workers |-> None]
  /\ trouble = FALSE
  /\ fellBack = FALSE
  /\ events = 0

----------------------------------------------------------------------------
(* Clients: nginx passes a request to any instance that listens.           *)

Route(w, i) ==
  /\ phase[i] = "up"
  /\ at' = [at EXCEPT ![w] = i]
  /\ UNCHANGED <<redisUp, instances, record>>

RouteForward(w, id, i) == Route(w, i) /\ SendForward(w, id, rules[i])

RouteReverse(w, id, i, mask, p) ==
  Route(w, i) /\ SendReverse(w, id, rules[i], mask, p)

Return(w) ==
  /\ Deliver(w)
  /\ at' = [at EXCEPT ![w] = None]
  /\ UNCHANGED <<redisUp, instances, record>>

----------------------------------------------------------------------------
(* Process on an instance.                                                 *)

\* The store's Get: a Redis that does not answer has no sessions.
Get(i, id) ==
  IF backend[i] = "memory" THEN memory[i][id]
  ELSE IF redisUp THEN store[id] ELSE NoSession

\* Faulty variant of Hit for mutation: the answer is given under the rule of
\* the file.
Hit_FileRule(w) ==
  LET r == req[w]
      s == Get(at[w], r.id)
  IN /\ r.pc = "lookup"
     /\ s # NoSession
     /\ req' = [req EXCEPT ![w] = Reply(r, Answer(s, r.payload, FileRule))]
     /\ UNCHANGED <<store, issued, history, redisUp, instances, at, record>>

Hit(w) ==
  LET r == req[w]
      s == Get(at[w], r.id)
  IN /\ r.pc = "lookup"
     /\ s # NoSession
     /\ req' = [req EXCEPT ![w] = Reply(r, Answer(s, r.payload, r.opts))]
     /\ UNCHANGED <<store, issued, history, redisUp, instances, at, record>>

\* Faulty variant of Miss for mutation: a read waits for Redis.
Miss_Waits(w) ==
  /\ req[w].pc = "lookup"
  /\ Get(at[w], req[w].id) = NoSession
  /\ backend[at[w]] = "redis" => redisUp
  /\ LookupMiss(w)
  /\ UNCHANGED <<redisUp, instances, at, record>>

Miss(w) ==
  /\ req[w].pc = "lookup"
  /\ Get(at[w], req[w].id) = NoSession
  /\ LookupMiss(w)
  /\ UNCHANGED <<redisUp, instances, at, record>>

\* Faulty variant of Put for mutation: sessions are kept on the instance.
Put_Local(i, id, s) ==
  /\ memory' = [memory EXCEPT ![i][id] = s]
  /\ UNCHANGED store

\* Faulty variant of Put for mutation: the mask is kept as the original.
Put_OfMask(i, id, s) ==
  LET t == [s EXCEPT !.original = s.masked]
  IN IF backend[i] = "memory"
     THEN memory' = [memory EXCEPT ![i][id] = t] /\ UNCHANGED store
     ELSE /\ store' = IF redisUp THEN [store EXCEPT ![id] = t] ELSE store
          /\ UNCHANGED memory

\* The store's Set: what a Redis that does not answer is sent is lost.
Put(i, id, s) ==
  IF backend[i] = "memory"
  THEN memory' = [memory EXCEPT ![i][id] = s] /\ UNCHANGED store
  ELSE /\ store' = IF redisUp THEN [store EXCEPT ![id] = s] ELSE store
       /\ UNCHANGED memory

Mask(w) ==
  LET r == req[w]
  IN /\ r.pc = "mask"
     /\ ~Hangs(r.payload, r.opts)
     /\ Put(at[w], r.id, SessionOf(r.payload, r.opts))
     /\ req' = [req EXCEPT ![w] = Reply(r, MaskText(r.payload, r.opts))]
     /\ UNCHANGED <<issued, history, redisUp, phase, backend, rules, at, record>>

----------------------------------------------------------------------------
(* Instances.                                                              *)

Event == events < MaxEvents /\ events' = events + 1

Start(i) ==
  /\ phase[i] = "down"
  /\ phase' = [phase EXCEPT ![i] = "up"]
  /\ backend' = [backend EXCEPT ![i] = IF redisUp THEN "redis" ELSE "memory"]
  /\ fellBack' = (fellBack \/ ~redisUp)
  /\ UNCHANGED <<vars, redisUp, memory, rules, at, trouble, events>>

\* A reply that has been written is the client's.
Serving(i) == {w \in Workers : at[w] = i /\ req[w].pc \in {"lookup", "mask"}}

Dies(i) ==
  /\ phase' = [phase EXCEPT ![i] = "down"]
  /\ backend' = [backend EXCEPT ![i] = "memory"]
  /\ memory' = [memory EXCEPT ![i] = Empty]
  /\ rules' = [rules EXCEPT ![i] = FileRule]
  /\ req' = [w \in Workers |-> IF w \in Serving(i) THEN Idle ELSE req[w]]
  /\ at' = [w \in Workers |-> IF w \in Serving(i) THEN None ELSE at[w]]
  /\ UNCHANGED <<store, issued, history, redisUp, trouble, fellBack>>

Crash(i) == phase[i] # "down" /\ Event /\ Dies(i)

\* SIGTERM: no connection is accepted any more.
Terminate(i) ==
  /\ phase[i] = "up"
  /\ Event
  /\ phase' = [phase EXCEPT ![i] = "draining"]
  /\ UNCHANGED <<vars, redisUp, backend, memory, rules, at, trouble, fellBack>>

Exit(i) ==
  /\ phase[i] = "draining"
  /\ Serving(i) = {}
  /\ Dies(i)
  /\ UNCHANGED events

\* Faulty variant of Overdue for mutation: shutting down has no deadline.
Overdue_Never(i) == FALSE /\ Dies(i) /\ UNCHANGED events

\* Five seconds have passed: log.Fatalf.
Overdue(i) ==
  /\ phase[i] = "draining"
  /\ Serving(i) # {}
  /\ Dies(i)
  /\ UNCHANGED events

\* nginx passes PUT /config to one instance.
Configure(i, o) ==
  /\ phase[i] = "up"
  /\ rules[i] # o
  /\ Event
  /\ rules' = [rules EXCEPT ![i] = o]
  /\ UNCHANGED <<vars, redisUp, phase, backend, memory, at, trouble, fellBack>>

----------------------------------------------------------------------------
(* Redis.  Nothing is written to disk (docker-compose.yml:8).  The expiry  *)
(* of sessions is left to Session and the cache's modules.                 *)

RedisFails ==
  /\ redisUp
  /\ Event
  /\ redisUp' = FALSE
  /\ store' \in {store, Empty}
  /\ trouble' = TRUE
  /\ UNCHANGED <<req, issued, history, instances, at, fellBack>>

RedisReturns ==
  /\ ~redisUp
  /\ redisUp' = TRUE
  /\ UNCHANGED <<vars, instances, at, record>>

ServeAt(w) == Hit(w) \/ Miss(w) \/ Mask(w) \/ Return(w)

Shutdown(i) == Exit(i) \/ Overdue(i)

ClusterNext ==
  \/ \E w \in Workers :
       \/ \E id \in Ids, i \in Instances :
            \/ RouteForward(w, id, i)
            \/ \E mask \in issued[id], p \in Picks :
                 RouteReverse(w, id, i, mask, p)
       \/ ServeAt(w)
  \/ \E i \in Instances :
       \/ Start(i) \/ Crash(i) \/ Terminate(i) \/ Shutdown(i)
       \/ \E o \in Rules : Configure(i, o)
  \/ RedisFails \/ RedisReturns

ClusterSpec == ClusterInit /\ [][ClusterNext]_clusterVars

\* A handler that can run is run (its steps all change req); srv.Shutdown
\* returns, at its deadline at the latest.
ClusterFairSpec ==
  /\ ClusterSpec
  /\ \A w \in Workers : WF_req(ServeAt(w))
  /\ \A i \in Instances : WF_phase(Shutdown(i))

----------------------------------------------------------------------------
(* Properties.                                                             *)

\* As long as no instance has fallen back to its own memory the cluster is
\* one service over one store: every step, the death of an instance and the
\* failure of Redis included, is a step of Session or none.
ImplementsSession == Init /\ [][fellBack' \/ Next]_vars

\* SCALING.md:28-29: a mask made on one instance is restored on any other,
\* and the death or the stop of an instance at any moment costs no session:
\* reverse requests find theirs unless Redis has failed.
RestartsLoseNothing == ~trouble => missed = {}

\* A request is answered or dies with its instance, with Redis out of reach
\* or not; one that makes synthValue spin has no other end than that.
RequestsAnswered ==
  \A w \in Workers :
    req[w].pc = "lookup" /\ ~Hangs(req[w].payload, req[w].opts)
      ~> req[w].pc = "idle"

\* An instance that is told to stop stops, also if a handler never returns.
ShutdownEnds ==
  \A i \in Instances : phase[i] = "draining" ~> phase[i] = "down"
=============================================================================
