------------------------------- MODULE TTLMap ------------------------------
(***************************************************************************)
(* What the service relies on when it keeps sessions in a Store: a map     *)
(* whose entries live until the clock passes their time and vanish at that *)
(* very moment.  There are no shards, no locks and no collector here.      *)
(***************************************************************************)
EXTENDS Naturals

CONSTANTS
  Keys,     \* payload_id
  Values,   \* SessionState
  Callers,  \* the goroutines that use the store
  TTL,      \* entryTTL, in clock steps
  MaxTime,  \* bound: the clock stops here
  Absent

VARIABLES
  now,   \* the clock
  live,  \* live[k]: the entry of k that has not expired
  call   \* what each caller is doing

vars == <<now, live, call>>

Entry == [val : Values, exp : Nat]

\* Set stamps an entry when it is called.
Stamped(v, t) == [val |-> v, exp |-> t + TTL]

\* now.After(ExpiresAt)
Expired(e, t) == e # Absent /\ t > e.exp

\* What is left of the entry e at time t.
Left(e, t) == IF Expired(e, t) THEN Absent ELSE e

Ready == [pc |-> "ready"]
Reading(k, e) == [pc |-> "reading", key |-> k, entry |-> e]
Returned(k, e) == [pc |-> "returned", key |-> k, entry |-> e]
Putting(k, e) == [pc |-> "putting", key |-> k, entry |-> e]

CanCall(c) == call[c].pc \in {"ready", "returned"}

Init ==
  /\ now = 0
  /\ live = [k \in Keys |-> Absent]
  /\ call = [c \in Callers |-> Ready]

\* A caller that has read an entry but not yet returned sees it expire too.
Tick ==
  /\ now < MaxTime
  /\ now' = now + 1
  /\ live' = [k \in Keys |-> Left(live[k], now + 1)]
  /\ call' = [c \in Callers |->
                IF call[c].pc = "reading"
                THEN Reading(call[c].key, Left(call[c].entry, now + 1))
                ELSE call[c]]

GetRead(c, k) ==
  /\ CanCall(c)
  /\ call' = [call EXCEPT ![c] = Reading(k, live[k])]
  /\ UNCHANGED <<now, live>>

GetReturn(c) ==
  /\ call[c].pc = "reading"
  /\ call' = [call EXCEPT ![c] = Returned(call[c].key, call[c].entry)]
  /\ UNCHANGED <<now, live>>

SetStamp(c, k, v) ==
  /\ CanCall(c)
  /\ call' = [call EXCEPT ![c] = Putting(k, Stamped(v, now))]
  /\ UNCHANGED <<now, live>>

SetWrite(c) ==
  /\ call[c].pc = "putting"
  /\ live' = [live EXCEPT ![call[c].key] = Left(call[c].entry, now)]
  /\ call' = [call EXCEPT ![c] = Ready]
  /\ UNCHANGED now

Next ==
  \/ Tick
  \/ \E c \in Callers :
       \/ \E k \in Keys : GetRead(c, k) \/ \E v \in Values : SetStamp(c, k, v)
       \/ GetReturn(c)
       \/ SetWrite(c)

Spec == Init /\ [][Next]_vars
=============================================================================
