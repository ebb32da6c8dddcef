---------------------------- MODULE ShardedCache ---------------------------
(***************************************************************************)
(* The in-memory Store of internal/repository/cache/cache.go: shards under *)
(* read-write locks, an expiry time stamped on each entry, and a goroutine *)
(* that sweeps the expired entries out.                                    *)
(*                                                                         *)
(* Everything done under one hold of a shard's lock is one step.  What is  *)
(* done outside the locks is a step of its own: the expiry test of Get,    *)
(* the stamp of Set, the choice of what to delete in cleanup.              *)
(***************************************************************************)
EXTENDS Naturals

CONSTANTS
  Keys, Values, Callers,
  TTL,        \* entryTTL
  Period,     \* the ticker's, 2 minutes
  NumShards,  \* numShards
  ShardOf,    \* getShard: the FNV hash of the key, masked
  MaxTime,    \* bound: the clock stops here
  Absent,     \* no entry
  NoTick      \* nothing in the ticker's channel

ASSUME CacheAssumption ==
  /\ TTL \in Nat
  /\ Period \in Nat \ {0}
  /\ NumShards \in Nat \ {0}
  /\ ShardOf \in [Keys -> 1..NumShards]
  /\ MaxTime \in Nat
  /\ NoTick \notin Nat
  /\ Absent \notin [val : Values, exp : Nat]

VARIABLES
  now,        \* time.Now()
  items,      \* the shards' maps, together
  call,       \* what each caller of Get or Set is doing
  tick,       \* the ticker's channel: the time of a tick not yet received
  gc,         \* the collector
  cancelled   \* Stop has been called

vars == <<now, items, call, tick, gc, cancelled>>

Entry == [val : Values, exp : Nat]

\* An expiry time is fixed before the lock is taken.
Stamped(v, t) == [val |-> v, exp |-> t + TTL]

\* now.After(ExpiresAt)
Expired(e, t) == e # Absent /\ t > e.exp

Left(e, t) == IF Expired(e, t) THEN Absent ELSE e

Ready == [pc |-> "ready"]
Reading(k, e) == [pc |-> "reading", key |-> k, entry |-> e]
Returned(k, e) == [pc |-> "returned", key |-> k, entry |-> e]
Putting(k, e) == [pc |-> "putting", key |-> k, entry |-> e]

CanCall(c) == call[c].pc \in {"ready", "returned"}

Init ==
  /\ now = 0
  /\ items = [k \in Keys |-> Absent]
  /\ call = [c \in Callers |-> Ready]
  /\ tick = NoTick
  /\ gc = [pc |-> "select"]
  /\ cancelled = FALSE

----------------------------------------------------------------------------
(* Get and Set.                                                            *)

\* The map access of Get, under RLock.
GetRead(c, k) ==
  /\ CanCall(c)
  /\ call' = [call EXCEPT ![c] = Reading(k, items[k])]
  /\ UNCHANGED <<now, items, tick, gc, cancelled>>

\* Faulty variant of GetReturn for mutation: the expiry test is left to the
\* collector.
GetReturn_Unchecked(c) ==
  /\ call[c].pc = "reading"
  /\ call' = [call EXCEPT ![c] = Returned(call[c].key, call[c].entry)]
  /\ UNCHANGED <<now, items, tick, gc, cancelled>>

\* The expiry test, after RUnlock.
GetReturn(c) ==
  /\ call[c].pc = "reading"
  /\ call' = [call EXCEPT
                ![c] = Returned(call[c].key, Left(call[c].entry, now))]
  /\ UNCHANGED <<now, items, tick, gc, cancelled>>

\* state.ExpiresAt = now + entryTTL, before Lock.
SetStamp(c, k, v) ==
  /\ CanCall(c)
  /\ call' = [call EXCEPT ![c] = Putting(k, Stamped(v, now))]
  /\ UNCHANGED <<now, items, tick, gc, cancelled>>

\* The map write of Set, under Lock.
SetWrite(c) ==
  /\ call[c].pc = "putting"
  /\ items' = [items EXCEPT ![call[c].key] = call[c].entry]
  /\ call' = [call EXCEPT ![c] = Ready]
  /\ UNCHANGED <<now, tick, gc, cancelled>>

----------------------------------------------------------------------------
(* The clock and the ticker: a tick nobody has received yet makes the next *)
(* ones be dropped.                                                        *)

Tick ==
  /\ now < MaxTime
  /\ now' = now + 1
  /\ tick' = IF (now + 1) % Period = 0 /\ tick = NoTick THEN now + 1 ELSE tick
  /\ UNCHANGED <<items, call, gc, cancelled>>

----------------------------------------------------------------------------
(* startGC and cleanup.                                                    *)

\* Faulty variant of GCReceive for mutation: the sweep looks ahead of its tick.
GCReceive_Ahead ==
  /\ gc.pc = "select"
  /\ tick # NoTick
  /\ gc' = [pc |-> "scan", at |-> tick + 1, shard |-> 1]
  /\ tick' = NoTick
  /\ UNCHANGED <<now, items, call, cancelled>>

GCReceive ==
  /\ gc.pc = "select"
  /\ tick # NoTick
  /\ gc' = [pc |-> "scan", at |-> tick, shard |-> 1]
  /\ tick' = NoTick
  /\ UNCHANGED <<now, items, call, cancelled>>

\* select picks either case when both are ready.
GCStop ==
  /\ gc.pc = "select"
  /\ cancelled
  /\ gc' = [pc |-> "stopped"]
  /\ UNCHANGED <<now, items, call, tick, cancelled>>

\* Faulty variant of NextShard for mutation: the last shard is never swept.
NextShard_OffByOne(s, at) ==
  IF s + 1 >= NumShards THEN [pc |-> "select"]
  ELSE [pc |-> "scan", at |-> at, shard |-> s + 1]

NextShard(s, at) ==
  IF s = NumShards THEN [pc |-> "select"]
  ELSE [pc |-> "scan", at |-> at, shard |-> s + 1]

ExpiredIn(s, at) == {k \in Keys : ShardOf[k] = s /\ Expired(items[k], at)}

\* One shard's range loop, under RLock.
GCScan ==
  /\ gc.pc = "scan"
  /\ LET expired == ExpiredIn(gc.shard, gc.at)
     IN gc' = IF expired = {} THEN NextShard(gc.shard, gc.at)
              ELSE [pc |-> "delete", at |-> gc.at, shard |-> gc.shard,
                    expired |-> expired]
  /\ UNCHANGED <<now, items, call, tick, cancelled>>

\* Faulty variant of GCDelete for mutation: what the scan found is deleted
\* without another look.
GCDelete_Blind ==
  /\ gc.pc = "delete"
  /\ items' = [k \in Keys |-> IF k \in gc.expired THEN Absent ELSE items[k]]
  /\ gc' = NextShard(gc.shard, gc.at)
  /\ UNCHANGED <<now, call, tick, cancelled>>

\* The deletions from that shard, under Lock; each entry is looked at again.
GCDelete ==
  /\ gc.pc = "delete"
  /\ items' = [k \in Keys |->
                 IF k \in gc.expired /\ Expired(items[k], gc.at)
                 THEN Absent ELSE items[k]]
  /\ gc' = NextShard(gc.shard, gc.at)
  /\ UNCHANGED <<now, call, tick, cancelled>>

\* (*ShardedCache).Stop
Stop ==
  /\ ~cancelled
  /\ cancelled' = TRUE
  /\ UNCHANGED <<now, items, call, tick, gc>>

GC == GCReceive \/ GCStop \/ GCScan \/ GCDelete

Next ==
  \/ \E c \in Callers :
       \/ \E k \in Keys : GetRead(c, k) \/ \E v \in Values : SetStamp(c, k, v)
       \/ GetReturn(c)
       \/ SetWrite(c)
  \/ Tick
  \/ GC
  \/ Stop

Spec == Init /\ [][Next]_vars

\* The collector's goroutine is run whenever it can proceed.
FairSpec == Spec /\ WF_vars(GC)

----------------------------------------------------------------------------
(* Properties.                                                             *)

CallOK(r) ==
  \/ r = Ready
  \/ /\ r.pc \in {"reading", "returned"}
     /\ r \in [pc : {"reading", "returned"}, key : Keys,
               entry : Entry \cup {Absent}]
  \/ r \in [pc : {"putting"}, key : Keys, entry : Entry]

GCOK ==
  \/ gc \in [pc : {"select", "stopped"}]
  \/ gc \in [pc : {"scan"}, at : Nat, shard : 1..NumShards]
  \/ gc \in [pc : {"delete"}, at : Nat, shard : 1..NumShards,
             expired : SUBSET Keys]

\* Every variable has its type, and neither the ticker nor the collector is
\* ahead of the clock.
TypeOK ==
  /\ now \in Nat
  /\ items \in [Keys -> Entry \cup {Absent}]
  /\ DOMAIN call = Callers /\ \A c \in Callers : CallOK(call[c])
  /\ tick # NoTick => tick \in Nat /\ tick <= now
  /\ GCOK
  /\ gc.pc \in {"scan", "delete"} => gc.at <= now
  /\ cancelled \in BOOLEAN

\* An entry that has not expired is never removed, whatever Set does to it
\* between the collector's scan and its deletions (cleanup's second look).
NoLiveEviction ==
  [][\A k \in Keys : items[k] # Absent /\ ~Expired(items[k], now)
       => items'[k] # Absent]_vars

\* The cache is a map whose entries vanish when they expire; the shards, the
\* locks and the collector cannot be told from outside.
LiveItems == [k \in Keys |-> Left(items[k], now)]
Shown(r, t) ==
  IF r.pc = "reading" THEN Reading(r.key, Left(r.entry, t)) ELSE r
LiveCalls == [c \in Callers |-> Shown(call[c], now)]

Map == INSTANCE TTLMap WITH live <- LiveItems, call <- LiveCalls

ImplementsTTLMap == Map!Spec

\* Once the ticker has fired after an entry's time, the sweep it causes frees
\* the entry's memory, whatever is written meanwhile, unless it is stopped.
SweepCollects ==
  \A k \in Keys, t \in 0..MaxTime :
    tick = t /\ Expired(items[k], t) ~> ~Expired(items[k], t) \/ cancelled
=============================================================================
