------------------------- MODULE ShardedCacheProofs ------------------------
(***************************************************************************)
(* For any keys, shards, callers, times and order of steps: the cache's    *)
(* types, that cleanup never removes a live entry, and that the cache      *)
(* implements a map whose entries vanish when they expire.                 *)
(***************************************************************************)
EXTENDS ShardedCache, TLAPS

USE CacheAssumption

----------------------------------------------------------------------------
\* Set stamps a well-typed entry.
LEMMA StampedType ==
  ASSUME NEW v \in Values, NEW t \in Nat
  PROVE  Stamped(v, t) \in Entry
BY DEF Stamped, Entry

\* What is left of an entry is an entry or nothing.
LEMMA LeftType ==
  ASSUME NEW e \in Entry \cup {Absent}, NEW t
  PROVE  Left(e, t) \in Entry \cup {Absent}
BY DEF Left

\* A call that steps leaves the other calls as they are.
LEMMA CallStep ==
  ASSUME TypeOK, NEW c \in Callers, NEW r, CallOK(r),
         call' = [call EXCEPT ![c] = r]
  PROVE  DOMAIN call' = Callers /\ \A d \in Callers : CallOK(call'[d])
BY DEF TypeOK

\* The collector goes on to an existing shard or back to select (cleanup's range).
LEMMA NextShardOK ==
  ASSUME NEW s \in 1..NumShards, NEW at \in Nat, at <= now,
         gc' = NextShard(s, at), now' = now
  PROVE  GCOK' /\ (gc'.pc \in {"scan", "delete"} => gc'.at <= now')
BY DEF NextShard, GCOK

\* The empty cache is well typed.
LEMMA TypeInit == Init => TypeOK
<1> SUFFICES ASSUME Init PROVE TypeOK
  OBVIOUS
<1>1. DOMAIN call = Callers /\ \A c \in Callers : CallOK(call[c])
  BY DEF Init, CallOK
<1>2. GCOK /\ gc.pc = "select"
  BY DEF Init, GCOK
<1>3. /\ now \in Nat
      /\ items \in [Keys -> Entry \cup {Absent}]
      /\ tick = NoTick
      /\ cancelled \in BOOLEAN
  BY DEF Init
<1> QED  BY <1>1, <1>2, <1>3 DEF TypeOK

\* Every step keeps the types and the collector behind the clock.
LEMMA TypeNext == TypeOK /\ [Next]_vars => TypeOK'
<1> SUFFICES ASSUME TypeOK, [Next]_vars PROVE TypeOK'
  OBVIOUS
<1>1. ASSUME NEW c \in Callers, NEW k \in Keys, GetRead(c, k)
      PROVE  TypeOK'
  <2>1. CallOK(Reading(k, items[k]))
    BY DEF TypeOK, CallOK, Reading
  <2> QED  BY <1>1, <2>1, CallStep DEF GetRead, TypeOK, GCOK
<1>2. ASSUME NEW c \in Callers, GetReturn(c)
      PROVE  TypeOK'
  <2>1. call[c].key \in Keys /\ call[c].entry \in Entry \cup {Absent}
    BY <1>2 DEF GetReturn, TypeOK, CallOK, Ready
  <2>2. CallOK(Returned(call[c].key, Left(call[c].entry, now)))
    BY <2>1, LeftType DEF CallOK, Returned
  <2> QED  BY <1>2, <2>2, CallStep DEF GetReturn, TypeOK, GCOK
<1>3. ASSUME NEW c \in Callers, NEW k \in Keys, NEW v \in Values,
             SetStamp(c, k, v)
      PROVE  TypeOK'
  <2>1. CallOK(Putting(k, Stamped(v, now)))
    BY StampedType DEF TypeOK, CallOK, Putting
  <2> QED  BY <1>3, <2>1, CallStep DEF SetStamp, TypeOK, GCOK
<1>4. ASSUME NEW c \in Callers, SetWrite(c)
      PROVE  TypeOK'
  <2>1. call[c].key \in Keys /\ call[c].entry \in Entry
    BY <1>4 DEF SetWrite, TypeOK, CallOK, Ready
  <2>2. CallOK(Ready)
    BY DEF CallOK
  <2> QED  BY <1>4, <2>1, <2>2, CallStep DEF SetWrite, TypeOK, GCOK
<1>5. CASE Tick
  <2>1. now \in Nat /\ now' = now + 1 /\ UNCHANGED <<items, call, gc, cancelled>>
    BY <1>5 DEF Tick, TypeOK
  <2>2. tick' # NoTick => tick' \in Nat /\ tick' <= now'
    <3>1. tick' = now + 1 \/ tick' = tick
      BY <1>5, Zenon DEF Tick
    <3> QED  BY <2>1, <3>1 DEF TypeOK
  <2>3. gc.pc \in {"scan", "delete"} => gc.at \in Nat /\ gc.at <= now + 1
    BY <2>1 DEF TypeOK, GCOK
  <2>4. GCOK'
    BY <2>1 DEF TypeOK, GCOK
  <2> QED  BY <2>1, <2>2, <2>3, <2>4 DEF TypeOK
<1>6. CASE GCReceive
  BY <1>6 DEF GCReceive, TypeOK, GCOK
<1>7. CASE GCStop
  BY <1>7 DEF GCStop, TypeOK, GCOK
<1>8. CASE GCScan
  <2>1. gc.shard \in 1..NumShards /\ gc.at \in Nat /\ gc.at <= now
    BY <1>8 DEF GCScan, TypeOK, GCOK
  <2>2. GCOK' /\ (gc'.pc \in {"scan", "delete"} => gc'.at <= now')
    BY <1>8, <2>1, NextShardOK DEF GCScan, GCOK, ExpiredIn
  <2> QED  BY <1>8, <2>2 DEF GCScan, TypeOK
<1>9. CASE GCDelete
  <2>1. gc.shard \in 1..NumShards /\ gc.at \in Nat /\ gc.at <= now
    BY <1>9 DEF GCDelete, TypeOK, GCOK
  <2>2. GCOK' /\ (gc'.pc \in {"scan", "delete"} => gc'.at <= now')
    BY <1>9, <2>1, NextShardOK DEF GCDelete
  <2> QED  BY <1>9, <2>2 DEF GCDelete, TypeOK
<1>10. CASE Stop
  BY <1>10 DEF Stop, TypeOK, GCOK
<1>11. CASE UNCHANGED vars
  BY <1>11 DEF vars, TypeOK, GCOK
<1> QED
  BY <1>1, <1>2, <1>3, <1>4, <1>5, <1>6, <1>7, <1>8, <1>9, <1>10, <1>11
     DEF Next, GC

\* Every variable keeps its type, and the collector works with a time that
\* has been.
THEOREM TypeCorrect == Spec => []TypeOK
BY TypeInit, TypeNext, PTL DEF Spec

----------------------------------------------------------------------------
(* No step but the clock's makes an entry vanish for its readers.          *)

\* An entry that had expired at an earlier time has expired now.
LEMMA ExpiredStays ==
  ASSUME NEW e \in Entry \cup {Absent}, NEW t \in Nat, NEW u \in Nat, t <= u,
         Expired(e, t)
  PROVE  Expired(e, u)
BY DEF Expired, Entry

\* cleanup's deletions take expired entries only.
LEMMA DeleteExpired ==
  ASSUME TypeOK, GCDelete, NEW k \in Keys, items'[k] # items[k]
  PROVE  Expired(items[k], now) /\ items'[k] = Absent
<1>1. gc.at \in Nat /\ gc.at <= now /\ now \in Nat
  BY DEF GCDelete, TypeOK, GCOK
<1>2. Expired(items[k], gc.at) /\ items'[k] = Absent
  BY DEF GCDelete
<1>3. items[k] \in Entry \cup {Absent}
  BY DEF TypeOK
<1> QED  BY <1>1, <1>2, <1>3, ExpiredStays

\* No step removes an entry that has not expired; in particular not cleanup,
\* whatever was written since it chose what to delete (cleanup, Set).
THEOREM LiveEntriesStay == Spec => NoLiveEviction
<1> DEFINE Stay == \A k \in Keys : items[k] # Absent /\ ~Expired(items[k], now)
                     => items'[k] # Absent
<1>1. ASSUME TypeOK, [Next]_vars
      PROVE  Stay
  <2>1. CASE GCDelete
    BY <1>1, <2>1, DeleteExpired
  <2>2. ASSUME NEW c \in Callers, SetWrite(c)
        PROVE  Stay
    <3>1. call[c].entry \in Entry
      BY <1>1, <2>2 DEF SetWrite, TypeOK, CallOK, Ready
    <3> QED  BY <1>1, <2>2, <3>1 DEF SetWrite, TypeOK, Entry
  <2>3. CASE items' = items
    BY <2>3
  <2>4. \/ GCDelete \/ items' = items
        \/ \E c \in Callers : SetWrite(c)
    BY <1>1 DEF Next, GC, GetRead, GetReturn, SetStamp, Tick, GCReceive,
                GCStop, GCScan, Stop, vars
  <2> QED  BY <2>1, <2>2, <2>3, <2>4
<1>2. TypeOK /\ [Next]_vars => [Stay]_vars
  BY <1>1
<1>3. Spec => [][Stay]_vars
  BY <1>2, TypeCorrect, PTL DEF Spec
<1> QED  BY <1>3 DEF NoLiveEviction

----------------------------------------------------------------------------
(* The cache implements the map.                                           *)

\* Looking at an entry twice is looking at it at the later time.
LEMMA LeftLater ==
  ASSUME NEW e \in Entry \cup {Absent}, NEW t \in Nat, NEW u \in Nat, t <= u
  PROVE  Left(Left(e, t), u) = Left(e, u)
BY DEF Left, Expired, Entry

\* The map's operators are the cache's.
LEMMA SameWords ==
  /\ \A e, t : Map!Left(e, t) = Left(e, t)
  /\ \A v, t : Map!Stamped(v, t) = Stamped(v, t)
  /\ \A k, e : /\ Map!Reading(k, e) = Reading(k, e)
             /\ Map!Returned(k, e) = Returned(k, e)
             /\ Map!Putting(k, e) = Putting(k, e)
  /\ Map!Ready = Ready
BY DEF Map!Left, Map!Expired, Left, Expired, Map!Stamped, Stamped,
       Map!Reading, Reading, Map!Returned, Returned, Map!Putting, Putting,
       Map!Ready, Ready

\* What a caller is doing looks the same from outside.
LEMMA ShownCall ==
  ASSUME NEW c \in Callers
  PROVE  /\ LiveCalls[c] = Shown(call[c], now)
         /\ LiveCalls[c].pc = call[c].pc
         /\ call[c].pc = "reading" =>
              LiveCalls[c] = Reading(call[c].key, Left(call[c].entry, now))
         /\ call[c].pc # "reading" => LiveCalls[c] = call[c]
BY DEF LiveCalls, Shown, Reading

\* One caller's step, seen through the refinement.
LEMMA ShownStep ==
  ASSUME TypeOK, NEW c \in Callers, NEW r,
         call' = [call EXCEPT ![c] = r], now' = now
  PROVE  LiveCalls' = [LiveCalls EXCEPT ![c] = Shown(r, now)]
BY DEF TypeOK, LiveCalls

\* A write to one key, seen through the refinement.
LEMMA ItemsStep ==
  ASSUME TypeOK, NEW k \in Keys, NEW e,
         items' = [items EXCEPT ![k] = e], now' = now
  PROVE  LiveItems' = [LiveItems EXCEPT ![k] = Left(e, now)]
BY DEF TypeOK, LiveItems

\* An empty cache is an empty map.
LEMMA RefineInit == Init => Map!Init
<1> SUFFICES ASSUME Init PROVE Map!Init
  OBVIOUS
<1>1. LiveItems = [k \in Keys |-> Absent]
  BY DEF Init, LiveItems, Left, Expired
<1>2. LiveCalls = [c \in Callers |-> Ready]
  BY DEF Init, LiveCalls, Shown, Ready
<1> QED  BY <1>1, <1>2, SameWords DEF Init, Map!Init

\* Every step of the cache is a step of the map or none.
LEMMA RefineNext == TypeOK /\ [Next]_vars => [Map!Next]_(Map!vars)
<1> SUFFICES ASSUME TypeOK, [Next]_vars PROVE [Map!Next]_(Map!vars)
  OBVIOUS
<1>0. now \in Nat
  BY DEF TypeOK
<1>1. ASSUME NEW c \in Callers, NEW k \in Keys, GetRead(c, k)
      PROVE  Map!GetRead(c, k)
  <2>1. call' = [call EXCEPT ![c] = Reading(k, items[k])]
        /\ UNCHANGED <<now, items>>
    BY <1>1 DEF GetRead
  <2>2. Shown(Reading(k, items[k]), now) = Reading(k, LiveItems[k])
    BY DEF Shown, Reading, LiveItems
  <2>3. LiveItems' = LiveItems
    BY <2>1 DEF LiveItems
  <2>4. Map!CanCall(c)
    BY <1>1, ShownCall DEF GetRead, CanCall, Map!CanCall
  <2>5. LiveCalls' = [LiveCalls EXCEPT ![c] = Reading(k, LiveItems[k])]
    BY <2>1, <2>2, ShownStep
  <2> QED  BY <2>1, <2>3, <2>4, <2>5, SameWords DEF Map!GetRead
<1>2. ASSUME NEW c \in Callers, GetReturn(c)
      PROVE  Map!GetReturn(c)
  <2> DEFINE r == Returned(call[c].key, Left(call[c].entry, now))
  <2>1. /\ call[c].pc = "reading" /\ call' = [call EXCEPT ![c] = r]
        /\ UNCHANGED <<now, items>>
    BY <1>2 DEF GetReturn
  <2>2. Shown(r, now) = r
    BY DEF Shown, Returned
  <2>3. r = Returned(LiveCalls[c].key, LiveCalls[c].entry)
    <3>1. LiveCalls[c] = Reading(call[c].key, Left(call[c].entry, now))
      BY <2>1, ShownCall
    <3> QED  BY <3>1 DEF Reading
  <2>4. LiveItems' = LiveItems
    BY <2>1 DEF LiveItems
  <2>5. LiveCalls' = [LiveCalls EXCEPT ![c] = r]
    BY <2>1, <2>2, ShownStep
  <2> HIDE DEF r
  <2> QED  BY <2>1, <2>3, <2>4, <2>5, ShownCall, SameWords DEF Map!GetReturn
<1>3. ASSUME NEW c \in Callers, NEW k \in Keys, NEW v \in Values,
             SetStamp(c, k, v)
      PROVE  Map!SetStamp(c, k, v)
  <2> DEFINE r == Putting(k, Stamped(v, now))
  <2>1. call' = [call EXCEPT ![c] = r] /\ UNCHANGED <<now, items>>
    BY <1>3 DEF SetStamp
  <2>2. Shown(r, now) = r
    BY DEF Shown, Putting
  <2>3. LiveItems' = LiveItems
    BY <2>1 DEF LiveItems
  <2>4. Map!CanCall(c)
    BY <1>3, ShownCall DEF SetStamp, CanCall, Map!CanCall
  <2>5. LiveCalls' = [LiveCalls EXCEPT ![c] = r]
    BY <2>1, <2>2, ShownStep
  <2> QED  BY <2>1, <2>3, <2>4, <2>5, SameWords DEF Map!SetStamp
<1>4. ASSUME NEW c \in Callers, SetWrite(c)
      PROVE  Map!SetWrite(c)
  <2>1. /\ call[c].pc = "putting"
        /\ items' = [items EXCEPT ![call[c].key] = call[c].entry]
        /\ call' = [call EXCEPT ![c] = Ready] /\ UNCHANGED now
    BY <1>4 DEF SetWrite
  <2>2. call[c].key \in Keys
    BY <2>1 DEF TypeOK, CallOK, Ready
  <2>3. LiveItems' =
          [LiveItems EXCEPT ![call[c].key] = Left(call[c].entry, now)]
    BY <2>1, <2>2, ItemsStep
  <2>4. Shown(Ready, now) = Ready
    BY DEF Shown, Ready
  <2>5. LiveCalls' = [LiveCalls EXCEPT ![c] = Ready]
    BY <2>1, <2>4, ShownStep
  <2>6. LiveCalls[c] = call[c]
    BY <2>1, ShownCall
  <2> QED  BY <2>1, <2>3, <2>5, <2>6, SameWords DEF Map!SetWrite
<1>5. CASE Tick
  <2>1. now < MaxTime /\ now' = now + 1 /\ UNCHANGED <<items, call>>
    BY <1>5 DEF Tick
  <2>2. LiveItems' = [k \in Keys |-> Left(LiveItems[k], now + 1)]
    BY <1>0, <2>1, LeftLater DEF LiveItems, TypeOK
  <2>3. ASSUME NEW c \in Callers
        PROVE  LiveCalls'[c] =
                 IF LiveCalls[c].pc = "reading"
                 THEN Reading(LiveCalls[c].key,
                              Left(LiveCalls[c].entry, now + 1))
                 ELSE LiveCalls[c]
    <3>1. LiveCalls'[c] = Shown(call[c], now + 1)
      BY <2>1 DEF LiveCalls
    <3>2. CASE call[c].pc = "reading"
      <4>1. call[c].entry \in Entry \cup {Absent}
        BY <3>2 DEF TypeOK, CallOK, Ready
      <4>2. LiveCalls[c].key = call[c].key
            /\ LiveCalls[c].entry = Left(call[c].entry, now)
        <5>1. LiveCalls[c] = Reading(call[c].key, Left(call[c].entry, now))
          BY <3>2, ShownCall
        <5> QED  BY <5>1 DEF Reading
      <4>3. Left(LiveCalls[c].entry, now + 1) = Left(call[c].entry, now + 1)
        BY <1>0, <4>1, <4>2, LeftLater
      <4> QED  BY <3>1, <3>2, <4>2, <4>3, ShownCall DEF Shown
    <3>3. CASE call[c].pc # "reading"
      BY <3>1, <3>3, ShownCall DEF Shown
    <3> QED  BY <3>2, <3>3
  <2>4. LiveCalls' =
          [c \in Callers |->
             IF LiveCalls[c].pc = "reading"
             THEN Reading(LiveCalls[c].key,
                          Left(LiveCalls[c].entry, now + 1))
             ELSE LiveCalls[c]]
    BY <2>3 DEF LiveCalls
  <2> QED  BY <2>1, <2>2, <2>4, SameWords DEF Map!Tick, Map!Next
<1>6. CASE GCDelete
  <2>1. UNCHANGED <<now, call>>
    BY <1>6 DEF GCDelete
  <2>2. ASSUME NEW k \in Keys
        PROVE  Left(items'[k], now) = Left(items[k], now)
    BY <1>6, DeleteExpired DEF Left, Expired
  <2> QED  BY <2>1, <2>2 DEF Map!vars, LiveItems, LiveCalls
<1>7. CASE UNCHANGED <<now, items, call>>
  BY <1>7 DEF Map!vars, LiveItems, LiveCalls
<1>8. ASSUME GCReceive \/ GCStop \/ GCScan \/ Stop \/ UNCHANGED vars
      PROVE  UNCHANGED <<now, items, call>>
  BY <1>8 DEF GCReceive, GCStop, GCScan, Stop, vars
<1> QED
  BY <1>1, <1>2, <1>3, <1>4, <1>5, <1>6, <1>7, <1>8 DEF Next, GC, Map!Next

\* The cache behaves as a map whose entries vanish the moment they expire:
\* neither the shards nor the steps of cleanup can be told from outside
\* (Get, Set, cleanup).
THEOREM Refinement == Spec => ImplementsTTLMap
<1>1. Spec => Map!Spec
  BY RefineInit, RefineNext, TypeCorrect, PTL DEF Spec, Map!Spec
<1> QED  BY <1>1 DEF ImplementsTTLMap
=============================================================================
