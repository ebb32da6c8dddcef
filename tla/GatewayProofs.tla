---------------------------- MODULE GatewayProofs --------------------------
(***************************************************************************)
(* For any number of connections and any limits: the limiter's counter and *)
(* the gauge are exact, at most Max requests are let in, the guard         *)
(* overshoots by less than the number of requests let in, and a tester     *)
(* that sends one request at a time gets no streak above the threshold.    *)
(***************************************************************************)
EXTENDS Gateway, FiniteSetTheorems, TLAPS

USE GatewayAssumption

Request == [pc : Steps, route : Routes, status : Statuses]

Shape ==
  /\ req \in [Conns -> Request]
  /\ gauge \in Nat /\ inFlight \in Nat /\ invalid \in Nat
  /\ streak \in 0..StreakCap
  /\ alone \in BOOLEAN
  /\ \A c \in Conns : req[c].pc = "account" => req[c].route = "process"

IInv == Shape /\ CountersExact /\ AdmissionBound /\ OvershootBound

N(b) == IF b THEN 1 ELSE 0

IsPassed(r) == r.pc \in {"handler", "account"} /\ r.route = "process"

----------------------------------------------------------------------------
(* Counting the requests at some steps when one request moves.             *)

\* Adding or removing one element changes a finite set's size by one.
LEMMA CountOne ==
  ASSUME NEW A, NEW B, IsFiniteSet(A), NEW c,
         A \ {c} = B \ {c}
  PROVE  Cardinality(B) + N(c \in A) = Cardinality(A) + N(c \in B)
<1>1. Cardinality(A) \in Nat
  BY FS_CardinalityType
<1>2. CASE c \in A <=> c \in B
  <2>1. A = B
    BY <1>2
  <2> QED  BY <2>1
<1>3. CASE c \notin A /\ c \in B
  <2>1. B = A \cup {c}
    BY <1>3
  <2>2. Cardinality(B) = Cardinality(A) + 1
    BY <1>3, <2>1, FS_AddElement
  <2> QED  BY <1>1, <1>3, <2>2 DEF N
<1>4. CASE c \in A /\ c \notin B
  <2>1. B = A \ {c}
    BY <1>4
  <2>2. Cardinality(B) = Cardinality(A) - 1
    BY <1>4, <2>1, FS_RemoveElement
  <2> QED  BY <1>1, <1>4, <2>2 DEF N
<1> QED  BY <1>2, <1>3, <1>4

\* The requests at some steps are finitely many.
LEMMA AtFinite ==
  /\ \A S : IsFiniteSet(At(S)) /\ Cardinality(At(S)) \in Nat
  /\ IsFiniteSet(Passed) /\ Cardinality(Passed) \in Nat
<1>1. \A S : At(S) \subseteq Conns
  BY DEF At
<1>2. Passed \subseteq Conns
  BY DEF Passed, At
<1> QED  BY <1>1, <1>2, FS_Subset, FS_CardinalityType

\* One request's step changes how many are at the steps S by that request
\* alone (At).
LEMMA CountAt ==
  ASSUME Shape, NEW c \in Conns, NEW r \in Request,
         req' = [req EXCEPT ![c] = r], NEW S
  PROVE  Cardinality(At(S)') + N(req[c].pc \in S) =
           Cardinality(At(S)) + N(r.pc \in S)
<1>1. At(S) \ {c} = At(S)' \ {c}
  BY DEF At, Shape
<1>2. (c \in At(S) <=> req[c].pc \in S) /\ (c \in At(S)' <=> r.pc \in S)
  BY DEF At, Shape
<1>3. Cardinality(At(S)') + N(c \in At(S)) =
        Cardinality(At(S)) + N(c \in At(S)')
  BY <1>1, AtFinite, CountOne
<1> QED  BY <1>2, <1>3 DEF N

\* The same for the requests past the guard (Passed).
LEMMA CountPassed ==
  ASSUME Shape, NEW c \in Conns, NEW r \in Request,
         req' = [req EXCEPT ![c] = r]
  PROVE  Cardinality(Passed') + N(IsPassed(req[c])) =
           Cardinality(Passed) + N(IsPassed(r))
<1>1. Passed \ {c} = Passed' \ {c}
  BY DEF Passed, At, Shape
<1>2. (c \in Passed <=> IsPassed(req[c])) /\ (c \in Passed' <=> IsPassed(r))
  BY DEF Passed, At, Shape, IsPassed
<1>3. Cardinality(Passed') + N(c \in Passed) =
        Cardinality(Passed) + N(c \in Passed')
  BY <1>1, AtFinite, CountOne
<1> QED  BY <1>2, <1>3 DEF N

\* AtFinite, after a step.
LEMMA PrimedFinite ==
  /\ \A S : Cardinality(At(S)') \in Nat
  /\ Cardinality(Passed') \in Nat
<1>1. \A S : At(S)' \subseteq Conns
  BY DEF At
<1>2. Passed' \subseteq Conns
  BY DEF Passed, At
<1> QED  BY <1>1, <1>2, FS_Subset, FS_CardinalityType

----------------------------------------------------------------------------
(* The invariant.                                                          *)

\* What a step of one request must respect for the counters to stay right: it
\* changes each as it enters or leaves the counted stretch, it is let in only
\* while the counter is within the limit, and it passes the guard only while
\* the guard's counter is below the threshold.
Respects(c, r) ==
  /\ gauge' \in Int /\ inFlight' \in Int /\ invalid' \in Nat
  /\ streak' \in 0..StreakCap /\ alone' \in BOOLEAN
  /\ gauge' + N(req[c].pc \in Metered) = gauge + N(r.pc \in Metered)
  /\ inFlight' + N(req[c].pc \in Counted) = inFlight + N(r.pc \in Counted)
  /\ r.pc = "account" => r.route = "process"
  /\ r.pc \in Admitted => req[c].pc \in Admitted \/ inFlight' <= Max
  /\ Threshold > 0 =>
       \/ invalid' <= Threshold - 1
       \/ invalid' + N(IsPassed(r)) <= invalid + N(IsPassed(req[c]))

\* A step that respects this keeps the invariant.
LEMMA StepKeeps ==
  ASSUME IInv, NEW c \in Conns, NEW r \in Request,
         req' = [req EXCEPT ![c] = r], Respects(c, r)
  PROVE  IInv'
<1> USE DEF Respects
<1>0. Shape
  BY DEF IInv
<1>1. CountersExact'
  <2>1. inFlight' = Cardinality(At(Counted)')
    <3>1. Cardinality(At(Counted)') + N(req[c].pc \in Counted) =
            Cardinality(At(Counted)) + N(r.pc \in Counted)
      BY <1>0, CountAt
    <3> QED  BY <3>1, AtFinite, PrimedFinite DEF IInv, CountersExact, N
  <2>2. gauge' = Cardinality(At(Metered)')
    <3>1. Cardinality(At(Metered)') + N(req[c].pc \in Metered) =
            Cardinality(At(Metered)) + N(r.pc \in Metered)
      BY <1>0, CountAt
    <3> QED  BY <3>1, AtFinite, PrimedFinite DEF IInv, CountersExact, N
  <2> QED  BY <2>1, <2>2 DEF CountersExact
<1>2. Shape'
  <2>1. gauge' \in Nat /\ inFlight' \in Nat
    BY <1>1, PrimedFinite DEF CountersExact
  <2> QED  BY <1>0, <2>1 DEF Shape
<1>3. AdmissionBound'
  <2>1. Cardinality(At(Admitted)') + N(req[c].pc \in Admitted) =
          Cardinality(At(Admitted)) + N(r.pc \in Admitted)
    BY <1>0, CountAt
  <2>2. CASE r.pc \in Admitted => req[c].pc \in Admitted
    BY <2>1, <2>2, AtFinite, PrimedFinite DEF IInv, AdmissionBound, N
  <2>3. CASE inFlight' <= Max
    <3>1. Cardinality(At(Admitted)') <= Cardinality(At(Counted)')
      <4>1. At(Admitted)' \subseteq At(Counted)'
        BY DEF At, Counted
      <4>2. IsFiniteSet(At(Counted)')
        <5>1. At(Counted)' \subseteq Conns
          BY DEF At
        <5> QED  BY <5>1, FS_Subset
      <4> QED  BY <4>1, <4>2, FS_Subset
    <3>2. Cardinality(At(Admitted)') <= inFlight'
      BY <1>1, <3>1 DEF CountersExact
    <3> QED  BY <2>3, <3>2, PrimedFinite DEF AdmissionBound
  <2> QED  BY <2>2, <2>3
<1>4. OvershootBound'
  <2>1. SUFFICES ASSUME Threshold > 0
                 PROVE  invalid' + Cardinality(Passed') <= Threshold - 1 + Max
    BY DEF OvershootBound
  <2>2. CASE invalid' <= Threshold - 1
    <3>1. Cardinality(Passed') <= Cardinality(At(Admitted)')
      <4>1. Passed' \subseteq At(Admitted)'
        BY DEF Passed, At, Admitted
      <4>2. IsFiniteSet(At(Admitted)')
        <5>1. At(Admitted)' \subseteq Conns
          BY DEF At
        <5> QED  BY <5>1, FS_Subset
      <4> QED  BY <4>1, <4>2, FS_Subset
    <3>2. Cardinality(At(Admitted)') <= Max
      BY <1>3 DEF AdmissionBound
    <3>3. Cardinality(Passed') \in Nat /\ Cardinality(At(Admitted)') \in Nat
      BY PrimedFinite
    <3> QED  BY <2>1, <2>2, <3>1, <3>2, <3>3
  <2>3. CASE invalid' + N(IsPassed(r)) <= invalid + N(IsPassed(req[c]))
    <3>1. Cardinality(Passed') + N(IsPassed(req[c])) =
            Cardinality(Passed) + N(IsPassed(r))
      BY <1>0, CountPassed
    <3>2. invalid + Cardinality(Passed) <= Threshold - 1 + Max
      BY <2>1 DEF IInv, OvershootBound
    <3>3. Cardinality(Passed) \in Nat /\ Cardinality(Passed') \in Nat
      BY AtFinite, PrimedFinite
    <3>4. invalid \in Nat
      BY <1>0 DEF Shape
    <3>5. \A b : N(b) \in {0, 1}
      BY DEF N
    <3> QED  BY <2>3, <3>1, <3>2, <3>3, <3>4, <3>5
  <2> QED  BY <2>1, <2>2, <2>3
<1> QED  BY <1>1, <1>2, <1>3, <1>4 DEF IInv

\* The chain starts empty.
LEMMA InvInit == Init => IInv
<1> SUFFICES ASSUME Init PROVE IInv
  OBVIOUS
<1>1. Shape
  BY DEF Init, Shape, Request, Steps, Routes, Statuses, StreakCap
<1>2. At(Counted) = {} /\ At(Metered) = {} /\ At(Admitted) = {} /\ Passed = {}
  BY DEF Init, At, Counted, Metered, Admitted, Passed
<1> QED
  BY <1>1, <1>2, FS_EmptySet
     DEF Init, IInv, CountersExact, AdmissionBound, OvershootBound

At1(c, pc, status) == [pc |-> pc, route |-> req[c].route, status |-> status]

\* Move and Settle replace one request by another.
LEMMA MoveRequest ==
  ASSUME Shape, NEW c \in Conns, NEW pc \in Steps, NEW status \in Statuses
  PROVE  /\ At1(c, pc, status) \in Request
         /\ At1(c, pc, req[c].status) \in Request
         /\ Move(c, pc) =>
              req' = [req EXCEPT ![c] = At1(c, pc, req[c].status)]
         /\ Settle(c, pc, status) =>
              req' = [req EXCEPT ![c] = At1(c, pc, status)]
BY DEF Shape, Request, At1, Move, Settle

\* Every step of the chain keeps the invariant.
LEMMA InvNext == IInv /\ [Next]_vars => IInv'
<1> SUFFICES ASSUME IInv, [Next]_vars PROVE IInv'
  OBVIOUS
<1>0. /\ Shape
      /\ req \in [Conns -> Request]
      /\ gauge \in Nat /\ inFlight \in Nat /\ invalid \in Nat
      /\ streak \in 0..StreakCap /\ alone \in BOOLEAN
      /\ \A c \in Conns : req[c].pc = "account" => req[c].route = "process"
  BY DEF IInv, Shape
<1>1. ASSUME NEW c \in Conns, MeterIn(c)
      PROVE  IInv'
  <2> DEFINE r == At1(c, "metered", req[c].status)
  <2>1. /\ req[c].pc = "arrived" /\ r \in Request /\ req' = [req EXCEPT ![c] = r]
        /\ gauge' = gauge + 1 /\ UNCHANGED <<inFlight, invalid, streak, alone>>
    BY <1>0, <1>1, MoveRequest DEF MeterIn, Steps, Statuses
  <2>2. r.pc = "metered" /\ r.route = req[c].route
    BY DEF At1
  <2> HIDE DEF r
  <2>3. Respects(c, r)
    BY <1>0, <2>1, <2>2, GatewayAssumption
       DEF Respects, N, Admitted, Counted, Metered, IsPassed
  <2> QED  BY <2>3, <2>1, StepKeeps
<1>2. ASSUME NEW c \in Conns, RateUndo(c)
      PROVE  IInv'
  <2> DEFINE r == At1(c, "leaving", "throttled")
  <2>1. /\ req[c].pc = "over" /\ r \in Request /\ req' = [req EXCEPT ![c] = r]
        /\ inFlight' = inFlight - 1 /\ UNCHANGED <<gauge, invalid, streak, alone>>
    BY <1>0, <1>2, MoveRequest DEF RateUndo, Steps, Statuses
  <2>2. r.pc = "leaving" /\ r.route = req[c].route
    BY DEF At1
  <2> HIDE DEF r
  <2>3. Respects(c, r)
    BY <1>0, <2>1, <2>2, GatewayAssumption
       DEF Respects, N, Admitted, Counted, Metered, IsPassed
  <2> QED  BY <2>3, <2>1, StepKeeps
<1>3. ASSUME NEW c \in Conns, GuardReset(c)
      PROVE  IInv'
  <2> DEFINE r == At1(c, "release", "throttled")
  <2>1. /\ req[c].pc = "reset" /\ r \in Request /\ req' = [req EXCEPT ![c] = r]
        /\ invalid' = 0 /\ UNCHANGED <<gauge, inFlight, streak, alone>>
    BY <1>0, <1>3, MoveRequest DEF GuardReset, Steps, Statuses
  <2>2. r.pc = "release" /\ r.route = req[c].route
    BY DEF At1
  <2> HIDE DEF r
  <2>3. Respects(c, r)
    BY <1>0, <2>1, <2>2, GatewayAssumption
       DEF Respects, N, Admitted, Counted, Metered, IsPassed
  <2> QED  BY <2>3, <2>1, StepKeeps
<1>4. ASSUME NEW c \in Conns, Account(c)
      PROVE  IInv'
  <2> DEFINE r == At1(c, "release", req[c].status)
  <2>1. /\ req[c].pc = "account" /\ r \in Request /\ req' = [req EXCEPT ![c] = r]
        /\ invalid' = 0 \/ invalid' = invalid + 1
        /\ UNCHANGED <<gauge, inFlight, streak, alone>>
    <3>1. req[c].status \in Statuses
      BY <1>0 DEF Request
    <3> QED  BY <1>0, <1>4, <3>1, MoveRequest DEF Account, Steps
  <2>2. /\ r.pc = "release" /\ r.route = req[c].route
        /\ req[c].pc = "account" /\ req[c].route = "process"
    BY <1>0, <2>1 DEF At1
  <2> HIDE DEF r
  <2>3. Respects(c, r)
    BY <1>0, <2>1, <2>2, GatewayAssumption
       DEF Respects, N, Admitted, Counted, Metered, IsPassed
  <2> QED  BY <2>3, <2>1, StepKeeps
<1>5. ASSUME NEW c \in Conns, Release(c)
      PROVE  IInv'
  <2> DEFINE r == At1(c, "leaving", req[c].status)
  <2>1. /\ req[c].pc = "release" /\ r \in Request /\ req' = [req EXCEPT ![c] = r]
        /\ inFlight' = inFlight - 1 /\ UNCHANGED <<gauge, invalid, streak, alone>>
    BY <1>0, <1>5, MoveRequest DEF Release, Steps, Statuses
  <2>2. r.pc = "leaving" /\ r.route = req[c].route
    BY DEF At1
  <2> HIDE DEF r
  <2>3. Respects(c, r)
    BY <1>0, <2>1, <2>2, GatewayAssumption
       DEF Respects, N, Admitted, Counted, Metered, IsPassed
  <2> QED  BY <2>3, <2>1, StepKeeps
<1>6. ASSUME NEW c \in Conns, MeterOut(c)
      PROVE  IInv'
  <2> DEFINE r == At1(c, "answered", req[c].status)
  <2>1. /\ req[c].pc = "leaving" /\ r \in Request /\ req' = [req EXCEPT ![c] = r]
        /\ gauge' = gauge - 1 /\ UNCHANGED <<inFlight, invalid, streak, alone>>
    BY <1>0, <1>6, MoveRequest DEF MeterOut, Steps, Statuses
  <2>2. r.pc = "answered" /\ r.route = req[c].route
    BY DEF At1
  <2> HIDE DEF r
  <2>3. Respects(c, r)
    BY <1>0, <2>1, <2>2, GatewayAssumption
       DEF Respects, N, Admitted, Counted, Metered, IsPassed
  <2> QED  BY <2>3, <2>1, StepKeeps
<1>7. ASSUME NEW c \in Conns, NEW route \in Routes, Arrive(c, route)
      PROVE  IInv'
  <2> DEFINE r == [pc |-> "arrived", route |-> route, status |-> "none"]
  <2>1. /\ req[c].pc = "idle" /\ r \in Request /\ req' = [req EXCEPT ![c] = r]
        /\ alone' \in BOOLEAN /\ UNCHANGED <<gauge, inFlight, invalid, streak>>
    BY <1>0, <1>7 DEF Arrive, Request, Steps, Statuses
  <2>2. r.pc = "arrived"
    OBVIOUS
  <2> HIDE DEF r
  <2>3. Respects(c, r)
    BY <1>0, <2>1, <2>2, GatewayAssumption
       DEF Respects, N, Admitted, Counted, Metered, IsPassed
  <2> QED  BY <2>3, <2>1, StepKeeps
<1>8. ASSUME NEW c \in Conns, RateAdd(c)
      PROVE  IInv'
  <2> DEFINE to == IF inFlight + 1 > Max THEN "over"
                   ELSE IF req[c].route = "process" THEN "guard" ELSE "handler"
             r == At1(c, to, req[c].status)
  <2>1. to \in Steps /\ req[c].status \in Statuses
    BY <1>0 DEF Request, Steps
  <2>2. Move(c, to)
    BY <1>8 DEF RateAdd
  <2>3. /\ to \in {"over", "guard", "handler"}
        /\ to # "over" => inFlight + 1 <= Max
        /\ to = "handler" => req[c].route # "process"
    BY <1>0, GatewayAssumption
  <2> HIDE DEF to
  <2>4. /\ req[c].pc = "metered" /\ r \in Request /\ req' = [req EXCEPT ![c] = r]
        /\ inFlight' = inFlight + 1 /\ UNCHANGED <<gauge, invalid, streak, alone>>
    BY <1>0, <1>8, <2>1, <2>2, MoveRequest DEF RateAdd
  <2>5. r.pc = to /\ r.route = req[c].route
    BY DEF At1
  <2> HIDE DEF r
  <2>6. Respects(c, r)
    BY <1>0, <2>3, <2>4, <2>5, GatewayAssumption
       DEF Respects, N, Admitted, Counted, Metered, IsPassed
  <2> QED  BY <2>6, <2>4, StepKeeps
<1>9. ASSUME NEW c \in Conns, GuardLoad(c)
      PROVE  IInv'
  <2> DEFINE to == IF Threshold > 0 /\ invalid >= Threshold THEN "reset"
                   ELSE "handler"
             r == At1(c, to, req[c].status)
  <2>1. to \in Steps /\ req[c].status \in Statuses
    BY <1>0 DEF Request, Steps
  <2>2. Move(c, to)
    BY <1>9 DEF GuardLoad
  <2>3. /\ to \in {"reset", "handler"}
        /\ to = "handler" /\ Threshold > 0 => invalid <= Threshold - 1
    BY <1>0, GatewayAssumption
  <2> HIDE DEF to
  <2>4. /\ req[c].pc = "guard" /\ r \in Request /\ req' = [req EXCEPT ![c] = r]
        /\ UNCHANGED <<gauge, inFlight, invalid, streak, alone>>
    BY <1>0, <1>9, <2>1, <2>2, MoveRequest DEF GuardLoad
  <2>5. r.pc = to /\ r.route = req[c].route
    BY DEF At1
  <2> HIDE DEF r
  <2>6. Respects(c, r)
    BY <1>0, <2>3, <2>4, <2>5, GatewayAssumption
       DEF Respects, N, Admitted, Counted, Metered, IsPassed
  <2> QED  BY <2>6, <2>4, StepKeeps
<1>10. ASSUME NEW c \in Conns, NEW status \in {"ok", "bad"}, Handle(c, status)
       PROVE  IInv'
  <2> DEFINE to == IF req[c].route = "process" THEN "account" ELSE "release"
             r == At1(c, to, status)
  <2>1. to \in Steps /\ status \in Statuses
    BY <1>0 DEF Steps, Statuses
  <2>2. Settle(c, to, status)
    BY <1>10 DEF Handle
  <2>3. /\ to \in {"account", "release"}
        /\ to = "account" => req[c].route = "process"
    OBVIOUS
  <2> HIDE DEF to
  <2>4. /\ req[c].pc = "handler" /\ r \in Request /\ req' = [req EXCEPT ![c] = r]
        /\ UNCHANGED <<gauge, inFlight, invalid, streak, alone>>
    BY <1>0, <1>10, <2>1, <2>2, MoveRequest DEF Handle
  <2>5. r.pc = to /\ r.route = req[c].route
    BY DEF At1
  <2> HIDE DEF r
  <2>6. Respects(c, r)
    BY <1>0, <2>3, <2>4, <2>5, GatewayAssumption
       DEF Respects, N, Admitted, Counted, Metered, IsPassed
  <2> QED  BY <2>6, <2>4, StepKeeps
<1>11. ASSUME NEW c \in Conns, Receive(c)
       PROVE  IInv'
  <2> DEFINE r == At1(c, "idle", req[c].status)
  <2>1. req[c].pc = "answered" /\ Move(c, "idle")
        /\ UNCHANGED <<gauge, inFlight, invalid>>
    BY <1>11 DEF Receive
  <2>2. r \in Request /\ req' = [req EXCEPT ![c] = r]
    <3>1. req[c].status \in Statuses /\ "idle" \in Steps
      BY <1>0 DEF Request, Steps
    <3> QED  BY <1>0, <2>1, <3>1, MoveRequest
  <2>3. streak' \in 0..StreakCap
    BY <1>0, <1>11, GatewayAssumption DEF Receive, StreakCap
  <2>4. alone' \in BOOLEAN
    BY <1>0, <1>11 DEF Receive
  <2>5. r.pc = "idle"
    BY DEF At1
  <2> HIDE DEF r
  <2>6. Respects(c, r)
    BY <1>0, <2>1, <2>2, <2>3, <2>4, <2>5, GatewayAssumption
       DEF Respects, N, Admitted, Counted, Metered, IsPassed
  <2> QED  BY <2>6, <2>2, StepKeeps
<1>12. CASE UNCHANGED vars
  BY <1>12 DEF vars, IInv, Shape, CountersExact, AdmissionBound,
     OvershootBound, At, Passed
<1> QED
  BY <1>1, <1>2, <1>3, <1>4, <1>5, <1>6, <1>7, <1>8, <1>9, <1>10, <1>11,
     <1>12 DEF Next

\* In every reachable state the counters are exact, the limit is kept and the
\* guard's overshoot is bounded.
THEOREM Invariance == Spec => []IInv
BY InvInit, InvNext, PTL DEF Spec

----------------------------------------------------------------------------
(* A tester that sends one request at a time.                              *)

\* What the one request r in the chain says of the tester's streak s and the
\* guard's counter i: the counter is not behind, and is ahead by one when an
\* invalid answer is on its way back.
Fits(r, s, i) ==
  /\ IsPassed(r) => s + 1 <= Threshold
  /\ r.pc \in {"guard", "reset"} => r.route = "process"
  /\ IF r.route = "process" /\ r.pc \in {"release", "leaving", "answered"}
     THEN r.status = "bad" => s + 1 <= i /\ s + 1 <= Threshold
     ELSE s <= i

Others(c) == \A d \in Conns : d # c => req[d].pc = "idle"

Solo ==
  alone /\ Threshold > 0 =>
    /\ streak <= Threshold
    /\ \A c, d \in Conns : req[c].pc # "idle" /\ req[d].pc # "idle" => c = d
    /\ \A c \in Conns : Others(c) => Fits(req[c], streak, invalid)

\* A request that moves alone keeps it if it fits afterwards.
LEMMA SoloMove ==
  ASSUME Shape, Shape', NEW c \in Conns, NEW r \in Request,
         req' = [req EXCEPT ![c] = r],
         alone' /\ Threshold > 0 =>
           /\ Others(c) /\ streak' <= Threshold
           /\ Fits(r, streak', invalid')
           /\ r.pc = "idle" => streak' <= invalid'
  PROVE  Solo'
<1> SUFFICES ASSUME alone', Threshold > 0
             PROVE  /\ streak' <= Threshold
                    /\ \A d, e \in Conns :
                         req'[d].pc # "idle" /\ req'[e].pc # "idle" => d = e
                    /\ \A d \in Conns :
                         Others(d)' => Fits(req'[d], streak', invalid')
  BY DEF Solo
<1>1. req'[c] = r /\ \A d \in Conns : d # c => req'[d] = req[d]
  BY DEF Shape
<1>2. \A d \in Conns : d # c => req'[d].pc = "idle"
  BY <1>1 DEF Others
<1>3. ASSUME NEW d \in Conns, Others(d)'
      PROVE  Fits(req'[d], streak', invalid')
  <2>1. CASE d = c
    BY <2>1, <1>1
  <2>2. CASE d # c
    <3>1. req'[d].pc = "idle" /\ r.pc = "idle"
      BY <1>1, <1>2, <1>3, <2>2 DEF Others
    <3> QED  BY <3>1 DEF Fits, IsPassed
  <2> QED  BY <2>1, <2>2
<1> QED  BY <1>2, <1>3

\* Every step of the chain keeps it.
LEMMA SoloNext == IInv /\ IInv' /\ Solo /\ [Next]_vars => Solo'
<1> SUFFICES ASSUME IInv, IInv', Solo, [Next]_vars PROVE Solo'
  OBVIOUS
<1>0. /\ Shape /\ Shape'
      /\ req \in [Conns -> Request] /\ req' \in [Conns -> Request]
      /\ invalid \in Nat /\ invalid' \in Nat /\ streak \in Nat /\ streak' \in Nat
      /\ \A c \in Conns : req[c].pc = "account" => req[c].route = "process"
  BY GatewayAssumption DEF IInv, Shape, StreakCap
<1>1. ASSUME NEW c \in Conns, alone, Threshold > 0, req[c].pc # "idle"
      PROVE  Others(c) /\ Fits(req[c], streak, invalid) /\ streak <= Threshold
  BY <1>1 DEF Solo, Others
<1>2. ASSUME NEW c \in Conns, NEW pc \in Steps \ {"idle"}, NEW status \in Statuses,
             req[c].pc # "idle", req' = [req EXCEPT ![c] = At1(c, pc, status)],
             UNCHANGED <<streak, alone>>,
             Threshold > 0 /\ Fits(req[c], streak, invalid) =>
               Fits(At1(c, pc, status), streak, invalid')
      PROVE  Solo'
  <2>1. At1(c, pc, status) \in Request /\ At1(c, pc, status).pc # "idle"
    BY <1>0, <1>2, MoveRequest DEF At1
  <2> QED  BY <2>1, <1>0, <1>1, <1>2, SoloMove
<1>3. ASSUME NEW c \in Conns,
             MeterIn(c) \/ RateUndo(c) \/ GuardReset(c) \/ Release(c) \/ MeterOut(c)
      PROVE  Solo'
  <2>1. PICK pc \in {"metered", "leaving", "release", "answered"},
             status \in Statuses :
          /\ req' = [req EXCEPT ![c] = At1(c, pc, status)]
          /\ req[c].pc # "idle"
          /\ UNCHANGED <<streak, alone>>
          /\ Threshold > 0 /\ Fits(req[c], streak, invalid) =>
               Fits(At1(c, pc, status), streak, invalid')
    <3>1. req[c] \in Request /\ req[c].status \in Statuses
      BY <1>0 DEF Request
    <3>2. CASE MeterIn(c)
      <4>1. req' = [req EXCEPT ![c] = At1(c, "metered", req[c].status)]
        BY <1>0, <3>1, <3>2, MoveRequest DEF MeterIn, Steps
      <4> QED  BY <3>1, <3>2, <4>1 DEF MeterIn, Fits, IsPassed, At1
    <3>3. CASE RateUndo(c)
      <4>1. req' = [req EXCEPT ![c] = At1(c, "leaving", "throttled")]
        BY <1>0, <3>3, MoveRequest DEF RateUndo, Steps, Statuses
      <4> QED  BY <3>1, <3>3, <4>1 DEF RateUndo, Fits, IsPassed, At1, Statuses
    <3>4. CASE GuardReset(c)
      <4>1. req' = [req EXCEPT ![c] = At1(c, "release", "throttled")]
        BY <1>0, <3>4, MoveRequest DEF GuardReset, Steps, Statuses
      <4> QED  BY <3>1, <3>4, <4>1 DEF GuardReset, Fits, IsPassed, At1, Statuses
    <3>5. CASE Release(c)
      <4>1. req' = [req EXCEPT ![c] = At1(c, "leaving", req[c].status)]
        BY <1>0, <3>1, <3>5, MoveRequest DEF Release, Steps
      <4>2. req[c].pc = "release" /\ UNCHANGED <<invalid, streak, alone>>
        BY <3>5 DEF Release
      <4>3. Fits(req[c], streak, invalid) =>
              Fits(At1(c, "leaving", req[c].status), streak, invalid)
        BY <4>2 DEF Fits, IsPassed, At1
      <4> QED  BY <3>1, <4>1, <4>2, <4>3
    <3>6. CASE MeterOut(c)
      <4>1. req' = [req EXCEPT ![c] = At1(c, "answered", req[c].status)]
        BY <1>0, <3>1, <3>6, MoveRequest DEF MeterOut, Steps
      <4> QED  BY <3>1, <3>6, <4>1 DEF MeterOut, Fits, IsPassed, At1
    <3> QED  BY <1>3, <3>2, <3>3, <3>4, <3>5, <3>6
  <2>2. pc \in Steps \ {"idle"}
    BY DEF Steps
  <2> QED  BY <2>1, <2>2, <1>2
<1>4. ASSUME NEW c \in Conns, Account(c)
      PROVE  Solo'
  <2>1. req[c].pc = "account" /\ req[c].route = "process" /\ req[c].status \in Statuses
    BY <1>0, <1>4 DEF Account, Request
  <2>2. req' = [req EXCEPT ![c] = At1(c, "release", req[c].status)]
    BY <1>0, <1>4, <2>1, MoveRequest DEF Account, Steps
  <2>3. Threshold > 0 /\ Fits(req[c], streak, invalid) =>
          Fits(At1(c, "release", req[c].status), streak, invalid')
    BY <1>0, <1>4, <2>1 DEF Account, Fits, IsPassed, At1
  <2> QED  BY <1>2, <1>4, <2>1, <2>2, <2>3 DEF Account, Steps
<1>5. ASSUME NEW c \in Conns, RateAdd(c)
      PROVE  Solo'
  <2> DEFINE to == IF inFlight + 1 > Max THEN "over"
                   ELSE IF req[c].route = "process" THEN "guard" ELSE "handler"
  <2>1. /\ req[c].pc = "metered" /\ req[c].status \in Statuses
        /\ to \in Steps \ {"idle"}
        /\ to = "over" \/ (to = "guard" <=> req[c].route = "process")
    BY <1>0, <1>5 DEF RateAdd, Request, Steps
  <2>2. req' = [req EXCEPT ![c] = At1(c, to, req[c].status)]
    BY <1>0, <1>5, <2>1, MoveRequest DEF RateAdd
  <2>3. Fits(req[c], streak, invalid) =>
          Fits(At1(c, to, req[c].status), streak, invalid')
    BY <1>0, <1>5, <2>1 DEF RateAdd, Fits, IsPassed, At1
  <2> QED  BY <1>2, <1>5, <2>1, <2>2, <2>3 DEF RateAdd
<1>6. ASSUME NEW c \in Conns, GuardLoad(c)
      PROVE  Solo'
  <2> DEFINE to == IF Threshold > 0 /\ invalid >= Threshold THEN "reset"
                   ELSE "handler"
  <2>1. /\ req[c].pc = "guard" /\ req[c].status \in Statuses
        /\ to \in Steps \ {"idle"}
    BY <1>0, <1>6 DEF GuardLoad, Request, Steps
  <2>2. req' = [req EXCEPT ![c] = At1(c, to, req[c].status)]
    BY <1>0, <1>6, <2>1, MoveRequest DEF GuardLoad
  <2>3. Threshold > 0 /\ Fits(req[c], streak, invalid) =>
          Fits(At1(c, to, req[c].status), streak, invalid')
    BY <1>0, <1>6, <2>1, GatewayAssumption DEF GuardLoad, Fits, IsPassed, At1
  <2> QED  BY <1>2, <1>6, <2>1, <2>2, <2>3 DEF GuardLoad
<1>7. ASSUME NEW c \in Conns, NEW status \in {"ok", "bad"}, Handle(c, status)
      PROVE  Solo'
  <2> DEFINE to == IF req[c].route = "process" THEN "account" ELSE "release"
  <2>1. /\ req[c].pc = "handler" /\ status \in Statuses
        /\ to \in Steps \ {"idle"}
    BY <1>0, <1>7 DEF Handle, Statuses, Steps
  <2>2. req' = [req EXCEPT ![c] = At1(c, to, status)]
    BY <1>0, <1>7, <2>1, MoveRequest DEF Handle
  <2>3. Fits(req[c], streak, invalid) => Fits(At1(c, to, status), streak, invalid')
    BY <1>0, <1>7, <2>1 DEF Handle, Fits, IsPassed, At1
  <2> QED  BY <1>2, <1>7, <2>1, <2>2, <2>3 DEF Handle
<1>8. ASSUME NEW c \in Conns, NEW route \in Routes, Arrive(c, route)
      PROVE  Solo'
  <2> DEFINE r == [pc |-> "arrived", route |-> route, status |-> "none"]
  <2>1. req[c].pc = "idle" /\ r \in Request /\ req' = [req EXCEPT ![c] = r]
        /\ UNCHANGED <<invalid, streak>>
    BY <1>8 DEF Arrive, Request, Steps, Statuses
  <2>2. ASSUME alone', Threshold > 0
        PROVE  Others(c) /\ streak <= Threshold /\ Fits(r, streak, invalid)
    <3>1. alone /\ At(Steps \ {"idle"}) = {}
      BY <1>8, <2>2 DEF Arrive
    <3>2. Others(c)
      BY <1>0, <3>1 DEF Others, At, Request
    <3>3. streak <= Threshold /\ Fits(req[c], streak, invalid)
      BY <2>2, <3>1, <3>2 DEF Solo
    <3> QED  BY <2>1, <3>2, <3>3 DEF Fits, IsPassed
  <2>3. r.pc # "idle"
    OBVIOUS
  <2> HIDE DEF r
  <2> QED  BY <1>0, <2>1, <2>2, <2>3, SoloMove
<1>9. ASSUME NEW c \in Conns, Receive(c)
      PROVE  Solo'
  <2> DEFINE r == At1(c, "idle", req[c].status)
  <2>1. /\ req[c].pc = "answered" /\ invalid' = invalid
        /\ Move(c, "idle")
    BY <1>9 DEF Receive
  <2>2. /\ r \in Request /\ req' = [req EXCEPT ![c] = r]
        /\ r.pc = "idle"
    BY <1>0, <2>1, MoveRequest DEF Steps, Statuses, Request, At1
  <2>3. ASSUME alone', Threshold > 0
        PROVE  Others(c) /\ streak' <= Threshold /\ streak' <= invalid
    <3>1. CASE alone
      <4>1. Others(c) /\ Fits(req[c], streak, invalid) /\ streak <= Threshold
        BY <1>1, <2>1, <2>3, <3>1
      <4>2. \/ req[c].route = "file" /\ streak' = streak
            \/ streak' = 0
            \/ req[c].route # "file" /\ req[c].status = "bad" /\ streak' <= streak + 1
        BY <1>0, <1>9 DEF Receive
      <4>3. req[c].route \in {"process", "file"}
        BY <1>0 DEF Request, Routes
      <4> QED  BY <1>0, <2>1, <2>3, <4>1, <4>2, <4>3, GatewayAssumption DEF Fits
    <3>2. CASE ~alone
      <4>1. streak' = 0 /\ At(Steps \ {"idle"}) \ {c} = {}
        BY <1>9, <2>3, <3>2 DEF Receive
      <4>2. Others(c)
        BY <1>0, <4>1 DEF Others, At, Request
      <4> QED  BY <1>0, <4>1, <4>2, GatewayAssumption
    <3> QED  BY <3>1, <3>2
  <2>4. ASSUME streak' <= invalid
        PROVE  Fits(r, streak', invalid)
    BY <2>2, <2>4 DEF Fits, IsPassed
  <2> HIDE DEF r
  <2> QED  BY <1>0, <2>1, <2>2, <2>3, <2>4, SoloMove
<1>10. CASE UNCHANGED vars
  BY <1>10 DEF vars, Solo, Others
<1> QED
  BY <1>3, <1>4, <1>5, <1>6, <1>7, <1>8, <1>9, <1>10 DEF Next

----------------------------------------------------------------------------
(* The theorems.                                                           *)

\* Every variable keeps its type: no counter becomes negative.
THEOREM TypeCorrect == Spec => []TypeOK
<1>1. IInv => TypeOK
  BY DEF IInv, Shape, TypeOK, Request
<1> QED  BY <1>1, Invariance, PTL

\* inFlightRequests and the gauge count exactly the requests between their
\* increment and their decrement, on every path out of the chain.
THEOREM Counters == Spec => []CountersExact
<1>1. IInv => CountersExact
  BY DEF IInv
<1> QED  BY <1>1, Invariance, PTL

\* Never more than maxConcurrentRequests requests are let in.
THEOREM Admission == Spec => []AdmissionBound
<1>1. IInv => AdmissionBound
  BY DEF IInv
<1> QED  BY <1>1, Invariance, PTL

\* consecutiveInvalid and the requests that may still add to it never exceed
\* the threshold by more than the requests let in.
THEOREM Overshoot == Spec => []OvershootBound
<1>1. IInv => OvershootBound
  BY DEF IInv
<1> QED  BY <1>1, Invariance, PTL

\* A tester that waits for each answer before it sends the next request gets
\* at most threshold invalid answers in a row (CircuitGuardMiddleware): one more
\* than its comment says, and never the one that the 429 is to prevent.
THEOREM Sequential == Spec => []SequentialStreak
<1>1. Init => Solo
  BY GatewayAssumption DEF Init, Solo, Others, Fits, IsPassed
<1>2. Solo => SequentialStreak
  BY DEF Solo, SequentialStreak
<1> QED  BY <1>1, <1>2, SoloNext, Invariance, PTL DEF Spec
=============================================================================
