------------------------------- MODULE Gateway -----------------------------
(***************************************************************************)
(* The middleware chain of SetupRouter as concurrent requests go through   *)
(* it: MetricsMiddleware, RateLimitMiddleware, CircuitGuardMiddleware and  *)
(* the handler, with its deferred steps on the way out.  The counters are  *)
(* atomic, so each access to one is a step of its own.                     *)
(***************************************************************************)
EXTENDS Naturals, FiniteSets

CONSTANTS
  Conns,      \* the connections' goroutines
  Max,        \* maxConcurrentRequests
  Threshold   \* MaxConsecutiveErrors; 0 switches the guard off

ASSUME GatewayAssumption ==
  /\ IsFiniteSet(Conns)
  /\ Max \in Nat \ {0}
  /\ Threshold \in Nat

VARIABLES
  gauge,     \* pd_inflight_requests
  inFlight,  \* inFlightRequests
  invalid,   \* consecutiveInvalid
  req,       \* where each connection's request is
  streak,    \* history: invalid answers in a row, as the tester receives them
  alone      \* history: no two requests have overlapped during the streak

vars == <<gauge, inFlight, invalid, req, streak, alone>>

\* Requests for /process and for the frontend's files, which CircuitGuard does
\* not see.
Routes == {"process", "file"}

\* "ok" is a status below 400, "bad" one from 400 on, "throttled" is 429.
Statuses == {"none", "ok", "bad", "throttled"}

\* The steps of a request, in order; "over" and "reset" lead to a 429.
Steps == {"idle", "arrived", "metered", "over", "guard", "reset", "handler",
          "account", "release", "leaving", "answered"}

\* Where a request is counted by inFlightRequests, and where it was let in.
Admitted == {"guard", "reset", "handler", "account", "release"}
Counted == Admitted \cup {"over"}
Metered == Counted \cup {"metered", "leaving"}

At(S) == {c \in Conns : req[c].pc \in S}

\* Past the guard's test, and not yet accounted for.
Passed == {c \in At({"handler", "account"}) : req[c].route = "process"}

Move(c, pc) == req' = [req EXCEPT ![c].pc = pc]
Settle(c, pc, status) ==
  req' = [req EXCEPT ![c].pc = pc, ![c].status = status]

Init ==
  /\ gauge = 0 /\ inFlight = 0 /\ invalid = 0
  /\ req = [c \in Conns |-> [pc |-> "idle", route |-> "process",
                             status |-> "none"]]
  /\ streak = 0
  /\ alone = TRUE

----------------------------------------------------------------------------
Arrive(c, route) ==
  /\ req[c].pc = "idle"
  /\ req' = [req EXCEPT ![c] = [pc |-> "arrived", route |-> route,
                                status |-> "none"]]
  /\ alone' = (alone /\ At(Steps \ {"idle"}) = {})
  /\ UNCHANGED <<gauge, inFlight, invalid, streak>>

\* m.IncInFlight()
MeterIn(c) ==
  /\ req[c].pc = "arrived"
  /\ gauge' = gauge + 1
  /\ Move(c, "metered")
  /\ UNCHANGED <<inFlight, invalid, streak, alone>>

\* Faulty variant of RateAdd for mutation: one request too many is let in.
RateAdd_OffByOne(c) ==
  /\ req[c].pc = "metered"
  /\ inFlight' = inFlight + 1
  /\ Move(c, IF inFlight + 1 > Max + 1 THEN "over"
             ELSE IF req[c].route = "process" THEN "guard" ELSE "handler")
  /\ UNCHANGED <<gauge, invalid, streak, alone>>

\* atomic.AddInt64(&inFlightRequests, 1) > maxConcurrentRequests
RateAdd(c) ==
  /\ req[c].pc = "metered"
  /\ inFlight' = inFlight + 1
  /\ Move(c, IF inFlight + 1 > Max THEN "over"
             ELSE IF req[c].route = "process" THEN "guard" ELSE "handler")
  /\ UNCHANGED <<gauge, invalid, streak, alone>>

\* Faulty variant of RateUndo for mutation: the refused request stays counted.
RateUndo_Forgotten(c) ==
  /\ req[c].pc = "over"
  /\ Settle(c, "leaving", "throttled")
  /\ UNCHANGED <<gauge, inFlight, invalid, streak, alone>>

\* Faulty variant of RateUndo for mutation: the deferred decrement runs as well.
RateUndo_Twice(c) ==
  /\ req[c].pc = "over"
  /\ inFlight' = inFlight - 1
  /\ Settle(c, "release", "throttled")
  /\ UNCHANGED <<gauge, invalid, streak, alone>>

\* Too many: the addition is taken back and the request refused.
RateUndo(c) ==
  /\ req[c].pc = "over"
  /\ inFlight' = inFlight - 1
  /\ Settle(c, "leaving", "throttled")
  /\ UNCHANGED <<gauge, invalid, streak, alone>>

\* Faulty variant of GuardLoad for mutation: > instead of >=.
GuardLoad_OffByOne(c) ==
  /\ req[c].pc = "guard"
  /\ Move(c, IF Threshold > 0 /\ invalid > Threshold THEN "reset"
             ELSE "handler")
  /\ UNCHANGED <<gauge, inFlight, invalid, streak, alone>>

\* threshold > 0 && atomic.LoadInt64(&consecutiveInvalid) >= threshold
GuardLoad(c) ==
  /\ req[c].pc = "guard"
  /\ Move(c, IF Threshold > 0 /\ invalid >= Threshold THEN "reset"
             ELSE "handler")
  /\ UNCHANGED <<gauge, inFlight, invalid, streak, alone>>

\* The counter is cleared, whoever else may have loaded it meanwhile.
GuardReset(c) ==
  /\ req[c].pc = "reset"
  /\ invalid' = 0
  /\ Settle(c, "release", "throttled")
  /\ UNCHANGED <<gauge, inFlight, streak, alone>>

\* The handler answers, well or with an error, or panics: behind the guard its
\* recover answers 500, elsewhere RecoveryMiddleware does.
Handle(c, status) ==
  /\ req[c].pc = "handler"
  /\ Settle(c, IF req[c].route = "process" THEN "account" ELSE "release", status)
  /\ UNCHANGED <<gauge, inFlight, invalid, streak, alone>>

\* The guard's deferred function.
Account(c) ==
  /\ req[c].pc = "account"
  /\ invalid' = IF req[c].status = "bad" THEN invalid + 1 ELSE 0
  /\ Move(c, "release")
  /\ UNCHANGED <<gauge, inFlight, streak, alone>>

\* The limiter's deferred decrement, run on a panic as well.
Release(c) ==
  /\ req[c].pc = "release"
  /\ inFlight' = inFlight - 1
  /\ Move(c, "leaving")
  /\ UNCHANGED <<gauge, invalid, streak, alone>>

\* defer m.DecInFlight()
MeterOut(c) ==
  /\ req[c].pc = "leaving"
  /\ gauge' = gauge - 1
  /\ Move(c, "answered")
  /\ UNCHANGED <<inFlight, invalid, streak, alone>>

\* Bound: a streak is counted up to this length.
StreakCap == Threshold + 1

\* The tester receives the answer: 429 and valid answers end its streak of
\* invalid ones.
Receive(c) ==
  LET r == req[c]
      left == At(Steps \ {"idle"}) \ {c}
  IN /\ r.pc = "answered"
     /\ streak' = CASE r.route = "file" -> streak
                    [] r.status # "bad" -> 0
                    [] OTHER -> IF streak < StreakCap THEN streak + 1 ELSE streak
     /\ alone' = (alone \/ (streak' = 0 /\ left = {}))
     /\ Move(c, "idle")
     /\ UNCHANGED <<gauge, inFlight, invalid>>

Next ==
  \E c \in Conns :
    \/ \E route \in Routes : Arrive(c, route)
    \/ MeterIn(c)
    \/ RateAdd(c)
    \/ RateUndo(c)
    \/ GuardLoad(c)
    \/ GuardReset(c)
    \/ \E status \in {"ok", "bad"} : Handle(c, status)
    \/ Account(c)
    \/ Release(c)
    \/ MeterOut(c)
    \/ Receive(c)

Spec == Init /\ [][Next]_vars

----------------------------------------------------------------------------
(* Properties.                                                             *)

TypeOK ==
  /\ gauge \in Nat /\ inFlight \in Nat /\ invalid \in Nat
  /\ req \in [Conns -> [pc : Steps, route : Routes, status : Statuses]]
  /\ streak \in 0..StreakCap
  /\ alone \in BOOLEAN

\* The limiter's counter and the gauge count exactly the requests that are
\* between their increment and their decrement: no path out of the chain, not
\* a refusal and not a panic, loses or leaks one.
CountersExact ==
  /\ inFlight = Cardinality(At(Counted))
  /\ gauge = Cardinality(At(Metered))

\* However the increments interleave, at most Max requests are let in.
AdmissionBound == Cardinality(At(Admitted)) <= Max

\* The guard tests the counter and acts later, so that every request already
\* past the test can still add to it: it overshoots, by at most the number of
\* requests let in.
OvershootBound ==
  Threshold > 0 =>
    invalid + Cardinality(Passed) <= Threshold - 1 + Max

\* A tester that waits for each answer before it sends the next request gets at
\* most Threshold invalid answers in a row, as middleware_test.go:12-37 has it.
\* The bound is reached: it is one more than the comments of the code promise
\* (EarlyEnough) and, with the default of four, one less than the tester's
\* breaker needs.
SequentialStreak == alone /\ Threshold > 0 => streak <= Threshold

\* middleware.go:18-19 and config.go:32-33: a 429 is given before the
\* Threshold-th invalid answer in a row, even to such a tester.
EarlyEnough == alone /\ Threshold > 0 => streak < Threshold

\* middleware.go:18-22: five invalid answers in a row, with Threshold = 4,
\* never reach the tester.
BreakerNeverTrips == Threshold > 0 => streak <= Threshold
=============================================================================
