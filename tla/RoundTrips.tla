----------------------------- MODULE RoundTrips ----------------------------
(***************************************************************************)
(* One document there and back: Process masks a text under a rule and      *)
(* keeps the session; part of the mask comes back and is answered from it  *)
(* (service.go:241-283).  Nothing else happens in between: concurrent      *)
(* requests and lost sessions are Session's subject.                       *)
(***************************************************************************)
EXTENDS Masking

CONSTANTS
  Texts,      \* the documents clients send
  TripRules,  \* the ProcessOptions they are masked under
  MaxPick     \* bound: words of a partial answer (whole masks come back too)

ASSUME RoundTripsAssumption ==
  /\ Texts \subseteq Text
  /\ TripRules \subseteq Options
  /\ MaxPick \in Nat

VARIABLES
  input,    \* the document
  opts,     \* its rule
  stage,    \* "new", "masked" or "answered"
  session,  \* the SessionState Process keeps
  sent,     \* which words of the mask come back
  reply     \* what Process answers

tripVars == <<input, opts, stage, session, sent, reply>>

\* Selections of up to MaxPick of n words, and all of them in order.
Selections(n) ==
  (UNION {[1..k -> 1..n] : k \in 0..MaxPick}) \cup {[i \in 1..n |-> i]}

TripInit ==
  /\ input \in Texts
  /\ opts \in TripRules
  /\ stage = "new"
  /\ session = << >> /\ sent = << >> /\ reply = << >>

Forward ==
  /\ stage = "new"
  /\ ~Hangs(input, opts)
  /\ session' = SessionOf(input, opts)
  /\ stage' = "masked"
  /\ UNCHANGED <<input, opts, sent, reply>>

SendBack(p) ==
  /\ stage = "masked"
  /\ sent' = p
  /\ reply' = Answer(session, Pick(session.masked, p), opts)
  /\ stage' = "answered"
  /\ UNCHANGED <<input, opts, session>>

TripNext == Forward \/ \E p \in Selections(Len(input)) : SendBack(p)

TripSpec == TripInit /\ [][TripNext]_tripVars

----------------------------------------------------------------------------
\* Whatever part of a mask comes back, in whatever order, is restored word
\* for word, unless the original text already contained one of the words
\* that mask it, or the part reads like the original text itself, which is
\* answered as a retry (Process and Demask after Mask or MaskSynthetic).
RoundTrip ==
  /\ stage = "answered"
  /\ CollisionFree(input, opts)
  /\ ~ReadsLikeOriginal(input, opts, sent)
  => reply = Restored(input, opts, sent)

\* Two detected values never share a replacement, so the mapping loses none
\* of them (the used map of MaskSynthetic, the counters of Mask).
DistinctReplacements ==
  stage \in {"masked", "answered"} /\ opts.strategy # "asterisks" =>
    Cardinality(DOMAIN session.mapping) = Cardinality(Detected(input, opts))
=============================================================================
