------------------------- MODULE ConfiguratorProofs ------------------------
(***************************************************************************)
(* For any number of administrators, callers and PUTs: what a request is   *)
(* granted was in force during it, but for a PUT between its two reads     *)
(* that switches access control off, and the service's composite switch    *)
(* follows the store while PUTs do not overlap.                            *)
(***************************************************************************)
EXTENDS Configurator, TLAPS

USE ConfiguratorAssumption

Active(r) == r.pc \in {"auth", "rule", "mask"}

CallType == [pc : {"auth", "rule", "mask", "done"}, sys : Systems,
             opts : Policies \cup {Default, Refused}, switch : BOOLEAN,
             seen : SUBSET Config, calm : BOOLEAN, torn : BOOLEAN]

AdminType == [pc : {"idle"}] \cup [pc : {"sync"}, composite : BOOLEAN]

TypeOK ==
  /\ conf \in Config
  /\ composite \in BOOLEAN
  /\ admin \in [Admins -> AdminType]
  /\ call \in [Callers -> CallType \cup [pc : {"idle"}]]
  /\ puts \in Nat
  /\ overlapped \in BOOLEAN

\* What the reads of a request have established of the decision opts.
Decided(r) ==
  IF r.opts = Default THEN \E k \in r.seen : ~k.auth
  ELSE /\ \E k \in r.seen : k.auth
       /\ \E k \in r.seen : r.opts = Granted(k.systems, r.sys)
       /\ ~r.torn =>
            \E k \in r.seen : k.auth /\ r.opts = Granted(k.systems, r.sys)

\* A request's part of the invariant on decisions.
Deciding(r) ==
  /\ Active(r) => conf \in r.seen
  /\ r.pc \in {"auth", "rule"} => r.opts = Default
  /\ r.pc = "rule" => \E k \in r.seen : k.auth
  /\ r.pc = "rule" /\ ~r.torn => conf.auth
  /\ r.pc \in {"mask", "done"} => Decided(r)

Decisions == \A c \in Callers : Deciding(call[c])

\* The service's switch lags behind the store only while one PUT is between
\* its two steps, and that PUT brings the store's value.
InStep ==
  ~overlapped =>
    /\ \A a \in Putting : admin[a].composite = conf.composite
    /\ \A a, b \in Putting : a = b
    /\ Putting = {} => composite = conf.composite

\* A request's part of the invariant on the switch.
Watching(r) ==
  /\ Active(r) /\ r.calm => r.seen = {conf} /\ Putting = {}
  /\ ~overlapped /\ r.pc = "done" /\ r.opts # Refused /\ r.calm =>
       \A k \in r.seen : r.switch = k.composite

Watched == \A c \in Callers : Watching(call[c])

----------------------------------------------------------------------------
(* Types.                                                                  *)

\* Whatever systems' rules are stored, a system gets a policy or a refusal.
LEMMA GrantedType ==
  ASSUME NEW k \in Config, NEW sys \in Systems
  PROVE  /\ Granted(k.systems, sys) \in Policies \cup {Refused}
         /\ Granted(k.systems, sys) # Default
BY DEF Granted, Config, Policies

\* A PUT leaves a well-typed configuration.
LEMMA AppliedType ==
  ASSUME TypeOK, NEW e \in Editable
  PROVE  Applied(e) \in Config /\ Applied(e).composite = e.composite
         /\ e.composite \in BOOLEAN
BY DEF TypeOK, Applied, Editable, Config

\* The initial variables are well typed.
LEMMA TypeInit == ConfInit => TypeOK
<1> SUFFICES ASSUME ConfInit PROVE TypeOK
  OBVIOUS
<1>1. conf \in Config /\ composite \in BOOLEAN
  BY DEF ConfInit, Config
<1>2. admin \in [Admins -> AdminType]
  BY DEF ConfInit, AdminType
<1>3. call \in [Callers -> CallType \cup [pc : {"idle"}]]
  BY DEF ConfInit
<1> QED  BY <1>1, <1>2, <1>3 DEF ConfInit, TypeOK

\* A request that has seen one configuration more is still a request.
LEMMA RecordUpdate ==
  ASSUME NEW r \in CallType, NEW S \in SUBSET Config, NEW b \in BOOLEAN
  PROVE  [r EXCEPT !.seen = S, !.calm = FALSE, !.torn = b] \in CallType
BY DEF CallType

\* Every step keeps the types.
LEMMA TypeNext == TypeOK /\ [ConfNext]_confVars => TypeOK'
<1> SUFFICES ASSUME TypeOK, [ConfNext]_confVars PROVE TypeOK'
  OBVIOUS
<1>1. ASSUME NEW a \in Admins, NEW e \in Editable, Apply(a, e)
      PROVE  TypeOK'
  <2>1. conf' \in Config /\ e.composite \in BOOLEAN
    BY <1>1, AppliedType DEF Apply
  <2>2. call' \in [Callers -> CallType \cup [pc : {"idle"}]]
    <3>1. SUFFICES ASSUME NEW c \in Callers
                   PROVE  call'[c] \in CallType \cup [pc : {"idle"}]
      BY <1>1 DEF Apply
    <3>2. CASE Idle(c) \/ call[c].pc = "done"
      <4>1. call'[c] = call[c]
        BY <1>1, <3>2 DEF Apply
      <4> QED  BY <4>1 DEF TypeOK
    <3>3. CASE ~(Idle(c) \/ call[c].pc = "done")
      <4>1. call[c] \in CallType
        BY <3>3 DEF TypeOK, Idle
      <4>2. call'[c] = [call[c] EXCEPT !.seen = @ \cup {conf'}, !.calm = FALSE,
                                       !.torn = @ \/ call[c].pc = "rule"]
        BY <1>1, <3>3 DEF Apply
      <4>3. /\ call[c].seen \cup {conf'} \in SUBSET Config
            /\ (call[c].torn \/ call[c].pc = "rule") \in BOOLEAN
        BY <2>1, <4>1 DEF CallType
      <4> DEFINE S == call[c].seen \cup {conf'}
                 b == call[c].torn \/ call[c].pc = "rule"
      <4>4. call'[c] = [call[c] EXCEPT !.seen = S, !.calm = FALSE, !.torn = b]
        BY <4>2
      <4> HIDE DEF S, b
      <4>5. S \in SUBSET Config /\ b \in BOOLEAN
        BY <4>3 DEF S, b
      <4>6. [call[c] EXCEPT !.seen = S, !.calm = FALSE, !.torn = b] \in CallType
        BY <4>1, <4>5, RecordUpdate, Zenon
      <4> QED  BY <4>4, <4>6, Zenon
    <3> QED  BY <3>2, <3>3
  <2>3. admin' \in [Admins -> AdminType]
    <3>1. [pc |-> "sync", composite |-> e.composite] \in AdminType
      BY <2>1 DEF AdminType
    <3> QED  BY <1>1, <3>1 DEF Apply, TypeOK
  <2>4. puts' \in Nat
    <3>1. puts' = puts + 1
      BY <1>1 DEF Apply
    <3> QED  BY <3>1 DEF TypeOK
  <2>5. composite' \in BOOLEAN
    BY <1>1, Zenon DEF Apply, TypeOK
  <2>6. overlapped' = (overlapped \/ Putting # {})
    BY <1>1 DEF Apply
  <2>7. overlapped' \in BOOLEAN
    BY <2>6, Zenon
  <2> QED  BY <2>1, <2>2, <2>3, <2>4, <2>7, <2>5 DEF TypeOK
<1>2. ASSUME NEW a \in Admins, SetComposite(a)
      PROVE  TypeOK'
  BY <1>2 DEF SetComposite, TypeOK, AdminType
<1>3. ASSUME NEW c \in Callers, NEW sys \in Systems, Enter(c, sys)
      PROVE  TypeOK'
  BY <1>3 DEF Enter, TypeOK, Request, CallType
<1>4. ASSUME NEW c \in Callers, ReadAuth(c)
      PROVE  TypeOK'
  BY <1>4 DEF ReadAuth, TypeOK, CallType
<1>5. ASSUME NEW c \in Callers, ReadRule(c)
      PROVE  TypeOK'
  <2>1. call[c] \in CallType
    BY <1>5 DEF ReadRule, TypeOK
  <2>2. Granted(conf.systems, call[c].sys) \in Policies \cup {Refused}
    BY <2>1, GrantedType DEF TypeOK, CallType
  <2> QED  BY <1>5, <2>1, <2>2 DEF ReadRule, TypeOK, CallType
<1>6. ASSUME NEW c \in Callers, ReadComposite(c)
      PROVE  TypeOK'
  BY <1>6 DEF ReadComposite, TypeOK, CallType
<1>7. ASSUME NEW c \in Callers, Leave(c)
      PROVE  TypeOK'
  BY <1>7 DEF Leave, TypeOK
<1>8. CASE UNCHANGED confVars
  BY <1>8 DEF TypeOK, confVars
<1> QED
  BY <1>1, <1>2, <1>3, <1>4, <1>5, <1>6, <1>7, <1>8 DEF ConfNext

\* The variables keep their types.
THEOREM TypeCorrect == ConfSpec => []TypeOK
BY TypeInit, TypeNext, PTL DEF ConfSpec

----------------------------------------------------------------------------
(* Decisions.                                                              *)

\* A decision stays justified when the request has seen more.
LEMMA DecidedMore ==
  ASSUME NEW r, NEW s, Decided(r), s.opts = r.opts, s.sys = r.sys,
         s.torn = r.torn, r.seen \subseteq s.seen
  PROVE  Decided(s)
BY DEF Decided

\* No request has been decided initially.
LEMMA DecisionsInit == ConfInit => Decisions
BY DEF ConfInit, Decisions, Deciding, Active

\* Every step keeps the decisions justified.
LEMMA DecisionsNext == TypeOK /\ Decisions /\ [ConfNext]_confVars => Decisions'
<1> SUFFICES ASSUME TypeOK, Decisions, [ConfNext]_confVars, NEW d \in Callers
             PROVE  Deciding(call[d])'
  BY DEF Decisions
<1>0. Deciding(call[d])
  BY DEF Decisions
<1>1. ASSUME NEW a \in Admins, NEW e \in Editable, Apply(a, e)
      PROVE  Deciding(call[d])'
  <2>1. CASE Idle(d) \/ call[d].pc = "done"
    <3>1. call'[d] = call[d]
      BY <1>1, <2>1 DEF Apply
    <3>2. call[d].pc \in {"idle", "done"}
      BY <2>1 DEF Idle
    <3> QED  BY <1>0, <3>1, <3>2 DEF Deciding, Active, Decided
  <2>2. CASE ~(Idle(d) \/ call[d].pc = "done")
    <3>1. call[d] \in CallType
      BY <2>2 DEF TypeOK, Idle
    <3>2. call'[d] = [call[d] EXCEPT !.seen = @ \cup {conf'}, !.calm = FALSE,
                                     !.torn = @ \/ call[d].pc = "rule"]
      BY <1>1, <2>2 DEF Apply
    <3>3. /\ call'[d].pc = call[d].pc
          /\ call'[d].sys = call[d].sys
          /\ call'[d].opts = call[d].opts
          /\ call'[d].seen = call[d].seen \cup {conf'}
          /\ call'[d].torn = (call[d].torn \/ call[d].pc = "rule")
      BY <3>1, <3>2 DEF CallType
    <3>4. call[d].pc # "rule" /\ Decided(call[d]) => Decided(call'[d])
      <4> SUFFICES ASSUME call[d].pc # "rule", Decided(call[d])
                   PROVE  Decided(call'[d])
        OBVIOUS
      <4>1. call'[d].torn = call[d].torn
        BY <3>1, <3>3 DEF CallType
      <4> QED  BY <3>3, <4>1, DecidedMore
    <3> QED  BY <1>0, <3>3, <3>4 DEF Deciding, Active
  <2> QED  BY <2>1, <2>2
<1>2. ASSUME NEW a \in Admins, SetComposite(a)
      PROVE  Deciding(call[d])'
  BY <1>0, <1>2 DEF SetComposite, Deciding, Active, Decided
<1>3. ASSUME NEW c \in Callers, NEW sys \in Systems, Enter(c, sys)
      PROVE  Deciding(call[d])'
  <2>1. CASE c = d
    <3>1. call'[d] = Request("auth", sys, Default, FALSE, {conf}, Putting = {})
      BY <1>3, <2>1 DEF Enter, TypeOK
    <3>2. /\ call'[d].pc = "auth"
          /\ conf' \in call'[d].seen
          /\ call'[d].opts = Default
      BY <1>3, <3>1 DEF Enter, Request
    <3> QED  BY <3>2 DEF Deciding
  <2>2. CASE c # d
    <3>1. call'[d] = call[d] /\ conf' = conf
      BY <1>3, <2>2 DEF Enter, TypeOK
    <3> QED  BY <1>0, <3>1 DEF Deciding, Active, Decided
  <2> QED  BY <2>1, <2>2
<1>4. ASSUME NEW c \in Callers, ReadAuth(c)
      PROVE  Deciding(call[d])'
  <2>1. conf' = conf
    BY <1>4 DEF ReadAuth
  <2>2. CASE c = d
    <3>1. /\ call[d] \in CallType
          /\ call[d].pc = "auth"
          /\ conf \in call[d].seen
          /\ call[d].opts = Default
      BY <1>0, <1>4, <2>2 DEF ReadAuth, TypeOK, Deciding, Active
    <3>2. call'[d] = [call[d] EXCEPT !.pc = IF conf.auth THEN "rule" ELSE "mask"]
      BY <1>4, <2>2 DEF ReadAuth, TypeOK
    <3>3. /\ call'[d].seen = call[d].seen
          /\ call'[d].opts = call[d].opts
          /\ call'[d].pc = IF conf.auth THEN "rule" ELSE "mask"
      BY <3>1, <3>2 DEF CallType
    <3> QED  BY <2>1, <3>1, <3>3 DEF Deciding, Decided
  <2>3. CASE c # d
    <3>1. call'[d] = call[d]
      BY <1>4, <2>3 DEF ReadAuth, TypeOK
    <3> QED  BY <1>0, <2>1, <3>1 DEF Deciding, Active, Decided
  <2> QED  BY <2>2, <2>3
<1>5. ASSUME NEW c \in Callers, ReadRule(c)
      PROVE  Deciding(call[d])'
  <2>1. conf' = conf
    BY <1>5 DEF ReadRule
  <2>2. CASE c = d
    <3> DEFINE opts == Granted(conf.systems, call[d].sys)
    <3>1. /\ call[d] \in CallType
          /\ call[d].pc = "rule"
          /\ conf \in call[d].seen
          /\ \E k \in call[d].seen : k.auth
          /\ ~call[d].torn => conf.auth
      BY <1>0, <1>5, <2>2 DEF ReadRule, TypeOK, Deciding, Active
    <3>2. call'[d] = [call[d] EXCEPT
                        !.opts = opts,
                        !.pc = IF opts = Refused THEN "done" ELSE "mask"]
      BY <1>5, <2>2 DEF ReadRule, TypeOK
    <3>3. opts # Default
      BY <3>1, GrantedType DEF TypeOK, CallType
    <3> HIDE DEF opts
    <3>4. /\ call'[d].seen = call[d].seen
          /\ call'[d].sys = call[d].sys
          /\ call'[d].torn = call[d].torn
          /\ call'[d].opts = opts
          /\ call'[d].pc \in {"done", "mask"}
      BY <3>1, <3>2 DEF CallType
    <3>5. opts = Granted(conf.systems, call'[d].sys)
      BY <3>4 DEF opts
    <3>6. Decided(call'[d])
      BY <3>1, <3>3, <3>4, <3>5 DEF Decided
    <3> QED  BY <2>1, <3>1, <3>4, <3>6 DEF Deciding, Active
  <2>3. CASE c # d
    <3>1. call'[d] = call[d]
      BY <1>5, <2>3 DEF ReadRule, TypeOK
    <3> QED  BY <1>0, <2>1, <3>1 DEF Deciding, Active, Decided
  <2> QED  BY <2>2, <2>3
<1>6. ASSUME NEW c \in Callers, ReadComposite(c)
      PROVE  Deciding(call[d])'
  <2>1. conf' = conf
    BY <1>6 DEF ReadComposite
  <2>2. CASE c = d
    <3>1. call[d] \in CallType /\ Decided(call[d])
      BY <1>0, <1>6, <2>2 DEF ReadComposite, TypeOK, Deciding
    <3>2. call'[d] = [call[d] EXCEPT !.switch = composite, !.pc = "done"]
      BY <1>6, <2>2 DEF ReadComposite, TypeOK
    <3>3. /\ call'[d].seen = call[d].seen
          /\ call'[d].sys = call[d].sys
          /\ call'[d].torn = call[d].torn
          /\ call'[d].opts = call[d].opts
          /\ call'[d].pc = "done"
      BY <3>1, <3>2 DEF CallType
    <3>4. Decided(call'[d])
      BY <3>1, <3>3, DecidedMore
    <3> QED  BY <3>3, <3>4 DEF Deciding, Active
  <2>3. CASE c # d
    <3>1. call'[d] = call[d]
      BY <1>6, <2>3 DEF ReadComposite, TypeOK
    <3> QED  BY <1>0, <2>1, <3>1 DEF Deciding, Active, Decided
  <2> QED  BY <2>2, <2>3
<1>7. ASSUME NEW c \in Callers, Leave(c)
      PROVE  Deciding(call[d])'
  <2>1. conf' = conf
    BY <1>7 DEF Leave
  <2>2. CASE c = d
    <3>1. call'[d].pc = "idle"
      BY <1>7, <2>2 DEF Leave, TypeOK
    <3> QED  BY <3>1 DEF Deciding, Active
  <2>3. CASE c # d
    <3>1. call'[d] = call[d]
      BY <1>7, <2>3 DEF Leave, TypeOK
    <3> QED  BY <1>0, <2>1, <3>1 DEF Deciding, Active, Decided
  <2> QED  BY <2>2, <2>3
<1>8. CASE UNCHANGED confVars
  BY <1>0, <1>8 DEF confVars, Deciding, Active, Decided
<1> QED
  BY <1>1, <1>2, <1>3, <1>4, <1>5, <1>6, <1>7, <1>8 DEF ConfNext

\* One request: a justified decision is one that a configuration in force
\* granted.
LEMMA DecidedInForce ==
  ASSUME NEW r \in CallType, Decided(r)
  PROVE  LET granted == {Entitled(k, r.sys) : k \in r.seen}
             rules == {Entitled([k EXCEPT !.auth = TRUE], r.sys) : k \in r.seen}
         IN /\ (\A k \in r.seen : k.auth) => r.opts \in granted
            /\ (\A k \in r.seen : ~k.auth) => r.opts = Default
            /\ ~r.torn => r.opts \in granted
            /\ r.opts # Default =>
                 r.opts \in rules /\ \E k \in r.seen : k.auth
<1>1. ASSUME NEW k \in r.seen
      PROVE  /\ k.auth => Entitled(k, r.sys) = Granted(k.systems, r.sys)
             /\ Entitled([k EXCEPT !.auth = TRUE], r.sys)
                  = Granted(k.systems, r.sys)
  <2>1. k \in Config
    BY DEF CallType
  <2> DEFINE j == [k EXCEPT !.auth = TRUE]
  <2>2. j.auth /\ j.systems = k.systems
    BY <2>1 DEF Config
  <2> HIDE DEF j
  <2>3. Entitled(j, r.sys) = Granted(k.systems, r.sys)
    BY <2>2 DEF Entitled, Granted
  <2> QED  BY <2>3 DEF Entitled, Granted, j
<1>2. CASE r.opts = Default
  <2>1. PICK k \in r.seen : ~k.auth
    BY <1>2 DEF Decided
  <2>2. Entitled(k, r.sys) = Default
    BY <2>1 DEF Entitled
  <2> QED  BY <1>2, <2>1, <2>2
<1>3. CASE r.opts # Default
  <2>1. PICK k \in r.seen : r.opts = Granted(k.systems, r.sys)
    BY <1>3 DEF Decided
  <2>2. \E l \in r.seen : l.auth
    BY <1>3 DEF Decided
  <2>3. ~r.torn => \E l \in r.seen : r.opts = Entitled(l, r.sys)
    BY <1>1, <1>3 DEF Decided
  <2> QED  BY <1>1, <1>3, <2>1, <2>2, <2>3
<1> QED  BY <1>2, <1>3

\* A request is granted what one configuration in force during it grants,
\* unless a PUT comes between resolveOptions' two reads and switches access
\* control off; then it may be granted a rule stored by such a PUT, never more.
THEOREM DecisionCorrect == ConfSpec => []DecisionInForce
<1>1. TypeOK /\ Decisions => DecisionInForce
  <2> SUFFICES ASSUME TypeOK, Decisions, NEW c \in Callers,
                      call[c].pc = "done"
               PROVE  LET r == call[c]
                          granted == {Entitled(k, r.sys) : k \in r.seen}
                          rules == {Entitled([k EXCEPT !.auth = TRUE], r.sys) :
                                      k \in r.seen}
                      IN /\ (\A k \in r.seen : k.auth) => r.opts \in granted
                         /\ (\A k \in r.seen : ~k.auth) => r.opts = Default
                         /\ ~r.torn => r.opts \in granted
                         /\ r.opts # Default =>
                              r.opts \in rules /\ \E k \in r.seen : k.auth
    BY DEF DecisionInForce
  <2>1. call[c] \in CallType
    BY DEF TypeOK
  <2>2. Decided(call[c])
    BY DEF Decisions, Deciding
  <2> QED  BY <2>1, <2>2, DecidedInForce
<1> QED
  BY <1>1, TypeCorrect, DecisionsInit, DecisionsNext, PTL DEF ConfSpec


----------------------------------------------------------------------------
(* The composite switch.                                                   *)

\* main hands the same switch to the store and to the service.
LEMMA SwitchInit == ConfInit => InStep /\ Watched
BY DEF ConfInit, InStep, Putting, Watched, Watching, Active

\* A caller's step leaves the configuration, the switch and the PUTs alone.
LEMMA CallerStep ==
  ASSUME NEW c \in Callers,
         \/ \E sys \in Systems : Enter(c, sys)
         \/ ReadAuth(c) \/ ReadRule(c) \/ ReadComposite(c) \/ Leave(c),
         TypeOK
  PROVE  /\ UNCHANGED <<conf, composite, admin, overlapped>>
         /\ Putting' = Putting
         /\ \A d \in Callers : d # c => call'[d] = call[d]
BY DEF Enter, ReadAuth, ReadRule, ReadComposite, Leave, Putting, TypeOK

\* Every step keeps the switch in step.
LEMMA InStepNext == TypeOK /\ InStep /\ [ConfNext]_confVars => InStep'
<1> SUFFICES ASSUME TypeOK, InStep, [ConfNext]_confVars, ~overlapped'
             PROVE  /\ \A a \in Putting' : admin'[a].composite = conf'.composite
                    /\ \A a, b \in Putting' : a = b
                    /\ Putting' = {} => composite' = conf'.composite
  BY DEF InStep
<1>1. ASSUME NEW a \in Admins, NEW e \in Editable, Apply(a, e)
      PROVE  Putting' = {a} /\ admin'[a].composite = conf'.composite
  <2>1. Putting = {}
    BY <1>1 DEF Apply
  <2>2. /\ admin' = [admin EXCEPT ![a] =
                        [pc |-> "sync", composite |-> e.composite]]
        /\ conf' = Applied(e)
    BY <1>1 DEF Apply
  <2>3. Putting' = {a}
    BY <2>1, <2>2 DEF Putting, TypeOK
  <2>4. admin'[a].composite = e.composite
    BY <2>2 DEF TypeOK
  <2> QED  BY <2>2, <2>3, <2>4, AppliedType
<1>2. ASSUME NEW a \in Admins, SetComposite(a)
      PROVE  Putting' = {} /\ composite' = conf'.composite
  <2>1. a \in Putting /\ ~overlapped
    BY <1>2 DEF SetComposite, Putting
  <2>2. Putting = {a} /\ admin[a].composite = conf.composite
    BY <2>1 DEF InStep
  <2>3. /\ admin' = [admin EXCEPT ![a] = [pc |-> "idle"]]
        /\ conf' = conf /\ composite' = admin[a].composite
    BY <1>2 DEF SetComposite
  <2>4. Putting' = {}
    BY <2>2, <2>3 DEF Putting, TypeOK
  <2> QED  BY <2>2, <2>3, <2>4
<1>3. CASE UNCHANGED <<conf, composite, admin, overlapped>>
  BY <1>3 DEF InStep, Putting
<1>4. ASSUME NEW c \in Callers,
             \/ \E sys \in Systems : Enter(c, sys)
             \/ ReadAuth(c) \/ ReadRule(c) \/ ReadComposite(c) \/ Leave(c)
      PROVE  UNCHANGED <<conf, composite, admin, overlapped>>
  BY <1>4, CallerStep
<1>5. CASE UNCHANGED confVars
  BY <1>3, <1>5 DEF confVars
<1> QED
  BY <1>1, <1>2, <1>3, <1>4, <1>5 DEF ConfNext

\* Every step keeps what the requests have seen of the switch.
LEMMA WatchedNext ==
  TypeOK /\ InStep /\ Watched /\ [ConfNext]_confVars => Watched'
<1> SUFFICES ASSUME TypeOK, InStep, Watched, [ConfNext]_confVars, NEW d \in Callers
             PROVE  Watching(call[d])'
  BY DEF Watched
<1>0. Watching(call[d])
  BY DEF Watched
<1>1. ASSUME NEW a \in Admins, NEW e \in Editable, Apply(a, e)
      PROVE  Watching(call[d])'
  <2>1. overlapped => overlapped'
    BY <1>1 DEF Apply
  <2>2. CASE Idle(d) \/ call[d].pc = "done"
    <3>1. call'[d] = call[d]
      BY <1>1, <2>2 DEF Apply
    <3>2. call[d].pc \in {"idle", "done"}
      BY <2>2 DEF Idle
    <3> QED  BY <1>0, <2>1, <3>1, <3>2 DEF Watching, Active
  <2>3. CASE ~(Idle(d) \/ call[d].pc = "done")
    <3>1. call[d] \in CallType
      BY <2>3 DEF TypeOK, Idle
    <3>2. call'[d] = [call[d] EXCEPT !.seen = @ \cup {conf'}, !.calm = FALSE,
                                     !.torn = @ \/ call[d].pc = "rule"]
      BY <1>1, <2>3 DEF Apply
    <3>3. ~call'[d].calm
      BY <3>1, <3>2 DEF CallType
    <3> QED  BY <3>3 DEF Watching
  <2> QED  BY <2>2, <2>3
<1>2. ASSUME NEW a \in Admins, SetComposite(a)
      PROVE  Watching(call[d])'
  <2>1. call' = call /\ conf' = conf /\ overlapped' = overlapped
    BY <1>2 DEF SetComposite
  <2>2. Putting # {}
    BY <1>2 DEF SetComposite, Putting
  <2> QED  BY <1>0, <2>1, <2>2 DEF Watching, Active
<1>3. ASSUME NEW c \in Callers, c # d,
             \/ \E sys \in Systems : Enter(c, sys)
             \/ ReadAuth(c) \/ ReadRule(c) \/ ReadComposite(c) \/ Leave(c)
      PROVE  Watching(call[d])'
  <2>1. /\ call'[d] = call[d] /\ conf' = conf
        /\ overlapped' = overlapped /\ Putting' = Putting
    BY <1>3, CallerStep
  <2> QED  BY <1>0, <2>1 DEF Watching, Active
<1>4. ASSUME NEW sys \in Systems, Enter(d, sys)
      PROVE  Watching(call[d])'
  <2>1. call'[d] = Request("auth", sys, Default, FALSE, {conf}, Putting = {})
    BY <1>4 DEF Enter, TypeOK
  <2>2. conf' = conf /\ Putting' = Putting
    BY <1>4 DEF Enter, Putting
  <2>3. /\ call'[d].pc = "auth"
        /\ call'[d].seen = {conf}
        /\ call'[d].calm = (Putting = {})
    BY <2>1 DEF Request
  <2> QED  BY <2>2, <2>3 DEF Watching, Active
<1>5. ASSUME ReadAuth(d)
      PROVE  Watching(call[d])'
  <2>1. call[d] \in CallType /\ call[d].pc = "auth"
    BY <1>5 DEF ReadAuth, TypeOK
  <2>2. call'[d] = [call[d] EXCEPT !.pc = IF conf.auth THEN "rule" ELSE "mask"]
    BY <1>5 DEF ReadAuth, TypeOK
  <2>3. /\ call'[d].seen = call[d].seen
        /\ call'[d].calm = call[d].calm
        /\ call'[d].pc \in {"rule", "mask"}
    BY <2>1, <2>2 DEF CallType
  <2>4. conf' = conf /\ Putting' = Putting
    BY <1>5 DEF ReadAuth, Putting
  <2> QED  BY <1>0, <2>1, <2>3, <2>4 DEF Watching, Active
<1>6. ASSUME ReadRule(d)
      PROVE  Watching(call[d])'
  <2> DEFINE opts == Granted(conf.systems, call[d].sys)
  <2>1. call[d] \in CallType /\ call[d].pc = "rule"
    BY <1>6 DEF ReadRule, TypeOK
  <2>2. call'[d] = [call[d] EXCEPT
                      !.opts = opts,
                      !.pc = IF opts = Refused THEN "done" ELSE "mask"]
    BY <1>6 DEF ReadRule, TypeOK
  <2> HIDE DEF opts
  <2>3. /\ call'[d].seen = call[d].seen
        /\ call'[d].calm = call[d].calm
        /\ call'[d].pc = "mask" \/ (call'[d].pc = "done" /\ call'[d].opts = Refused)
    BY <2>1, <2>2 DEF CallType
  <2>4. conf' = conf /\ Putting' = Putting
    BY <1>6 DEF ReadRule, Putting
  <2> QED  BY <1>0, <2>1, <2>3, <2>4 DEF Watching, Active
<1>7. ASSUME ReadComposite(d)
      PROVE  Watching(call[d])'
  <2>1. call[d] \in CallType /\ call[d].pc = "mask"
    BY <1>7 DEF ReadComposite, TypeOK
  <2>2. call'[d] = [call[d] EXCEPT !.switch = composite, !.pc = "done"]
    BY <1>7 DEF ReadComposite, TypeOK
  <2>3. /\ call'[d].seen = call[d].seen
        /\ call'[d].calm = call[d].calm
        /\ call'[d].pc = "done"
        /\ call'[d].switch = composite
    BY <2>1, <2>2 DEF CallType
  <2>4. overlapped' = overlapped
    BY <1>7 DEF ReadComposite
  <2>5. call[d].calm => call[d].seen = {conf} /\ Putting = {}
    BY <1>0, <2>1 DEF Watching, Active
  <2> QED  BY <2>3, <2>4, <2>5 DEF Watching, Active, InStep
<1>8. ASSUME Leave(d)
      PROVE  Watching(call[d])'
  <2>1. call'[d].pc = "idle"
    BY <1>8 DEF Leave, TypeOK
  <2> QED  BY <2>1 DEF Watching, Active
<1>9. CASE UNCHANGED confVars
  BY <1>0, <1>9 DEF confVars, Watching, Active, Putting
<1> QED
  BY <1>1, <1>2, <1>3, <1>4, <1>5, <1>6, <1>7, <1>8, <1>9 DEF ConfNext

\* While PUTs come one after the other, a request that no PUT disturbs is masked
\* under the composite setting of the store.
THEOREM SwitchCorrect == ConfSpec => []SwitchAsStored
<1>1. Watched => SwitchAsStored
  BY DEF Watched, Watching, SwitchAsStored, ServedAsStored
<1> QED
  BY <1>1, TypeCorrect, SwitchInit, InStepNext, WatchedNext, PTL DEF ConfSpec
=============================================================================
