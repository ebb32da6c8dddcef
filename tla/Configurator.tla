----------------------------- MODULE Configurator --------------------------
(***************************************************************************)
(* The rules that administrators change while requests are served:         *)
(* config.Store, the handlers ConfigPut and resolveOptions, and the        *)
(* service's own copy of the composite switch (config/store.go:17-77,      *)
(* handler.go:41-93, service.go:66, 583).  Each method of Store holds its  *)
(* lock, so each is one step; the handlers call several.                   *)
(***************************************************************************)
EXTENDS Naturals, FiniteSets

CONSTANTS
  Admins,    \* goroutines that serve PUT /config
  Callers,   \* goroutines that serve POST /process
  Systems,   \* X-System-ID
  Rules,     \* the SystemRules: [enabled |-> BOOLEAN, policy |-> what to do]
  NoRule,    \* the system is not registered
  Default,   \* DefaultOptions: mask everything, restore
  Refused,   \* 403
  Keep,      \* a PUT without "systems"
  MaxPuts    \* bound: how many PUTs are made

Policies == {r.policy : r \in Rules}

ASSUME ConfiguratorAssumption ==
  /\ NoRule \notin Rules
  /\ Keep \notin [Systems -> Rules \cup {NoRule}]
  /\ Default \notin Policies /\ Refused \notin Policies /\ Default # Refused
  /\ \A r \in Rules : r.enabled \in BOOLEAN
  /\ MaxPuts \in Nat

VARIABLES
  conf,        \* Store.c
  composite,   \* Service.composite
  admin,       \* the PUT each admin goroutine is serving
  call,        \* the request each caller goroutine is serving
  puts,        \* how many PUTs were made
  overlapped   \* history: two PUTs have been in progress at once

confVars == <<conf, composite, admin, call, puts, overlapped>>

Config == [auth : BOOLEAN, composite : BOOLEAN,
           systems : [Systems -> Rules \cup {NoRule}]]

\* config.Editable
Editable == [auth : BOOLEAN, composite : BOOLEAN,
             systems : [Systems -> Rules \cup {NoRule}] \cup {Keep}]

\* seen, calm and torn are history: the configurations in force since the
\* request came, whether no PUT was in progress all the while, and whether one
\* was applied between the two reads of resolveOptions.
Request(pc, sys, opts, switch, seen, calm) ==
  [pc |-> pc, sys |-> sys, opts |-> opts, switch |-> switch,
   seen |-> seen, calm |-> calm, torn |-> FALSE]

Idle(c) == call[c].pc = "idle"
Putting == {a \in Admins : admin[a].pc = "sync"}

\* main hands the loaded configuration to both.
ConfInit ==
  /\ conf \in Config
  /\ composite = conf.composite
  /\ admin = [a \in Admins |-> [pc |-> "idle"]]
  /\ call = [c \in Callers |-> [pc |-> "idle"]]
  /\ puts = 0
  /\ overlapped = FALSE

----------------------------------------------------------------------------
(* ConfigPut.                                                              *)

\* Store.Apply
Applied(e) ==
  [auth |-> e.auth, composite |-> e.composite,
   systems |-> IF e.systems = Keep THEN conf.systems ELSE e.systems]

Apply(a, e) ==
  /\ admin[a].pc = "idle"
  /\ puts < MaxPuts
  /\ conf' = Applied(e)
  /\ admin' = [admin EXCEPT ![a] = [pc |-> "sync", composite |-> e.composite]]
  /\ call' = [c \in Callers |->
                IF Idle(c) \/ call[c].pc = "done" THEN call[c]
                ELSE [call[c] EXCEPT !.seen = @ \cup {conf'}, !.calm = FALSE,
                                     !.torn = @ \/ call[c].pc = "rule"]]
  /\ puts' = puts + 1
  /\ overlapped' = (overlapped \/ Putting # {})
  /\ UNCHANGED composite

\* Faulty variant of SetComposite for mutation: the switch is only ever set.
SetComposite_OnOnly(a) ==
  /\ admin[a].pc = "sync"
  /\ composite' = (composite \/ admin[a].composite)
  /\ admin' = [admin EXCEPT ![a] = [pc |-> "idle"]]
  /\ UNCHANGED <<conf, call, puts, overlapped>>

\* svc.SetCompositeMasking(e.CompositeMasking)
SetComposite(a) ==
  /\ admin[a].pc = "sync"
  /\ composite' = admin[a].composite
  /\ admin' = [admin EXCEPT ![a] = [pc |-> "idle"]]
  /\ UNCHANGED <<conf, call, puts, overlapped>>

----------------------------------------------------------------------------
(* Process: resolveOptions, then collectSpans.                             *)

Enter(c, sys) ==
  /\ Idle(c)
  /\ call' = [call EXCEPT ![c] =
                Request("auth", sys, Default, FALSE, {conf}, Putting = {})]
  /\ UNCHANGED <<conf, composite, admin, puts, overlapped>>

\* store.AuthEnabled()
ReadAuth(c) ==
  /\ call[c].pc = "auth"
  /\ call' = [call EXCEPT ![c].pc = IF conf.auth THEN "rule" ELSE "mask"]
  /\ UNCHANGED <<conf, composite, admin, puts, overlapped>>

\* Faulty variant of Granted for mutation: a disabled system is served.
Granted_Disabled(rules, sys) ==
  IF rules[sys] = NoRule THEN Refused ELSE rules[sys].policy

Granted(rules, sys) ==
  IF rules[sys] = NoRule THEN Refused
  ELSE IF ~rules[sys].enabled THEN Refused
  ELSE rules[sys].policy

\* store.System(X-System-ID), by a second look at the store.
ReadRule(c) ==
  LET opts == Granted(conf.systems, call[c].sys)
  IN /\ call[c].pc = "rule"
     /\ call' = [call EXCEPT ![c].opts = opts,
                             ![c].pc = IF opts = Refused THEN "done" ELSE "mask"]
     /\ UNCHANGED <<conf, composite, admin, puts, overlapped>>

\* if s.composite, in collectSpans
ReadComposite(c) ==
  /\ call[c].pc = "mask"
  /\ call' = [call EXCEPT ![c].switch = composite, ![c].pc = "done"]
  /\ UNCHANGED <<conf, composite, admin, puts, overlapped>>

Leave(c) ==
  /\ call[c].pc = "done"
  /\ call' = [call EXCEPT ![c] = [pc |-> "idle"]]
  /\ UNCHANGED <<conf, composite, admin, puts, overlapped>>

ConfNext ==
  \/ \E a \in Admins :
       \/ \E e \in Editable : Apply(a, e)
       \/ SetComposite(a)
  \/ \E c \in Callers :
       \/ \E sys \in Systems : Enter(c, sys)
       \/ ReadAuth(c)
       \/ ReadRule(c)
       \/ ReadComposite(c)
       \/ Leave(c)

ConfSpec == ConfInit /\ [][ConfNext]_confVars

----------------------------------------------------------------------------
(* Properties.                                                             *)

\* What a request is entitled to under one configuration.
Entitled(k, sys) ==
  IF ~k.auth THEN Default
  ELSE IF k.systems[sys] = NoRule \/ ~k.systems[sys].enabled THEN Refused
  ELSE k.systems[sys].policy

\* A request gets what one configuration in force during it grants, however
\* many PUTs come, unless one comes between resolveOptions' two reads.  Then it
\* still does while access control stays on, and gets the default if it stays
\* off; but a PUT that switches access control off may leave the request with
\* a rule, or a refusal, that the PUT wrote and no configuration enforced.  That
\* is the most that tearing can do: what the request gets follows from rules
\* that were stored meanwhile, and access control was on for a while.
DecisionInForce ==
  \A c \in Callers :
    call[c].pc = "done" =>
      LET r == call[c]
          granted == {Entitled(k, r.sys) : k \in r.seen}
          rules == {Entitled([k EXCEPT !.auth = TRUE], r.sys) : k \in r.seen}
      IN /\ (\A k \in r.seen : k.auth) => r.opts \in granted
         /\ (\A k \in r.seen : ~k.auth) => r.opts = Default
         /\ ~r.torn => r.opts \in granted
         /\ r.opts # Default =>
              r.opts \in rules /\ \E k \in r.seen : k.auth

\* What a masked request saw of the composite switch.
ServedAsStored(c) ==
  LET r == call[c]
  IN r.pc = "done" /\ r.opts # Refused /\ r.calm =>
       \A k \in r.seen : r.switch = k.composite

\* A request served while no PUT was in progress is masked under the composite
\* setting of the store, which GET /config shows, as long as PUTs have come
\* one after the other.
SwitchAsStored == ~overlapped => \A c \in Callers : ServedAsStored(c)

\* handler.go:48: ConfigPut keeps the service in step with the store.
SwitchAlwaysAsStored == \A c \in Callers : ServedAsStored(c)
=============================================================================
