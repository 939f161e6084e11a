----------------------------- MODULE Intervention -----------------------------
(* The intervention engine of ystar/governance acting on the obligations of     *)
(* ObligationLifecycle: violations become pulses, hard ones gate their actor    *)
(* and restrict it, the circuit breaker stops pulse generation, and fulfilment, *)
(* restoration scans and auto-resets lift gates.  Pulses, restrictions and the  *)
(* breaker live in the memory of the governing process and are lost when it     *)
(* restarts; the obligations and violations are in the store and stay.          *)
EXTENDS ObligationLifecycle, Sequences, FiniteSets

CONSTANTS
  Actors, ActorOf,  \* the actor responsible for an obligation
  RerouteOf,        \* obligation -> the id its reroute creates, NoOb when none
  NoOb,
  Threshold,        \* _circuit_breaker_threshold
  Window,           \* _circuit_breaker_window_secs
  MaxTime           \* bound on the clock

ASSUME InterventionAssumption ==
  /\ ActorOf \in [Obs -> Actors]
  /\ RerouteOf \in [Obs -> Obs \cup {NoOb}]
  /\ Threshold \in Nat \ {0} /\ Window \in Nat /\ MaxTime \in Nat

VARIABLES
  now,       \* time.time()
  scanning,  \* an engine.scan() is running
  batch,     \* result.violations of that scan: <<obligation, stage>>
  iv         \* the InterventionEngine: its active pulses, restricted actors,
             \* window (one timestamp per violation counted) and armed breaker

vars == <<status, viol, now, scanning, batch, iv>>

Stages == {"soft_overdue", "hard_overdue"}
Levels == {"soft_pulse", "interrupt_gate", "reroute_escalate"}

NoIntervention == [active |-> {}, restricted |-> {}, window |-> <<>>, armed |-> FALSE]

-------------------------------------------------------------------------------
(* The engine's operations, on a state s of the engine.                         *)

\* gate_check denies a high-risk action while an interrupt pulse is active.
Gated(s, a) == \E o \in Obs : <<o, "interrupt_gate">> \in s.active /\ ActorOf[o] = a

\* The window after counting V: old entries are dropped, V's are added.  Only the
\* newest Threshold entries are kept, which decide as much as all of them.
Counted(s, V) ==
  LET recent == SelectSeq(s.window, LAMBDA ts : ts > now - Window)
                  \o [i \in 1..Cardinality(V) |-> now]
      n == Len(recent)
  IN IF n <= Threshold THEN recent ELSE SubSeq(recent, n - Threshold + 1, n)

\* obligation.escalated: set by the scan that escalated it, never cleared.
Rerouted(V) == {v[1] : v \in {x \in V : viol[x[1]].escalated}}

\* Mutant: the gate is put up at the soft stage.
PulsesEarly(V) ==
  {<<v[1], IF v[2] = "soft_overdue" THEN "interrupt_gate" ELSE "soft_pulse">> : v \in V}
    \cup {<<o, "reroute_escalate">> : o \in Rerouted(V)}

Pulses(V) ==
  {<<v[1], IF v[2] = "hard_overdue" THEN "interrupt_gate" ELSE "soft_pulse">> : v \in V}
    \cup {<<o, "reroute_escalate">> : o \in Rerouted(V)}

\* Mutant: the batch that finds the breaker armed is still fired.
ProcessArmed(s, V) ==
  LET window == Counted(s, V)
      armed  == s.armed \/ Len(window) >= Threshold
      fired  == Pulses(V) \ s.active
  IN [s EXCEPT !.window = window, !.armed = armed,
        !.active = @ \cup fired,
        !.restricted = @ \cup {ActorOf[p[1]] : p \in
                                 {x \in fired : x[2] = "interrupt_gate"}}]

\* process_violations.  A pulse that is active already is not fired again, and an
\* armed breaker rejects the whole list.
Process(s, V) ==
  LET window == Counted(s, V)
      armed  == s.armed \/ Len(window) >= Threshold
      fired  == Pulses(V) \ s.active
  IN IF armed THEN [s EXCEPT !.window = window, !.armed = TRUE]
     ELSE [s EXCEPT !.window = window,
             !.active = @ \cup fired,
             !.restricted = @ \cup {ActorOf[p[1]] : p \in
                                      {x \in fired : x[2] = "interrupt_gate"}}]

\* _execute_reroute: the obligations created for the reroute pulses fired.
NewReroutes(s, V) ==
  IF Process(s, V).armed THEN {}
  ELSE {RerouteOf[p[1]] : p \in {x \in Pulses(V) \ s.active : x[2] = "reroute_escalate"}}
         \ {NoOb}

CreateAll(S) ==
  status' = [o \in Obs |-> IF o \in S /\ status[o] = "ABSENT" THEN "PENDING"
                           ELSE status[o]]

\* Mutant: the obligation's status is not looked at.
RestorableAny(s) == {p \in s.active : p[2] = "interrupt_gate"}

\* scan_restorations: the interrupt pulses whose obligation is not open any more.
Restorable(s) == {p \in s.active : p[2] = "interrupt_gate" /\ ~Open(p[1])}

\* Mutant: the pulse is resolved and the restriction is forgotten.
ScanRestorationsHalf(s) == [s EXCEPT !.active = @ \ Restorable(s)]

ScanRestorations(s) ==
  [s EXCEPT !.active = @ \ Restorable(s),
            !.restricted = @ \ {ActorOf[p[1]] : p \in Restorable(s)}]

\* resolve_for_actor: every pulse of the obligation, and the actor's restriction.
ResolveForActor(s, o) ==
  [s EXCEPT !.active = @ \ {<<o, l>> : l \in Levels},
            !.restricted = @ \ {ActorOf[o]}]

\* auto_reset_circuit_breakers: every pulse of a restricted actor.
AutoResetActor(s, a) ==
  [s EXCEPT !.active = {p \in @ : ActorOf[p[1]] # a}, !.restricted = @ \ {a}]

IsReroute(o) == \E p \in Obs : RerouteOf[p] = o

-------------------------------------------------------------------------------
Init ==
  /\ LifecycleInit
  /\ now = 0
  /\ scanning = FALSE
  /\ batch = {}
  /\ iv = NoIntervention

Tick ==
  /\ now < MaxTime
  /\ now' = now + 1
  /\ UNCHANGED <<status, viol, scanning, batch, iv>>

\* Obligations come from events, except the ids kept for reroutes.
CreateObligation(o) ==
  /\ ~scanning
  /\ ~IsReroute(o)
  /\ Create(o)
  /\ UNCHANGED <<now, scanning, batch, iv>>

ScanBegin ==
  /\ ~scanning
  /\ scanning' = TRUE
  /\ UNCHANGED <<status, viol, now, batch, iv>>

\* A reroute's obligation has no hard_overdue_secs and never becomes hard overdue.
ScanAge(o) ==
  /\ scanning
  /\ BecomeSoft(o) \/ (~IsReroute(o) /\ BecomeHard(o))
  /\ UNCHANGED <<now, scanning, batch, iv>>

ScanRaise(o) ==
  /\ scanning
  /\ Raise(o)
  /\ batch' = batch \cup {<<o, IF status[o] = "HARD_OVERDUE" THEN "hard_overdue"
                                ELSE "soft_overdue">>}
  /\ UNCHANGED <<now, scanning, iv>>

\* _escalate and update_violation: BecomeEscalated, then MarkEscalated.
ScanEscalate(o) ==
  /\ scanning
  /\ Reported(o)
  /\ status[o] \in {"SOFT_OVERDUE", "HARD_OVERDUE"}
  /\ status' = [status EXCEPT ![o] = "ESCALATED"]
  /\ viol' = [viol EXCEPT ![o].escalated = TRUE]
  /\ UNCHANGED <<now, scanning, batch, iv>>

\* The scan of the hook's engine: its wrapper forwards the violations it returns.
ScanForward ==
  /\ scanning
  /\ scanning' = FALSE /\ batch' = {}
  /\ IF batch = {} THEN iv' = iv ELSE iv' = Process(iv, batch)
  /\ IF batch = {} THEN UNCHANGED status ELSE CreateAll(NewReroutes(iv, batch))
  /\ UNCHANGED <<viol, now>>

\* The orchestrator's cycle calls the wrapped scan, forwards the violations once
\* more and then scans for restorations.
Orchestrated(s, V) ==
  ScanRestorations(IF V = {} THEN s ELSE Process(Process(s, V), V))

OrchestratorForward ==
  /\ scanning
  /\ scanning' = FALSE /\ batch' = {}
  /\ iv' = Orchestrated(iv, batch)
  /\ IF batch = {} THEN UNCHANGED status ELSE CreateAll(NewReroutes(iv, batch))
  /\ UNCHANGED <<viol, now>>

\* Mutant: only soft overdue obligations get a synthetic violation.
SyntheticSoft ==
  {<<o, "soft_overdue">> : o \in {x \in Obs : status[x] = "SOFT_OVERDUE"}}

\* GovernanceLoop.tighten: scan_restorations, then a synthetic violation for
\* every soft or hard overdue obligation in the store.
Synthetic ==
  {<<o, "soft_overdue">> : o \in {x \in Obs : status[x] = "SOFT_OVERDUE"}} \cup
  {<<o, "hard_overdue">> : o \in {x \in Obs : status[x] = "HARD_OVERDUE"}}

Tightened(s) ==
  LET r == ScanRestorations(s)
  IN IF Synthetic = {} THEN r ELSE Process(r, Synthetic)

Tighten ==
  /\ ~scanning
  /\ iv' = Tightened(iv)
  /\ UNCHANGED <<status, viol, now, scanning, batch>>

\* _auto_feed_omission: ingest an event; what it fulfils is resolved.
AutoFeed(o) ==
  /\ ~scanning
  /\ Fulfil(o)
  /\ iv' = ResolveForActor(iv, o)
  /\ UNCHANGED <<now, scanning, batch>>

\* Any other way out of the ladder: another adapter's event, close, cancel,
\* restore.  The intervention engine is not told.
SettleElsewhere(o) ==
  /\ ~scanning
  /\ Settle(o)
  /\ UNCHANGED <<now, scanning, batch, iv>>

\* Evidence of an observable action of a restricted actor.
AutoReset(a) ==
  /\ ~scanning
  /\ a \in iv.restricted
  /\ \E p \in iv.active : ActorOf[p[1]] = a
  /\ iv' = AutoResetActor(iv, a)
  /\ UNCHANGED <<status, viol, now, scanning, batch>>

\* reset_circuit_breaker, from the CLI.
ResetBreaker ==
  /\ ~scanning
  /\ iv' = [iv EXCEPT !.armed = FALSE, !.window = <<>>]
  /\ UNCHANGED <<status, viol, now, scanning, batch>>

\* The process dies, also in the middle of a scan, and comes back empty.
Restart ==
  /\ scanning' = FALSE /\ batch' = {} /\ iv' = NoIntervention
  /\ UNCHANGED <<status, viol, now>>

ScanStep == \E o \in Obs : ScanAge(o) \/ ScanRaise(o) \/ ScanEscalate(o)
ScanEnd == ScanForward \/ OrchestratorForward

Next ==
  \/ Tick \/ ScanBegin \/ ScanStep \/ ScanEnd \/ Tighten \/ ResetBreaker \/ Restart
  \/ \E o \in Obs : CreateObligation(o) \/ AutoFeed(o) \/ SettleElsewhere(o)
  \/ \E a \in Actors : AutoReset(a)

\* A running scan comes to its end, and the governance loop keeps its cadence.
Fairness == WF_vars(ScanEnd) /\ SF_vars(Tighten)

Spec == Init /\ [][Next]_vars /\ Fairness

-------------------------------------------------------------------------------
(* Properties.                                                                  *)

(* No actor is restricted without an active gate that says why: whatever lifts  *)
(* an actor's last gate (resolve_for_actor, scan_restorations, auto-reset) lifts *)
(* its restriction with it.                                                     *)
RestrictionBacked == \A a \in iv.restricted : Gated(iv, a)

(* While an obligation is open, only an auto-reset on evidence or the death of  *)
(* the process lifts the gate it put on its actor.                              *)
GateHeldWhileOpen ==
  [][\A o \in Obs :
       /\ <<o, "interrupt_gate">> \in iv.active \ iv'.active
       /\ status'[o] \in {"PENDING", "SOFT_OVERDUE", "HARD_OVERDUE"}
       => Restart \/ AutoReset(ActorOf[o])]_vars

(* A gate or reroute pulse only exists for an obligation with a violation or an *)
(* overdue status that warrants it, also when the governance loop made up the   *)
(* violation it was fired for.                                                  *)
PulseWarranted ==
  \A p \in iv.active :
    /\ p[2] = "interrupt_gate" => status[p[1]] \notin {"ABSENT", "PENDING", "SOFT_OVERDUE"}
    /\ p[2] = "reroute_escalate" =>
         viol[p[1]].escalated /\ (RerouteOf[p[1]] # NoOb => status[RerouteOf[p[1]]] # "ABSENT")

(* An armed breaker generates no pulse: only reset_circuit_breaker or a restart *)
(* brings pulse generation back.                                                *)
ArmedStopsPulses == [][iv.armed /\ iv'.armed => iv'.active \subseteq iv.active]_vars

(* A hard-overdue obligation comes to be gated, also when its violation was     *)
(* lost by a crash between scan and process_violations or suppressed because    *)
(* the entity was dormant: the governance loop fires what is missing, unless    *)
(* the breaker is armed.                                                        *)
HardIsGated ==
  \A o \in Obs :
    status[o] = "HARD_OVERDUE" ~>
      \/ <<o, "interrupt_gate">> \in iv.active
      \/ status[o] # "HARD_OVERDUE"
      \/ iv.armed

=============================================================================
