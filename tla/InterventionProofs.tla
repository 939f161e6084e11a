-------------------------- MODULE InterventionProofs --------------------------
(* Theorems of Intervention, for any obligations, actors, threshold and window. *)
EXTENDS Intervention, TLAPS

\* A state s of the intervention engine restricts only actors it gates.
Backed(s) == \A a \in s.restricted : Gated(s, a)

\* The engine's state is a record of the four parts of NoIntervention.
Shaped(s) ==
  s = [active |-> s.active, restricted |-> s.restricted, window |-> s.window,
       armed |-> s.armed]

LEMMA BreakerParts ==
  ASSUME NEW s, Shaped(s), NEW window, NEW t,
         t = [s EXCEPT !.armed = FALSE, !.window = window]
  PROVE  Shaped(t) /\ t.active = s.active /\ t.restricted = s.restricted
BY DEF Shaped

LEMMA ProcessParts ==
  ASSUME NEW s, Shaped(s), NEW V
  PROVE  /\ Shaped(Process(s, V))
         /\ Process(s, V).armed =>
              /\ Process(s, V).active = s.active
              /\ Process(s, V).restricted = s.restricted
         /\ ~Process(s, V).armed =>
              LET fired == Pulses(V) \ s.active
              IN  /\ ~s.armed
                  /\ Process(s, V).active = s.active \cup fired
                  /\ Process(s, V).restricted =
                       s.restricted \cup {ActorOf[p[1]] : p \in
                                            {x \in fired : x[2] = "interrupt_gate"}}
<1> DEFINE window == Counted(s, V)
           full == Len(window) >= Threshold
           fired == Pulses(V) \ s.active
           gated == {ActorOf[p[1]] : p \in {x \in fired : x[2] = "interrupt_gate"}}
<1>1. CASE s.armed \/ full
  <2>1. Process(s, V) = [s EXCEPT !.window = window, !.armed = TRUE]
    BY <1>1 DEF Process
  <2> HIDE DEF window, full
  <2> QED BY <2>1 DEF Shaped
<1>2. CASE ~(s.armed \/ full)
  <2>1. Process(s, V) = [s EXCEPT !.window = window, !.active = @ \cup fired,
                                  !.restricted = @ \cup gated]
    BY <1>2 DEF Process
  <2>2. ~s.armed
    BY <1>2
  <2> HIDE DEF window, full, fired, gated
  <2>3. /\ Shaped(Process(s, V)) /\ ~Process(s, V).armed
        /\ Process(s, V).active = s.active \cup fired
        /\ Process(s, V).restricted = s.restricted \cup gated
    BY <2>1, <2>2 DEF Shaped
  <2> QED BY <2>2, <2>3 DEF fired, gated
<1> QED BY <1>1, <1>2

LEMMA ScanRestorationsParts ==
  ASSUME NEW s, Shaped(s)
  PROVE  LET t == ScanRestorations(s)
         IN  /\ Shaped(t)
             /\ t.active = s.active \ Restorable(s)
             /\ t.restricted = s.restricted \ {ActorOf[p[1]] : p \in Restorable(s)}
             /\ t.armed = s.armed
<1> DEFINE gone == Restorable(s)
           actors == {ActorOf[p[1]] : p \in Restorable(s)}
<1>1. ScanRestorations(s) = [s EXCEPT !.active = @ \ gone, !.restricted = @ \ actors]
  BY DEF ScanRestorations
<1> HIDE DEF gone, actors
<1>2. /\ Shaped(ScanRestorations(s)) /\ ScanRestorations(s).armed = s.armed
      /\ ScanRestorations(s).active = s.active \ gone
      /\ ScanRestorations(s).restricted = s.restricted \ actors
  BY <1>1 DEF Shaped
<1> QED BY <1>2 DEF gone, actors

LEMMA ProcessBacked ==
  ASSUME NEW s, Shaped(s), Backed(s), NEW V, V \subseteq Obs \X Stages
  PROVE  Backed(Process(s, V)) /\ Shaped(Process(s, V))
<1>1. CASE Process(s, V).armed
  BY <1>1, ProcessParts DEF Backed, Gated
<1>2. CASE ~Process(s, V).armed
  <2> DEFINE fired == Pulses(V) \ s.active
  <2>1. ASSUME NEW p \in fired, p[2] = "interrupt_gate"
        PROVE  Gated(Process(s, V), ActorOf[p[1]])
    <3>1. p[1] \in Obs /\ p = <<p[1], "interrupt_gate">>
      BY <2>1 DEF Pulses, Rerouted, Stages
    <3> QED BY <1>2, <3>1, ProcessParts DEF Gated
  <2> QED BY <1>2, <2>1, ProcessParts DEF Backed, Gated
<1> QED BY <1>1, <1>2, ProcessParts

LEMMA ScanRestorationsBacked ==
  ASSUME NEW s, Shaped(s), Backed(s), s.active \subseteq Obs \X Levels
  PROVE  Backed(ScanRestorations(s)) /\ Shaped(ScanRestorations(s))
<1>1. ASSUME NEW a \in s.restricted, a \notin {ActorOf[p[1]] : p \in Restorable(s)}
      PROVE  Gated(ScanRestorations(s), a)
  <2>1. PICK o \in Obs : <<o, "interrupt_gate">> \in s.active /\ ActorOf[o] = a
    BY DEF Backed, Gated
  <2>2. <<o, "interrupt_gate">> \notin Restorable(s)
    BY <1>1, <2>1
  <2> QED BY <2>1, <2>2, ScanRestorationsParts DEF Gated
<1> QED BY <1>1, ScanRestorationsParts DEF Backed

LEMMA ResolveBacked ==
  ASSUME NEW s, Shaped(s), Backed(s), NEW o \in Obs
  PROVE  LET t == ResolveForActor(s, o)
         IN  /\ Shaped(t) /\ Backed(t) /\ t.armed = s.armed
             /\ t.active = s.active \ {<<o, l>> : l \in Levels}
<1> DEFINE t == ResolveForActor(s, o)
           pulses == {<<o, l>> : l \in Levels}
<1>1. t = [s EXCEPT !.active = @ \ pulses, !.restricted = @ \ {ActorOf[o]}]
  BY DEF ResolveForActor
<1>2. \A p \in Obs \ {o} : <<p, "interrupt_gate">> \notin pulses
  OBVIOUS
<1> HIDE DEF pulses
<1>3. /\ Shaped(t) /\ t.armed = s.armed /\ t.active = s.active \ pulses
      /\ t.restricted = s.restricted \ {ActorOf[o]}
  BY <1>1 DEF Shaped
<1>4. Backed(t)
  BY <1>2, <1>3 DEF Backed, Gated
<1> QED BY <1>3, <1>4 DEF pulses

LEMMA AutoResetBacked ==
  ASSUME NEW s, Shaped(s), Backed(s), NEW a \in Actors
  PROVE  LET t == AutoResetActor(s, a)
         IN  /\ Shaped(t) /\ Backed(t) /\ t.armed = s.armed
             /\ t.active = {p \in s.active : ActorOf[p[1]] # a}
<1> DEFINE t == AutoResetActor(s, a)
           kept == {p \in s.active : ActorOf[p[1]] # a}
<1>1. t = [s EXCEPT !.active = kept, !.restricted = @ \ {a}]
  BY DEF AutoResetActor
<1>2. \A o \in Obs : <<o, "interrupt_gate">> \in s.active /\ ActorOf[o] # a
                     => <<o, "interrupt_gate">> \in kept
  OBVIOUS
<1> HIDE DEF kept
<1>3. /\ Shaped(t) /\ t.armed = s.armed /\ t.active = kept
      /\ t.restricted = s.restricted \ {a}
  BY <1>1 DEF Shaped
<1>4. Backed(t)
  BY <1>2, <1>3 DEF Backed, Gated
<1> QED BY <1>3, <1>4 DEF kept

-------------------------------------------------------------------------------
(* The inductive invariant: backed restrictions, and the types they rest on.    *)

BackedInv ==
  /\ Shaped(iv) /\ Backed(iv)
  /\ iv.active \subseteq Obs \X Levels
  /\ batch \subseteq Obs \X Stages

LEMMA PulsesType ==
  ASSUME NEW V, V \subseteq Obs \X Stages
  PROVE  Pulses(V) \subseteq Obs \X Levels
BY DEF Pulses, Rerouted, Stages, Levels

LEMMA ProcessActive ==
  ASSUME NEW s, Shaped(s), s.active \subseteq Obs \X Levels, NEW V, V \subseteq Obs \X Stages
  PROVE  Process(s, V).active \subseteq Obs \X Levels
BY PulsesType, ProcessParts

LEMMA SyntheticType == Synthetic \subseteq Obs \X Stages
BY DEF Synthetic, Stages

LEMMA BackedStep == BackedInv /\ [Next]_vars => BackedInv'
<1> SUFFICES ASSUME BackedInv, [Next]_vars PROVE BackedInv'
  OBVIOUS
<1>0. Shaped(iv) /\ Backed(iv) /\ iv.active \subseteq Obs \X Levels
      /\ batch \subseteq Obs \X Stages
  BY DEF BackedInv
<1>1. ASSUME iv' = iv, batch' \subseteq Obs \X Stages PROVE BackedInv'
  BY <1>0, <1>1 DEF BackedInv, Shaped, Backed, Gated
<1>2. ASSUME NEW t, iv' = t, Shaped(t), Backed(t), t.active \subseteq Obs \X Levels,
             batch' \in {{}, batch}
      PROVE  BackedInv'
  BY <1>0, <1>2 DEF BackedInv, Shaped, Backed, Gated
<1>3. Backed(NoIntervention) /\ Shaped(NoIntervention) /\ NoIntervention.active = {}
  BY DEF NoIntervention, Backed, Shaped
<1>4. CASE ScanStep
  <2>1. ASSUME NEW o \in Obs, ScanRaise(o) PROVE BackedInv'
    BY <1>0, <1>1, <2>1 DEF ScanRaise, Stages
  <2> QED BY <1>0, <1>1, <1>4, <2>1 DEF ScanStep, ScanAge, ScanEscalate
<1>5. CASE ScanForward
  <2>1. CASE batch = {}
    BY <1>1, <1>5, <2>1 DEF ScanForward
  <2>2. CASE batch # {}
    <3> DEFINE t == Process(iv, batch)
    <3>1. Shaped(t) /\ Backed(t) /\ t.active \subseteq Obs \X Levels
      BY <1>0, ProcessBacked, ProcessActive
    <3>2. iv' = t /\ batch' = {}
      BY <1>5, <2>2 DEF ScanForward
    <3> HIDE DEF t
    <3> QED BY <1>2, <3>1, <3>2
  <2> QED BY <2>1, <2>2
<1>6. CASE OrchestratorForward
  <2> DEFINE s == IF batch = {} THEN iv ELSE Process(Process(iv, batch), batch)
  <2>1. Shaped(s) /\ Backed(s) /\ s.active \subseteq Obs \X Levels
    BY <1>0, ProcessBacked, ProcessActive
  <2>2. iv' = ScanRestorations(s) /\ batch' = {}
    BY <1>6 DEF OrchestratorForward, Orchestrated
  <2> HIDE DEF s
  <2>3. Shaped(iv') /\ Backed(ScanRestorations(s)) /\ iv'.active \subseteq Obs \X Levels
    BY <2>1, <2>2, ScanRestorationsBacked, ScanRestorationsParts
  <2> QED BY <1>2, <2>2, <2>3
<1>7. CASE Tighten
  <2> DEFINE r == ScanRestorations(iv)
  <2>1. Shaped(r) /\ Backed(r) /\ r.active \subseteq Obs \X Levels
    BY <1>0, ScanRestorationsBacked, ScanRestorationsParts
  <2>2. iv' = (IF Synthetic = {} THEN r ELSE Process(r, Synthetic)) /\ batch' = batch
    BY <1>7 DEF Tighten, Tightened
  <2> HIDE DEF r
  <2> QED BY <1>2, <2>1, <2>2, ProcessBacked, ProcessActive, SyntheticType
<1>8. ASSUME NEW o \in Obs, AutoFeed(o) PROVE BackedInv'
  BY <1>0, <1>2, <1>8, ResolveBacked DEF AutoFeed
<1>9. ASSUME NEW a \in Actors, AutoReset(a) PROVE BackedInv'
  BY <1>0, <1>2, <1>9, AutoResetBacked DEF AutoReset
<1>10. CASE ResetBreaker
  <2> DEFINE t == [iv EXCEPT !.armed = FALSE, !.window = <<>>]
  <2>1. Shaped(t) /\ t.active = iv.active /\ t.restricted = iv.restricted
    BY <1>0, BreakerParts
  <2>2. iv' = t /\ batch' = batch
    BY <1>10 DEF ResetBreaker
  <2> HIDE DEF t
  <2>3. Backed(t)
    BY <1>0, <2>1 DEF Backed, Gated
  <2> QED BY <1>0, <1>2, <2>1, <2>2, <2>3
<1>11. CASE Restart
  BY <1>2, <1>3, <1>11 DEF Restart
<1> QED BY <1>0, <1>1, <1>4, <1>5, <1>6, <1>7, <1>8, <1>9, <1>10, <1>11
        DEF Next, ScanEnd, Tick, ScanBegin, CreateObligation, SettleElsewhere, vars

(* Nobody stays restricted without an active gate that says why.                *)
THEOREM RestrictionsAreBacked == Spec => []RestrictionBacked
<1>1. Init => BackedInv
  BY DEF Init, NoIntervention, BackedInv, Shaped, Backed
<1>2. BackedInv => RestrictionBacked
  BY DEF BackedInv, Backed, RestrictionBacked
<1> QED BY <1>1, <1>2, BackedStep, PTL DEF Spec

-------------------------------------------------------------------------------
(* An armed breaker.                                                            *)

LEMMA ArmedProcess ==
  ASSUME NEW s, Shaped(s), NEW V
  PROVE  /\ Process(s, V).armed => Process(s, V).active = s.active
         /\ s.armed => Process(s, V).armed
BY ProcessParts

LEMMA ArmedStep ==
  ASSUME BackedInv, [Next]_vars, iv.armed, iv'.armed
  PROVE  iv'.active \subseteq iv.active
<1>0. Shaped(iv) /\ Backed(iv)
  BY DEF BackedInv
<1>1. CASE ScanForward
  BY <1>0, <1>1, ArmedProcess DEF ScanForward
<1>2. CASE OrchestratorForward
  <2> DEFINE s == IF batch = {} THEN iv ELSE Process(Process(iv, batch), batch)
  <2>1. Shaped(s) /\ s.active = iv.active
    BY <1>0, ArmedProcess, ProcessParts
  <2>2. iv' = ScanRestorations(s)
    BY <1>2 DEF OrchestratorForward, Orchestrated
  <2> HIDE DEF s
  <2> QED BY <2>1, <2>2, ScanRestorationsParts
<1>3. CASE Tighten
  <2> DEFINE r == ScanRestorations(iv)
  <2>1. Shaped(r) /\ r.active \subseteq iv.active /\ r.armed
    BY <1>0, ScanRestorationsParts
  <2>2. iv' = (IF Synthetic = {} THEN r ELSE Process(r, Synthetic))
    BY <1>3 DEF Tighten, Tightened
  <2> HIDE DEF r
  <2> QED BY <2>1, <2>2, ArmedProcess
<1>4. ASSUME NEW o \in Obs, AutoFeed(o) PROVE iv'.active \subseteq iv.active
  BY <1>0, <1>4, ResolveBacked DEF AutoFeed
<1>5. ASSUME NEW a \in Actors, AutoReset(a) PROVE iv'.active \subseteq iv.active
  BY <1>0, <1>5, AutoResetBacked DEF AutoReset
<1>6. CASE ResetBreaker
  BY <1>0, <1>6, BreakerParts DEF ResetBreaker
<1>7. CASE Restart
  BY <1>7 DEF Restart, NoIntervention
<1> QED BY <1>1, <1>2, <1>3, <1>4, <1>5, <1>6, <1>7
        DEF Next, ScanStep, ScanEnd, ScanAge, ScanRaise, ScanEscalate, Tick, ScanBegin,
            CreateObligation, SettleElsewhere, vars

(* While the breaker stays armed no pulse is added.                             *)
THEOREM BreakerStopsPulses == Spec => ArmedStopsPulses
<1>1. Init => BackedInv
  BY DEF Init, NoIntervention, BackedInv, Shaped, Backed
<1>2. BackedInv /\ [Next]_vars => [iv.armed /\ iv'.armed => iv'.active \subseteq iv.active]_vars
  BY ArmedStep
<1> QED BY <1>1, <1>2, BackedStep, PTL DEF Spec, ArmedStopsPulses

-------------------------------------------------------------------------------
(* What pulses are fired for.  PulseWarranted alone is not inductive: a scan     *)
(* keeps the violations it will forward in batch, and a reroute pulse rests on  *)
(* escalated obligations never being soft or hard overdue again.                *)

Early == {"ABSENT", "PENDING", "SOFT_OVERDUE"}

EscalatedLeft == \A o \in Obs : viol[o].escalated => status[o] \notin Early \cup {"HARD_OVERDUE"}

BatchWarranted == \A v \in batch : v[2] = "hard_overdue" => status[v[1]] \notin Early

WarrantInv ==
  BackedInv /\ LifecycleTypeOK /\ PulseWarranted /\ EscalatedLeft /\ BatchWarranted

\* No step takes an obligation back.
NeverBack ==
  \A o \in Obs :
    /\ status[o] \notin Early => status'[o] \notin Early
    /\ status[o] \notin Early \cup {"HARD_OVERDUE"} =>
         status'[o] \notin Early \cup {"HARD_OVERDUE"}
    /\ status[o] # "ABSENT" => status'[o] # "ABSENT"
    /\ viol[o].escalated => viol'[o].escalated
    /\ viol'[o].escalated =>
         viol[o].escalated \/ status'[o] \notin Early \cup {"HARD_OVERDUE"}

LEMMA MoveForward ==
  ASSUME LifecycleTypeOK, NEW o \in Obs,
         Create(o) \/ BecomeSoft(o) \/ BecomeHard(o) \/ Settle(o)
  PROVE  LifecycleTypeOK' /\ NeverBack
<1>1. PICK from \in SUBSET Statuses, to \in Statuses :
        /\ Move(o, from, to)
        /\ \/ to = "PENDING" /\ from = {"ABSENT"}
           \/ to = "SOFT_OVERDUE" /\ from = {"PENDING"}
           \/ to = "HARD_OVERDUE" /\ from = {"SOFT_OVERDUE"}
           \/ to \in {"FULFILLED", "RESTORED", "CANCELLED"}
  BY DEF Create, BecomeSoft, BecomeHard, Settle, Fulfil, Close, Restore, Cancel, Void, Statuses
<1>2. viol' = viol /\ status' = [status EXCEPT ![o] = to] /\ status[o] \in from
  BY <1>1 DEF Move
<1> QED BY <1>1, <1>2 DEF LifecycleTypeOK, NeverBack, Early

LEMMA ViolationsKept ==
  ASSUME LifecycleTypeOK, NEW o \in Obs, Raise(o) \/ MarkEscalated(o)
  PROVE  LifecycleTypeOK' /\ NeverBack
<1> DEFINE Row == [soft: Nat, hard: Nat, escalated: BOOLEAN]
<1>1. \A p \in Obs : viol[p] \in Row
  BY DEF LifecycleTypeOK
<1>2. /\ [viol[o] EXCEPT !.soft = 1] \in Row /\ [viol[o] EXCEPT !.hard = 1] \in Row
      /\ [viol[o] EXCEPT !.escalated = TRUE] \in Row
      /\ [viol[o] EXCEPT !.soft = 1].escalated = viol[o].escalated
      /\ [viol[o] EXCEPT !.hard = 1].escalated = viol[o].escalated
  BY <1>1
<1>3. /\ viol' \in [Obs -> Row] /\ status' = status
      /\ \A p \in Obs : /\ viol[p].escalated => viol'[p].escalated
                        /\ viol'[p].escalated => viol[p].escalated \/ status[p] = "ESCALATED"
  <2> HIDE DEF Row
  <2> QED BY <1>1, <1>2 DEF Raise, RaiseSoft, RaiseHard, MarkEscalated, LifecycleTypeOK
<1> QED BY <1>3 DEF LifecycleTypeOK, NeverBack, Early

\* Pulses fired for a warranted list V are warranted, once the reroutes exist.
LEMMA PulsesWarranted ==
  ASSUME NEW V, V \subseteq Obs \X Stages,
         \A v \in V : v[2] = "hard_overdue" => status[v[1]] \notin Early,
         NEW p \in Pulses(V)
  PROVE  /\ p[1] \in Obs
         /\ p[2] = "interrupt_gate" => status[p[1]] \notin Early
         /\ p[2] = "reroute_escalate" => viol[p[1]].escalated
BY DEF Pulses, Rerouted, Stages

LEMMA SyntheticNotEscalated ==
  ASSUME EscalatedLeft
  PROVE  /\ Rerouted(Synthetic) = {}
         /\ \A v \in Synthetic : v[2] = "hard_overdue" => status[v[1]] \notin Early
BY DEF EscalatedLeft, Rerouted, Synthetic, Early

\* Pulses kept from before, with the store moving forward only.
LEMMA KeptWarranted ==
  ASSUME WarrantInv, NeverBack, NEW p \in iv.active
  PROVE  /\ p[2] = "interrupt_gate" => status'[p[1]] \notin Early
         /\ p[2] = "reroute_escalate" =>
              /\ viol'[p[1]].escalated
              /\ RerouteOf[p[1]] # NoOb => status'[RerouteOf[p[1]]] # "ABSENT"
<1>1. p[1] \in Obs
  BY DEF WarrantInv, BackedInv
<1>2. RerouteOf[p[1]] # NoOb => RerouteOf[p[1]] \in Obs
  BY <1>1, InterventionAssumption
<1> QED BY <1>1, <1>2 DEF WarrantInv, PulseWarranted, NeverBack, Early

LEMMA ForwardWarranted ==
  ASSUME WarrantInv, NeverBack,
         \A p \in iv'.active \ iv.active :
           /\ p[2] = "interrupt_gate" => status'[p[1]] \notin Early
           /\ p[2] = "reroute_escalate" =>
                /\ viol'[p[1]].escalated
                /\ RerouteOf[p[1]] # NoOb => status'[RerouteOf[p[1]]] # "ABSENT"
  PROVE  PulseWarranted' /\ EscalatedLeft'
<1>1. PulseWarranted'
  BY KeptWarranted DEF PulseWarranted, Early
<1>2. EscalatedLeft'
  BY DEF WarrantInv, EscalatedLeft, NeverBack
<1> QED BY <1>1, <1>2

LEMMA CreateAllForward ==
  ASSUME LifecycleTypeOK, NEW S, CreateAll(S), viol' = viol
  PROVE  LifecycleTypeOK' /\ NeverBack
BY DEF CreateAll, LifecycleTypeOK, NeverBack, Early, Statuses

LEMMA QuietForward ==
  ASSUME LifecycleTypeOK, UNCHANGED <<status, viol>>
  PROVE  LifecycleTypeOK' /\ NeverBack
BY DEF LifecycleTypeOK, NeverBack

\* What forwarding a scan's violations adds to the active pulses.
LEMMA ScanEndPulses ==
  ASSUME WarrantInv, ScanEnd, NEW p \in iv'.active \ iv.active
  PROVE  /\ batch # {} /\ ~Process(iv, batch).armed
         /\ p \in Pulses(batch) \ iv.active
<1>0. Shaped(iv) /\ Backed(iv)
  BY DEF WarrantInv, BackedInv
<1>1. CASE ScanForward
  BY <1>0, <1>1, ProcessParts DEF ScanForward
<1>2. CASE OrchestratorForward
  <2> DEFINE once == Process(iv, batch)
             twice == Process(once, batch)
             s == IF batch = {} THEN iv ELSE twice
  <2>1. Shaped(once) /\ Shaped(twice)
    BY <1>0, ProcessParts
  <2>2. p \in s.active
    <3>1. iv' = ScanRestorations(s) /\ Shaped(s)
      BY <1>0, <1>2, <2>1 DEF OrchestratorForward, Orchestrated
    <3> HIDE DEF s
    <3> QED BY <3>1, ScanRestorationsParts
  <2>3. batch # {} /\ p \in twice.active
    BY <2>2
  <2>4. CASE once.armed
    BY <1>0, <2>1, <2>3, <2>4, ProcessParts
  <2>5. CASE ~once.armed
    <3>1. once.active = iv.active \cup (Pulses(batch) \ iv.active)
      BY <1>0, <2>5, ProcessParts
    <3>2. twice.active \subseteq once.active \cup Pulses(batch)
      BY <2>1, ProcessParts
    <3> QED BY <2>3, <2>5, <3>1, <3>2
  <2> QED BY <2>4, <2>5
<1> QED BY <1>1, <1>2 DEF ScanEnd

LEMMA ScanEndStep ==
  ASSUME WarrantInv, ScanEnd
  PROVE  LifecycleTypeOK' /\ PulseWarranted' /\ EscalatedLeft' /\ BatchWarranted' /\ NeverBack
<1>1. viol' = viol /\ batch' = {}
      /\ IF batch = {} THEN UNCHANGED status ELSE CreateAll(NewReroutes(iv, batch))
  BY DEF ScanEnd, ScanForward, OrchestratorForward
<1>2. LifecycleTypeOK' /\ NeverBack
  BY <1>1, CreateAllForward, QuietForward DEF WarrantInv
<1>3. ASSUME NEW p \in iv'.active \ iv.active
      PROVE  /\ p[2] = "interrupt_gate" => status'[p[1]] \notin Early
             /\ p[2] = "reroute_escalate" =>
                  /\ viol'[p[1]].escalated
                  /\ RerouteOf[p[1]] # NoOb => status'[RerouteOf[p[1]]] # "ABSENT"
  <2>1. batch # {} /\ ~Process(iv, batch).armed /\ p \in Pulses(batch) \ iv.active
    BY ScanEndPulses
  <2>2. /\ p[1] \in Obs
        /\ p[2] = "interrupt_gate" => status[p[1]] \notin Early
        /\ p[2] = "reroute_escalate" => viol[p[1]].escalated
    BY <2>1, PulsesWarranted DEF WarrantInv, BackedInv, BatchWarranted
  <2>3. ASSUME p[2] = "reroute_escalate", RerouteOf[p[1]] # NoOb
        PROVE  status'[RerouteOf[p[1]]] # "ABSENT"
    <3>1. RerouteOf[p[1]] \in NewReroutes(iv, batch) /\ RerouteOf[p[1]] \in Obs
      BY <2>1, <2>2, <2>3, InterventionAssumption DEF NewReroutes
    <3> QED BY <1>1, <2>1, <3>1 DEF CreateAll
  <2> QED BY <1>1, <1>2, <2>2, <2>3 DEF NeverBack
<1>4. BatchWarranted'
  BY <1>1 DEF BatchWarranted
<1> QED BY <1>2, <1>3, <1>4, ForwardWarranted

LEMMA TightenStep ==
  ASSUME WarrantInv, Tighten
  PROVE  PulseWarranted' /\ EscalatedLeft'
<1> DEFINE r == ScanRestorations(iv)
<1>1. Shaped(iv) /\ Shaped(r) /\ r.active \subseteq iv.active
  BY ScanRestorationsParts DEF WarrantInv, BackedInv
<1>2. iv' = (IF Synthetic = {} THEN r ELSE Process(r, Synthetic))
      /\ status' = status /\ viol' = viol
  BY DEF Tighten, Tightened
<1> HIDE DEF r
<1>3. NeverBack
  BY <1>2, QuietForward DEF WarrantInv
<1>4. iv'.active \subseteq iv.active \cup Pulses(Synthetic)
  BY <1>1, <1>2, ProcessParts
<1>5. ASSUME NEW p \in Pulses(Synthetic)
      PROVE  /\ p[2] = "interrupt_gate" => status[p[1]] \notin Early
             /\ p[2] # "reroute_escalate"
  BY SyntheticNotEscalated, SyntheticType, PulsesWarranted DEF WarrantInv, Pulses
<1> QED BY <1>2, <1>3, <1>4, <1>5, ForwardWarranted

LEMMA WarrantStep == WarrantInv /\ [Next]_vars => WarrantInv'
<1> SUFFICES ASSUME WarrantInv, [Next]_vars
             PROVE  LifecycleTypeOK' /\ PulseWarranted' /\ EscalatedLeft' /\ BatchWarranted'
  BY BackedStep DEF WarrantInv
<1>0. LifecycleTypeOK /\ BatchWarranted /\ BackedInv /\ Shaped(iv) /\ Backed(iv)
      /\ batch \subseteq Obs \X Stages
  BY DEF WarrantInv, BackedInv
<1>1. ASSUME LifecycleTypeOK', NeverBack, iv'.active \subseteq iv.active, batch' \in {{}, batch}
      PROVE  LifecycleTypeOK' /\ PulseWarranted' /\ EscalatedLeft' /\ BatchWarranted'
  <2>1. BatchWarranted'
    BY <1>0, <1>1 DEF BatchWarranted, NeverBack
  <2> QED BY <1>1, <2>1, ForwardWarranted
<1>2. CASE UNCHANGED <<status, viol, batch>> /\ iv'.active \subseteq iv.active
  BY <1>0, <1>1, <1>2, QuietForward
<1>3. ASSUME NEW o \in Obs, ScanAge(o) \/ CreateObligation(o) \/ SettleElsewhere(o)
      PROVE  LifecycleTypeOK' /\ PulseWarranted' /\ EscalatedLeft' /\ BatchWarranted'
  BY <1>0, <1>1, <1>3, MoveForward DEF ScanAge, CreateObligation, SettleElsewhere
<1>4. ASSUME NEW o \in Obs, ScanRaise(o)
      PROVE  LifecycleTypeOK' /\ PulseWarranted' /\ EscalatedLeft' /\ BatchWarranted'
  <2>1. LifecycleTypeOK' /\ NeverBack
    BY <1>0, <1>4, ViolationsKept DEF ScanRaise
  <2>2. iv' = iv /\ status' = status /\
        batch' = batch \cup {<<o, IF status[o] = "HARD_OVERDUE" THEN "hard_overdue"
                                 ELSE "soft_overdue">>}
    BY <1>4 DEF ScanRaise, Raise, RaiseSoft, RaiseHard
  <2>3. BatchWarranted'
    BY <1>0, <2>2 DEF BatchWarranted, Early
  <2> QED BY <2>1, <2>2, <2>3, ForwardWarranted
<1>5. ASSUME NEW o \in Obs, ScanEscalate(o)
      PROVE  LifecycleTypeOK' /\ PulseWarranted' /\ EscalatedLeft' /\ BatchWarranted'
  <2> DEFINE Row == [soft: Nat, hard: Nat, escalated: BOOLEAN]
             row == [viol[o] EXCEPT !.escalated = TRUE]
  <2>1. viol \in [Obs -> Row] /\ row \in Row
    BY <1>0 DEF LifecycleTypeOK
  <2>2. viol' = [viol EXCEPT ![o] = row] /\ status' = [status EXCEPT ![o] = "ESCALATED"]
        /\ iv' = iv /\ batch' = batch
    BY <1>5 DEF ScanEscalate
  <2>3. viol' \in [Obs -> Row] /\ \A p \in Obs \ {o} : viol'[p] = viol[p]
    <3> HIDE DEF Row, row
    <3> QED BY <2>1, <2>2
  <2>4. viol'[o].escalated
    BY <2>1, <2>2
  <2>5. LifecycleTypeOK' /\ NeverBack
    BY <1>0, <2>2, <2>3, <2>4 DEF LifecycleTypeOK, NeverBack, Statuses, Early
  <2> QED BY <1>1, <2>2, <2>5
<1>6. CASE ScanEnd
  BY <1>6, ScanEndStep
<1>7. CASE Tighten
  BY <1>0, <1>7, TightenStep, QuietForward DEF Tighten, BatchWarranted
<1>8. ASSUME NEW o \in Obs, AutoFeed(o)
      PROVE  LifecycleTypeOK' /\ PulseWarranted' /\ EscalatedLeft' /\ BatchWarranted'
  <2>1. LifecycleTypeOK' /\ NeverBack
    BY <1>0, <1>8, MoveForward DEF AutoFeed, Settle
  <2>2. iv'.active \subseteq iv.active /\ batch' = batch
    BY <1>0, <1>8, ResolveBacked DEF AutoFeed
  <2> QED BY <1>1, <2>1, <2>2
<1>9. ASSUME NEW a \in Actors, AutoReset(a)
      PROVE  UNCHANGED <<status, viol, batch>> /\ iv'.active \subseteq iv.active
  BY <1>0, <1>9, AutoResetBacked DEF AutoReset
<1>10. CASE ResetBreaker
  BY <1>0, <1>2, <1>10, BreakerParts DEF ResetBreaker
<1>11. CASE Restart
  BY <1>0, <1>1, <1>11, QuietForward DEF Restart, NoIntervention
<1>12. CASE Tick \/ ScanBegin \/ UNCHANGED vars
  BY <1>2, <1>12 DEF Tick, ScanBegin, vars
<1> QED BY <1>2, <1>3, <1>4, <1>5, <1>6, <1>7, <1>8, <1>9, <1>10, <1>11, <1>12
        DEF Next, ScanStep

LEMMA WarrantInit == Init => WarrantInv
BY DEF Init, NoIntervention, WarrantInv, BackedInv, Shaped, Backed, LifecycleInit,
       LifecycleTypeOK, Statuses, PulseWarranted, EscalatedLeft, BatchWarranted

(* No gate or reroute is ever fired for an obligation that does not warrant it. *)
THEOREM PulsesAreWarranted == Spec => []PulseWarranted
<1>1. WarrantInv => PulseWarranted
  BY DEF WarrantInv
<1> QED BY <1>1, WarrantInit, WarrantStep, PTL DEF Spec

-------------------------------------------------------------------------------
LEMMA GateHeldStep ==
  ASSUME WarrantInv, Next, NEW o \in Obs,
         <<o, "interrupt_gate">> \in iv.active \ iv'.active,
         status'[o] \in {"PENDING", "SOFT_OVERDUE", "HARD_OVERDUE"}
  PROVE  Restart \/ AutoReset(ActorOf[o])
<1> DEFINE gate == <<o, "interrupt_gate">>
<1>0. Shaped(iv) /\ Backed(iv) /\ status[o] \notin Early
  BY DEF WarrantInv, BackedInv, PulseWarranted, Early
<1>1. ASSUME status[o] = "HARD_OVERDUE", NEW s, Shaped(s), gate \in s.active
      PROVE  gate \in ScanRestorations(s).active
  BY <1>1, ScanRestorationsParts DEF Restorable, Open
<1>2. ASSUME CreateAll(NewReroutes(iv, batch)) \/ UNCHANGED status
      PROVE  status[o] = "HARD_OVERDUE"
  BY <1>0, <1>2 DEF CreateAll, Early
<1>3. CASE ScanForward
  BY <1>0, <1>3, ProcessParts DEF ScanForward
<1>4. CASE OrchestratorForward
  <2> DEFINE once == Process(iv, batch)
             twice == Process(once, batch)
             s == IF batch = {} THEN iv ELSE twice
  <2>1. Shaped(s) /\ gate \in s.active
    <3>1. Shaped(once) /\ gate \in once.active
      BY <1>0, ProcessParts
    <3>2. Shaped(twice) /\ gate \in twice.active
      BY <3>1, ProcessParts
    <3> QED BY <1>0, <3>2
  <2>2. iv' = ScanRestorations(s)
    BY <1>4 DEF OrchestratorForward, Orchestrated
  <2> HIDE DEF s
  <2> QED BY <1>1, <1>2, <1>4, <2>1, <2>2 DEF OrchestratorForward
<1>5. CASE Tighten
  <2> DEFINE r == ScanRestorations(iv)
  <2>1. gate \in r.active /\ Shaped(r)
    BY <1>0, <1>1, <1>2, <1>5, ScanRestorationsParts DEF Tighten
  <2>2. iv' = (IF Synthetic = {} THEN r ELSE Process(r, Synthetic))
    BY <1>5 DEF Tighten, Tightened
  <2> HIDE DEF r
  <2> QED BY <2>1, <2>2, ProcessParts
<1>6. ASSUME NEW p \in Obs, AutoFeed(p) PROVE FALSE
  <2>1. iv'.active = iv.active \ {<<p, l>> : l \in Levels}
    BY <1>0, <1>6, ResolveBacked DEF AutoFeed
  <2>2. status' = [status EXCEPT ![p] = "FULFILLED"]
    BY <1>6 DEF AutoFeed, Fulfil, Move
  <2> QED BY <2>1, <2>2 DEF WarrantInv, LifecycleTypeOK
<1>7. ASSUME NEW a \in Actors, AutoReset(a) PROVE a = ActorOf[o]
  BY <1>0, <1>7, AutoResetBacked DEF AutoReset
<1>8. CASE ResetBreaker
  BY <1>0, <1>8, BreakerParts DEF ResetBreaker
<1> QED BY <1>3, <1>4, <1>5, <1>6, <1>7, <1>8
        DEF Next, ScanStep, ScanEnd, ScanAge, ScanRaise, ScanEscalate, Tick, ScanBegin,
            CreateObligation, SettleElsewhere

(* An open obligation keeps its gate, but for an auto-reset and a restart.      *)
THEOREM GatesAreHeld == Spec => GateHeldWhileOpen
<1>1. WarrantInv /\ [Next]_vars =>
        [\A o \in Obs :
           /\ <<o, "interrupt_gate">> \in iv.active \ iv'.active
           /\ status'[o] \in {"PENDING", "SOFT_OVERDUE", "HARD_OVERDUE"}
           => Restart \/ AutoReset(ActorOf[o])]_vars
  BY GateHeldStep
<1> QED BY <1>1, WarrantInit, WarrantStep, PTL DEF Spec, GateHeldWhileOpen
===============================================================================
