-------------------------- MODULE ObligationLifecycle --------------------------
(* What the omission engine promises about one obligation, without its store,   *)
(* clock or workers: the ladder PENDING, SOFT_OVERDUE, HARD_OVERDUE, ESCALATED,  *)
(* the ways out of it, and the violations raised on the way.  OmissionEngine    *)
(* implements this module when a single worker runs it; Intervention uses it as *)
(* the obligations it acts upon.                                                *)
EXTENDS Naturals

CONSTANT Obs

VARIABLES
  status,  \* obligation -> ObligationStatus, ABSENT before it is created
  viol     \* obligation -> violations raised at each stage, escalated or not

lifecycle == <<status, viol>>

Statuses == {"ABSENT", "PENDING", "SOFT_OVERDUE", "HARD_OVERDUE", "FULFILLED",
             "ESCALATED", "CANCELLED", "RESTORED"}

Open(o) == status[o] \in {"PENDING", "SOFT_OVERDUE", "HARD_OVERDUE"}

Settled(o) == status[o] \in {"FULFILLED", "CANCELLED", "RESTORED"}

Reported(o) == viol[o].soft + viol[o].hard > 0

LifecycleTypeOK ==
  /\ status \in [Obs -> Statuses]
  /\ viol \in [Obs -> [soft: Nat, hard: Nat, escalated: BOOLEAN]]

LifecycleInit ==
  /\ status = [o \in Obs |-> "ABSENT"]
  /\ viol = [o \in Obs |-> [soft |-> 0, hard |-> 0, escalated |-> FALSE]]

Move(o, from, to) ==
  /\ status[o] \in from
  /\ status' = [status EXCEPT ![o] = to]
  /\ UNCHANGED viol

Create(o) == Move(o, {"ABSENT"}, "PENDING")

BecomeSoft(o) == Move(o, {"PENDING"}, "SOFT_OVERDUE")

BecomeHard(o) == Move(o, {"SOFT_OVERDUE"}, "HARD_OVERDUE")

\* Only an obligation with a violation on record is escalated.
BecomeEscalated(o) ==
  Reported(o) /\ Move(o, {"SOFT_OVERDUE", "HARD_OVERDUE"}, "ESCALATED")

\* The soft violation is raised while nothing is on record, the hard one once.
RaiseSoft(o) ==
  /\ status[o] = "SOFT_OVERDUE" /\ ~Reported(o)
  /\ viol' = [viol EXCEPT ![o].soft = 1]
  /\ UNCHANGED status

RaiseHard(o) ==
  /\ status[o] = "HARD_OVERDUE" /\ viol[o].hard = 0
  /\ viol' = [viol EXCEPT ![o].hard = 1]
  /\ UNCHANGED status

MarkEscalated(o) ==
  /\ status[o] = "ESCALATED" /\ Reported(o)
  /\ viol' = [viol EXCEPT ![o].escalated = TRUE]
  /\ UNCHANGED status

Fulfil(o) == Move(o, {"PENDING", "SOFT_OVERDUE", "HARD_OVERDUE"}, "FULFILLED")

Close(o) ==
  Move(o, {"PENDING", "SOFT_OVERDUE", "HARD_OVERDUE", "ESCALATED"}, "FULFILLED")

Restore(o) == Move(o, {"SOFT_OVERDUE", "HARD_OVERDUE", "ESCALATED"}, "RESTORED")

Cancel(o) == Move(o, {"PENDING", "SOFT_OVERDUE"}, "CANCELLED")

\* The store's cancellation, which asks for no status.
Void(o) == Move(o, Statuses \ {"ABSENT"}, "CANCELLED")

\* The steps of a scan.
Age(o) == BecomeSoft(o) \/ BecomeHard(o) \/ BecomeEscalated(o)
Raise(o) == RaiseSoft(o) \/ RaiseHard(o)

\* The steps of everybody else.
Settle(o) == Fulfil(o) \/ Close(o) \/ Restore(o) \/ Cancel(o) \/ Void(o)

LifecycleNext ==
  \E o \in Obs : Create(o) \/ Age(o) \/ Raise(o) \/ MarkEscalated(o) \/ Settle(o)

LifecycleSpec == LifecycleInit /\ [][LifecycleNext]_lifecycle

=============================================================================
