--------------------------------- MODULE PathB ---------------------------------
(* PathBAgent (ystar/path_b/path_b_agent.py): it derives constraints for external*)
(* agents from the violations observed of them, within a budget per agent, and   *)
(* disconnects an agent whose compliance obligation is overdue.  A cycle first   *)
(* compares the constitution with the accepted one.                              *)
(*                                                                               *)
(* What nothing in Path B reads is left out: the counts of inconclusive cycles   *)
(* and ineffective constraints, the human review flag they raise, the results.   *)
(* Observed actions are of one type, a constraint costs the same at any severity,*)
(* and the agent has an AmendmentEngine.                                         *)
EXTENDS Integers, Sequences, FiniteSets, Amendment

CONSTANTS
  Agents,          \* agents that are observed
  SelfDenied,      \* those whose names Path B's own contract denies
  Original,        \* hash of the constitution at the start
  Missing,         \* hash of one that cannot be read
  Hashes,          \* hashes the file may have
  Full,            \* the budget of a new agent (1.0)
  Cost,            \* of a constraint (0.05 to 0.1)
  Gain,            \* for compliance (0.1)
  Evidence,        \* violations that make the confidence sufficient (3)
  Window,          \* observations verify_compliance looks at (10)
  Deadline,        \* ticks until an obligation is overdue
  MaxObservations  \* bound

ASSUME PathBAssumption ==
  /\ SelfDenied \subseteq Agents
  /\ Original \in Hashes /\ Missing \notin Hashes
  /\ Proposes \in [Proposals -> Hashes]
  /\ Full \in Nat /\ Cost \in Nat \ {0} /\ Gain \in Nat
  /\ Evidence \in Nat \ {0} /\ Window \in Nat \ {0} /\ Deadline \in Nat \ {0}
  /\ MaxObservations \in Nat

VARIABLES
  file,        \* hash of the constitution file
  accepted,    \* _constitution_hash
  history,     \* _observation_history
  budgets,     \* _budgets: agent -> current_budget
  constraints, \* _active_constraints: agent -> "applied" or "downgraded"
  obligations, \* _obligations: agent -> ticks until it is overdue, 0: overdue
  frozen,      \* _frozen_sessions
  causal       \* the causal engine has observations

books == <<budgets, constraints, obligations, frozen, causal>>
vars == <<amendment, file, accepted, history, books>>

\* Kinds of observation: no violation; one of a dimension that a constraint can be
\* made of, severe enough to act upon at once or not; one without a dimension, as
\* the hook reports every block.
Kinds == {"ok", "severe", "mild", "opaque"}

Put(d, a, v) == [x \in DOMAIN d \cup {a} |-> IF x = a THEN v ELSE d[x]]
Drop(d, S) == [x \in DOMAIN d \ S |-> d[x]]

Init ==
  /\ AmendmentInit
  /\ file = Original /\ accepted = Original
  /\ history = <<>>
  /\ budgets = <<>> /\ constraints = <<>> /\ obligations = <<>>
  /\ frozen = {} /\ causal = FALSE

-------------------------------------------------------------------------------

EditFile ==
  /\ file' \in (Hashes \cup {Missing}) \ {file}
  /\ UNCHANGED <<amendment, accepted, history, books>>

Amend == AmendmentNext /\ UNCHANGED <<file, accepted, history, books>>

Tick ==
  /\ \E a \in DOMAIN obligations : obligations[a] > 0
  /\ obligations' = [a \in DOMAIN obligations |->
                       IF obligations[a] > 0 THEN obligations[a] - 1 ELSE 0]
  /\ UNCHANGED <<amendment, file, accepted, history, budgets, constraints, frozen, causal>>

Observe(a, kind) ==
  /\ Len(history) < MaxObservations
  /\ history' = Append(history, [agent |-> a, kind |-> kind])
  /\ budgets' = IF a \in DOMAIN budgets THEN budgets ELSE Put(budgets, a, Full)
  /\ UNCHANGED <<amendment, file, accepted, constraints, obligations, frozen, causal>>

\* verify_compliance: the agent's observations among the last ones of all.
Recent(a) ==
  {i \in DOMAIN history : i > Len(history) - Window /\ history[i].agent = a}

\* Mutant: looks at the agent's last observation only.
CompliesAtLast(a) ==
  \E i \in Recent(a) : history[i].kind = "ok" /\ \A j \in Recent(a) : j <= i

Complies(a) ==
  /\ Recent(a) # {}
  /\ \A i \in Recent(a) : history[i].kind = "ok"

Replenished(left) == IF left + Gain > Full THEN Full ELSE left + Gain

Verify(a) ==
  /\ a \in DOMAIN constraints /\ Complies(a)
  /\ budgets' = IF a \in DOMAIN budgets
                  THEN Put(budgets, a, Replenished(budgets[a])) ELSE budgets
  /\ UNCHANGED <<amendment, file, accepted, history, constraints, obligations, frozen, causal>>

-------------------------------------------------------------------------------
(* Disconnecting                                                                 *)

\* Mutant: what is applied stays applied.
DowngradedNone(S) == constraints

Downgraded(S) ==
  [a \in DOMAIN constraints |-> IF a \in S THEN "downgraded" ELSE constraints[a]]

\* disconnect_external_agent
Disconnect(a) ==
  /\ constraints' = Downgraded({a})
  /\ frozen' = frozen \cup {a}
  /\ budgets' = Drop(budgets, {a})
  /\ obligations' = Drop(obligations, {a})
  /\ UNCHANGED <<amendment, file, accepted, history, causal>>

\* escalate_disconnect: with causal data any step may be left to a human, the
\* disconnection always is.
Escalate(a) ==
  \/ ~causal /\ Disconnect(a)
  \/ /\ causal
     /\ constraints' \in {constraints, Downgraded({a})}
     /\ frozen' \in {frozen, frozen \cup {a}}
     /\ UNCHANGED <<amendment, file, accepted, history, budgets, obligations, causal>>

-------------------------------------------------------------------------------
(* A governance cycle                                                            *)

Trusted == file \in {accepted, Missing} \/ Approved(file)

\* Mutant: an overdue obligation is forgotten, as a settled one would be.
OverdueNone == {}

Overdue == {a \in DOMAIN obligations : obligations[a] = 0}

IsLatestViolation(i) ==
  /\ history[i].kind # "ok"
  /\ \A j \in DOMAIN history : j > i => history[j].kind = "ok"

Observed(a) == {i \in DOMAIN history : history[i].agent = a}
Similar(a) == {i \in Observed(a) : history[i].kind # "ok"}

\* observation_to_constraint, apart from the budget.
Derivable(i) ==
  /\ history[i].kind \in {"severe", "mild"}
  /\ \/ Observed(history[i].agent) = {i} /\ history[i].kind = "severe"
     \/ Cardinality(Similar(history[i].agent)) >= Evidence

\* The budget of an agent as the cycle finds it, a new one if it has none.
Left(a) == IF a \in DOMAIN budgets \ Overdue THEN budgets[a] ELSE Full

\* _check_overdue_obligations only.
Quiet ==
  /\ \A i \in DOMAIN history : history[i].kind = "ok"
  /\ budgets' = Drop(budgets, Overdue)
  /\ constraints' = Downgraded(Overdue)
  /\ obligations' = Drop(obligations, Overdue)
  /\ UNCHANGED causal

\* No constraint is derived, or Path B's own contract denies to apply it.
Decline(i, a) ==
  /\ \/ /\ ~Derivable(i) \/ Left(a) < Cost
        /\ budgets' = Put(Drop(budgets, Overdue), a, Left(a))
     \/ /\ Derivable(i) /\ Left(a) >= Cost /\ a \in SelfDenied
        /\ budgets' = Put(Drop(budgets, Overdue), a, Left(a) - Cost)
  /\ constraints' = Downgraded(Overdue)
  /\ obligations' = Drop(obligations, Overdue)
  /\ UNCHANGED causal

\* The constraint, its obligation, and the verification for the causal engine.
Apply(i, a) ==
  /\ Derivable(i) /\ Left(a) >= Cost /\ a \notin SelfDenied
  /\ constraints' = Put(Downgraded(Overdue), a, "applied")
  /\ obligations' = Put(Drop(obligations, Overdue), a, Deadline)
  /\ budgets' = Put(Drop(budgets, Overdue), a,
                    IF Complies(a) THEN Replenished(Left(a) - Cost) ELSE Left(a) - Cost)
  /\ causal' = TRUE

\* run_one_cycle; one that finds a document it does not trust changes nothing.
Cycle ==
  /\ Trusted
  /\ accepted' = IF file = Missing THEN accepted ELSE file
  /\ frozen' = frozen \cup Overdue
  /\ \/ Quiet
     \/ \E i \in DOMAIN history :
          IsLatestViolation(i)
            /\ (Decline(i, history[i].agent) \/ Apply(i, history[i].agent))
  /\ UNCHANGED <<amendment, file, history>>

-------------------------------------------------------------------------------

Next ==
  \/ EditFile \/ Amend \/ Tick \/ Cycle
  \/ \E a \in Agents :
       \/ \E kind \in Kinds : Observe(a, kind)
       \/ Verify(a) \/ Disconnect(a) \/ Escalate(a)

Spec == Init /\ [][Next]_vars

\* The orchestrator runs a cycle at least every 50 hook calls or five minutes of
\* use; time passes.
FairSpec == Spec /\ WF_vars(Cycle) /\ WF_vars(Tick)

-------------------------------------------------------------------------------
Constrained(a) == a \in DOMAIN constraints /\ constraints[a] = "applied"

\* While a constraint stands that was not downgraded, its agent has an obligation
\* to comply that time will make overdue, and a budget: no way of disconnecting,
\* escalating or renewing leaves a constraint that nobody watches.
ConstraintsAreWatched ==
  \A a \in Agents : Constrained(a) => a \in DOMAIN obligations /\ a \in DOMAIN budgets

\* The constitution that Path B works under is the original one or was approved,
\* whatever was written to the file, proposed, rejected or rolled back since.
AcceptedWasApproved ==
  accepted # Original =>
    \E p \in Proposals :
      Proposes[p] = accepted /\ status[p] \in {"approved", "activated", "rolled_back"}

BudgetOf(a) == IF a \in DOMAIN budgets THEN budgets[a] ELSE 0
Blameless(a) == \A i \in Recent(a) : history[i].kind = "ok"

\* An agent is given budget while its recent observations show a violation only
\* when it is disconnected: by the cycle that finds its obligation overdue, or
\* before, its budget cleared.  No code asks who is frozen, and the next observation
\* or cycle makes a disconnected agent a new full budget (path_b_agent.py:612, 679).
\* Whatever is verified, escalated or renewed, one that stays connected earns budget
\* by complying only.
BudgetGrowsByCompliance ==
  [][\A a \in Agents : BudgetOf(a)' > BudgetOf(a) =>
       \/ Blameless(a)
       \/ a \in Overdue /\ a \in frozen'
       \/ a \notin DOMAIN budgets /\ a \in frozen]_vars

\* An agent that is constrained and does not comply is frozen in the end, although
\* each cycle may renew its constraint and with it the deadline: the budget bounds
\* the renewals.  (Unless an escalation downgrades it, or the constitution is
\* time and again one that Path B does not trust.)
NonCompliantIsFrozen ==
  <>[]Trusted =>
    \A a \in Agents :
      Constrained(a) ~> (a \in frozen \/ Complies(a) \/ ~Constrained(a))
===============================================================================
