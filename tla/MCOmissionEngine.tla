--------------------------- MODULE MCOmissionEngine ---------------------------
(* Values for the constants of OmissionEngine.  The pool of a run decides which *)
(* of the two policies it has: the ids f1, f2, f3 are of the rule, c1 is of the *)
(* trigger.  An order of thresholds that the code can be given is kept, not     *)
(* their lengths.                                                               *)
EXTENDS OmissionEngine, TLC

CONSTANTS f1, f2, f3, c1, e1, a1, a2, w1, w2

MCEvents == {"start", "done"}
MCKindOf == [o \in Obs |-> IF o = c1 THEN "pre_commit_test" ELSE "rule_f_escalation"]

\* Only the kinds that have an id in the pool: an event is ingested while there
\* is one for each obligation it creates.
MCKinds == {MCKindOf[o] : o \in Obs}
MCEntityOf == [o \in Obs |-> e1]
MCActorOf == [o \in Obs |-> IF o = f3 THEN a2 ELSE a1]
MCActors == {MCActorOf[o] : o \in Obs}

\* Rule F with an obligation_timing of 300 from a contract: a reminder before the
\* due time, escalation 180 after it and hard overdue 300 after it, so that an
\* obligation is escalated by pass B, or by pass A when no scan came in between.
\* Whoever owns the blocked entity answers for it.
MCRule ==
  [trigger |-> "start", required |-> {"done"}, dueIn |-> 1, grace |-> 0,
   hard |-> 2, esc |-> 1, remind |-> 0, sev |-> "HIGH", dedup |-> TRUE,
   byRule |-> TRUE, named |-> Actors]

\* pre_commit_test: deadline_seconds = hard_overdue_secs = 60 and escalation after
\* twice the deadline, so that an obligation is hard overdue before it escalates.
MCTrigger ==
  [trigger |-> "start", required |-> {"done"}, dueIn |-> 1, grace |-> 0,
   hard |-> 1, esc |-> 2, remind |-> NoTime, sev |-> "HIGH", dedup |-> TRUE,
   byRule |-> FALSE, named |-> {}]

\* Workers differ only in their names; used where no liveness is checked.
MCSymmetry == Permutations(Workers)

MCPolicy ==
  [k \in Kinds |-> IF k = "pre_commit_test" THEN MCTrigger ELSE MCRule]

=============================================================================
