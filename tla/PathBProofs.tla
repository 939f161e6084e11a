------------------------------ MODULE PathBProofs ------------------------------
(* Proofs about PathB, for every set of agents and proposals, every budget, cost *)
(* and deadline, and observations without bound.                                 *)
EXTENDS PathB, TLAPS

\* The amounts are numbers, and an amendment has one status.
AmountsOK == \A a \in DOMAIN budgets : budgets[a] \in Nat
StatusOK == status \in [Proposals -> Statuses]

ObservationsOK == history \in Seq([agent : Agents, kind : Kinds])

\* Who was observed and has no budget has been disconnected.
NoBudgetIsFrozen == \A a \in Agents : Observed(a) # {} => a \in DOMAIN budgets \/ a \in frozen

IInv ==
  /\ AmountsOK /\ StatusOK /\ ObservationsOK /\ NoBudgetIsFrozen
  /\ ConstraintsAreWatched /\ AcceptedWasApproved

-------------------------------------------------------------------------------

\* A new agent's budget is only added, and the other budgets stay.
LEMMA PutBudget ==
  ASSUME AmountsOK, NEW a, NEW v \in Nat, NEW S,
         budgets' = Put(Drop(budgets, S), a, v)
  PROVE  AmountsOK'
<1>1. DOMAIN budgets' = (DOMAIN budgets \ S) \cup {a}
  BY DEF Put, Drop
<1> SUFFICES ASSUME NEW x \in DOMAIN budgets'
             PROVE  budgets'[x] \in Nat
  BY DEF AmountsOK
<1>2. CASE x = a
  BY <1>2 DEF Put, Drop
<1>3. CASE x # a
  <2>1. x \in DOMAIN budgets /\ x \in DOMAIN Drop(budgets, S)
    BY <1>1, <1>3 DEF Put, Drop
  <2>2. budgets'[x] = budgets[x]
    BY <2>1, <1>1, <1>3 DEF Put, Drop
  <2> QED
    BY <2>1, <2>2 DEF AmountsOK
<1> QED
  BY <1>2, <1>3

\* What a cycle finds in an agent's budget is an amount.
LEMMA LeftIsAmount ==
  ASSUME AmountsOK, NEW a
  PROVE  Left(a) \in Nat
  BY PathBAssumption DEF Left, AmountsOK

LEMMA ReplenishedIsAmount ==
  ASSUME NEW left \in Nat
  PROVE  Replenished(left) \in Nat
  BY PathBAssumption DEF Replenished

\* The budgets after a cycle: those of the overdue agents are dropped, and the one
\* the cycle looks at is what it was, or less, or was replenished for compliance.
LEMMA CycleBudgets ==
  ASSUME AmountsOK, Cycle
  PROVE  \/ budgets' = Drop(budgets, Overdue)
         \/ \E i \in DOMAIN history, v \in Nat :
              /\ budgets' = Put(Drop(budgets, Overdue), history[i].agent, v)
              /\ v <= Left(history[i].agent) \/ Complies(history[i].agent)
<1>1. CASE Quiet
  BY <1>1 DEF Quiet
<1>2. ASSUME NEW i \in DOMAIN history, Decline(i, history[i].agent)
      PROVE  \E v \in Nat :
               /\ budgets' = Put(Drop(budgets, Overdue), history[i].agent, v)
               /\ v <= Left(history[i].agent)
  <2> DEFINE a == history[i].agent
  <2>1. Left(a) \in Nat
    BY LeftIsAmount
  <2> HIDE DEF a
  <2>2. CASE budgets' = Put(Drop(budgets, Overdue), a, Left(a))
    BY <2>1, <2>2 DEF a
  <2>3. CASE Left(a) >= Cost /\ budgets' = Put(Drop(budgets, Overdue), a, Left(a) - Cost)
    <3>1. Left(a) - Cost \in Nat /\ Left(a) - Cost <= Left(a)
      BY <2>1, <2>3, PathBAssumption
    <3> QED
      BY <3>1, <2>3 DEF a
  <2> QED
    BY <1>2, <2>2, <2>3 DEF Decline, a
<1>3. ASSUME NEW i \in DOMAIN history, Apply(i, history[i].agent)
      PROVE  \E v \in Nat :
               /\ budgets' = Put(Drop(budgets, Overdue), history[i].agent, v)
               /\ v <= Left(history[i].agent) \/ Complies(history[i].agent)
  <2> DEFINE a == history[i].agent
  <2>1. Left(a) \in Nat
    BY LeftIsAmount
  <2> HIDE DEF a
  <2>2. Left(a) >= Cost
    BY <1>3 DEF Apply, a
  <2>3. Left(a) - Cost \in Nat /\ Left(a) - Cost <= Left(a)
    BY <2>1, <2>2, PathBAssumption
  <2>4. Replenished(Left(a) - Cost) \in Nat
    BY <2>3, ReplenishedIsAmount
  <2>5. CASE Complies(a)
    <3>1. budgets' = Put(Drop(budgets, Overdue), a, Replenished(Left(a) - Cost))
      BY <1>3, <2>5 DEF Apply, a
    <3> QED
      BY <3>1, <2>4, <2>5 DEF a
  <2>6. CASE ~Complies(a)
    <3>1. budgets' = Put(Drop(budgets, Overdue), a, Left(a) - Cost)
      BY <1>3, <2>6 DEF Apply, a
    <3> QED
      BY <3>1, <2>3 DEF a
  <2> QED
    BY <2>5, <2>6
<1> QED
  BY <1>1, <1>2, <1>3 DEF Cycle

-------------------------------------------------------------------------------

LEMMA InitIInv == Init => IInv
<1> SUFFICES ASSUME Init PROVE IInv
  OBVIOUS
<1>1. DOMAIN budgets = {} /\ DOMAIN constraints = {} /\ DOMAIN history = {}
  BY DEF Init
<1>2. StatusOK
  BY DEF Init, AmendmentInit, StatusOK, Statuses
<1>3. ObservationsOK /\ NoBudgetIsFrozen
  BY <1>1 DEF Init, ObservationsOK, NoBudgetIsFrozen, Observed
<1> QED
  BY <1>1, <1>2, <1>3
  DEF Init, IInv, AmountsOK, ConstraintsAreWatched, Constrained, AcceptedWasApproved

\* Every step leaves budgets that are numbers.
LEMMA AmountsStep == IInv /\ [Next]_vars => AmountsOK'
<1> SUFFICES ASSUME IInv, [Next]_vars
             PROVE  AmountsOK'
  OBVIOUS
<1> USE DEF IInv
<1>1. CASE UNCHANGED budgets
  BY <1>1 DEF AmountsOK
<1>2. ASSUME NEW a, NEW kind, Observe(a, kind)
      PROVE  AmountsOK'
  <2>1. CASE a \in DOMAIN budgets
    BY <1>2, <2>1, <1>1 DEF Observe
  <2>2. CASE budgets' = Put(budgets, a, Full)
    BY <2>2, PathBAssumption DEF AmountsOK, Put, Drop
  <2> QED
    BY <1>2, <2>1, <2>2 DEF Observe
<1>3. ASSUME NEW a, Verify(a)
      PROVE  AmountsOK'
  <2>1. CASE a \notin DOMAIN budgets
    BY <1>3, <2>1, <1>1 DEF Verify
  <2>2. CASE a \in DOMAIN budgets
    <3>1. Replenished(budgets[a]) \in Nat
      BY <2>2, ReplenishedIsAmount DEF AmountsOK
    <3>2. budgets' = Put(budgets, a, Replenished(budgets[a]))
      BY <1>3, <2>2 DEF Verify
    <3> QED
      BY <3>1, <3>2 DEF AmountsOK, Put
  <2> QED
    BY <2>1, <2>2
<1>4. ASSUME NEW a, Disconnect(a)
      PROVE  AmountsOK'
  BY <1>4 DEF Disconnect, Drop, AmountsOK
<1>5. CASE Cycle
  <2>1. CASE budgets' = Drop(budgets, Overdue)
    BY <2>1 DEF AmountsOK, Drop
  <2>2. CASE \E i \in DOMAIN history, v \in Nat :
               budgets' = Put(Drop(budgets, Overdue), history[i].agent, v)
    BY <2>2, PutBudget
  <2> QED
    BY <1>5, <2>1, <2>2, CycleBudgets
<1>6. CASE UNCHANGED vars
  BY <1>6, <1>1 DEF vars, books
<1>7. CASE EditFile \/ Amend \/ Tick
  BY <1>7, <1>1 DEF EditFile, Amend, Tick, books
<1>8. ASSUME NEW a, Escalate(a)
      PROVE  AmountsOK'
  BY <1>8, <1>1, <1>4 DEF Escalate
<1> QED
  BY <1>2, <1>3, <1>4, <1>5, <1>6, <1>7, <1>8 DEF Next

-------------------------------------------------------------------------------
(* Constraints                                                                   *)

\* Disconnecting a set of agents leaves no constraint of theirs applied, and no
\* other agent loses its obligation.
LEMMA DowngradedAreNotConstrained ==
  ASSUME NEW S
  PROVE  /\ DOMAIN Downgraded(S) = DOMAIN constraints
         /\ \A a \in DOMAIN constraints :
              Downgraded(S)[a] = "applied" => a \notin S /\ constraints[a] = "applied"
  BY DEF Downgraded

\* No step leaves a constraint without its obligation and budget.
LEMMA WatchedStep == IInv /\ [Next]_vars => ConstraintsAreWatched'
<1> SUFFICES ASSUME IInv, [Next]_vars, NEW b \in Agents, Constrained(b)'
             PROVE  b \in DOMAIN obligations' /\ b \in DOMAIN budgets'
  BY DEF ConstraintsAreWatched
<1>0. Constrained(b) => b \in DOMAIN obligations /\ b \in DOMAIN budgets
  BY DEF IInv, ConstraintsAreWatched
<1>1. CASE UNCHANGED constraints /\ UNCHANGED obligations /\ DOMAIN budgets \subseteq DOMAIN budgets'
  BY <1>0, <1>1 DEF Constrained
<1>2. ASSUME NEW a, NEW kind, Observe(a, kind)
      PROVE  b \in DOMAIN obligations' /\ b \in DOMAIN budgets'
  <2>1. DOMAIN budgets \subseteq DOMAIN budgets'
    BY <1>2 DEF Observe, Put, Drop
  <2> QED
    BY <1>1, <1>2, <2>1 DEF Observe
<1>3. ASSUME NEW a, Verify(a)
      PROVE  b \in DOMAIN obligations' /\ b \in DOMAIN budgets'
  <2>1. DOMAIN budgets \subseteq DOMAIN budgets'
    BY <1>3 DEF Verify, Put, Drop
  <2> QED
    BY <1>1, <1>3, <2>1 DEF Verify
<1>4. ASSUME NEW a, Disconnect(a)
      PROVE  b \in DOMAIN obligations' /\ b \in DOMAIN budgets'
  <2>1. Constrained(b) /\ b # a
    BY <1>4, DowngradedAreNotConstrained DEF Disconnect, Constrained
  <2> QED
    BY <1>0, <1>4, <2>1 DEF Disconnect, Put, Drop
<1>5. CASE Cycle
  <2>1. ASSUME constraints' = Downgraded(Overdue),
               obligations' = Drop(obligations, Overdue),
               DOMAIN budgets \ Overdue \subseteq DOMAIN budgets'
        PROVE  b \in DOMAIN obligations' /\ b \in DOMAIN budgets'
    <3>1. Constrained(b) /\ b \notin Overdue
      BY <2>1, DowngradedAreNotConstrained DEF Constrained
    <3> QED
      BY <1>0, <2>1, <3>1 DEF Put, Drop
  <2>2. CASE Quiet
    BY <2>1, <2>2 DEF Quiet, Put, Drop
  <2>3. ASSUME NEW i \in DOMAIN history, NEW a, Decline(i, a)
        PROVE  b \in DOMAIN obligations' /\ b \in DOMAIN budgets'
    BY <2>1, <2>3 DEF Decline, Put, Drop
  <2>4. ASSUME NEW i \in DOMAIN history, NEW a, Apply(i, a)
        PROVE  b \in DOMAIN obligations' /\ b \in DOMAIN budgets'
    <3>1. /\ DOMAIN obligations' = (DOMAIN obligations \ Overdue) \cup {a}
          /\ DOMAIN budgets' = (DOMAIN budgets \ Overdue) \cup {a}
      BY <2>4 DEF Apply, Put, Drop
    <3>2. CASE b = a
      BY <3>1, <3>2
    <3>3. CASE b # a
      <4>1. constraints' = Put(Downgraded(Overdue), a, "applied")
        BY <2>4 DEF Apply
      <4>2. b \in DOMAIN Downgraded(Overdue) /\ Downgraded(Overdue)[b] = "applied"
        BY <4>1, <3>3 DEF Constrained, Put, Drop
      <4>3. Constrained(b) /\ b \notin Overdue
        BY <4>2, DowngradedAreNotConstrained DEF Constrained
      <4> QED
        BY <1>0, <3>1, <4>3
    <3> QED
      BY <3>2, <3>3
  <2> QED
    BY <1>5, <2>2, <2>3, <2>4 DEF Cycle
<1>6. CASE UNCHANGED vars
  BY <1>6, <1>1 DEF vars, books
<1>7. CASE EditFile \/ Amend
  BY <1>7, <1>1 DEF EditFile, Amend, books
<1>8. CASE Tick
  <2>1. DOMAIN obligations' = DOMAIN obligations
    BY <1>8 DEF Tick
  <2> QED
    BY <1>0, <1>8, <2>1 DEF Tick, Constrained
<1>9. ASSUME NEW a, Escalate(a)
      PROVE  b \in DOMAIN obligations' /\ b \in DOMAIN budgets'
  <2>1. CASE Disconnect(a)
    BY <2>1, <1>4
  <2>2. CASE constraints' = constraints /\ UNCHANGED <<budgets, obligations>>
    BY <2>2, <1>1
  <2>3. CASE constraints' = Downgraded({a}) /\ UNCHANGED <<budgets, obligations>>
    <3>1. Constrained(b)
      BY <2>3, DowngradedAreNotConstrained DEF Constrained
    <3> QED
      BY <1>0, <2>3, <3>1
  <2> QED
    BY <1>9, <2>1, <2>2, <2>3 DEF Escalate
<1> QED
  BY <1>2, <1>3, <1>4, <1>5, <1>6, <1>7, <1>8, <1>9 DEF Next

-------------------------------------------------------------------------------
(* The constitution                                                              *)

\* A proposal that has been approved stays approved, activated or rolled back.
LEMMA AmendmentStep ==
  ASSUME StatusOK, AmendmentNext
  PROVE  /\ StatusOK'
         /\ \A p \in Proposals :
              status[p] \in {"approved", "activated", "rolled_back"}
                => status'[p] \in {"approved", "activated", "rolled_back"}
<1>1. PICK q \in Proposals : Propose(q) \/ Review(q) \/ Activate(q) \/ Rollback(q)
  BY DEF AmendmentNext
<1>2. PICK from \in Statuses, to \in Statuses :
        /\ status[q] = from /\ status' = [status EXCEPT ![q] = to]
        /\ from \in {"approved", "activated", "rolled_back"}
             => to \in {"approved", "activated", "rolled_back"}
  <2>1. CASE Propose(q)
    BY <2>1 DEF Propose, Move, Statuses
  <2>2. CASE Review(q)
    BY <2>2 DEF Review, Move, Statuses
  <2>3. CASE Activate(q)
    BY <2>3 DEF Activate, Move, Statuses
  <2>4. CASE Rollback(q)
    BY <2>4 DEF Rollback, Move, Statuses
  <2> QED
    BY <1>1, <2>1, <2>2, <2>3, <2>4
<1>3. StatusOK'
  BY <1>2 DEF StatusOK
<1>4. \A p \in Proposals : status'[p] = IF p = q THEN to ELSE status[p]
  BY <1>2 DEF StatusOK
<1> QED
  BY <1>2, <1>3, <1>4

\* Only an approved constitution is accepted.
LEMMA AcceptedStep == IInv /\ [Next]_vars => StatusOK' /\ AcceptedWasApproved'
<1> SUFFICES ASSUME IInv, [Next]_vars
             PROVE  StatusOK' /\ AcceptedWasApproved'
  OBVIOUS
<1>1. CASE UNCHANGED <<status, accepted>>
  BY <1>1 DEF IInv, StatusOK, AcceptedWasApproved
<1>2. CASE Amend
  BY <1>2, AmendmentStep DEF Amend, IInv, AcceptedWasApproved
<1>3. CASE Cycle
  <2>1. UNCHANGED status /\ Trusted /\ accepted' = IF file = Missing THEN accepted ELSE file
    BY <1>3 DEF Cycle, amendment
  <2>2. CASE accepted' = accepted
    BY <2>1, <2>2, <1>1
  <2>3. CASE accepted' # accepted
    <3>1. Approved(file) /\ accepted' = file
      BY <2>1, <2>3 DEF Trusted
    <3> QED
      BY <2>1, <3>1 DEF Approved, IInv, StatusOK, AcceptedWasApproved
  <2> QED
    BY <2>2, <2>3
<1>4. CASE UNCHANGED vars \/ EditFile \/ Tick
  BY <1>4, <1>1 DEF vars, amendment, EditFile, Tick
<1>5. ASSUME NEW a, \/ \E kind \in Kinds : Observe(a, kind)
                    \/ Verify(a) \/ Disconnect(a) \/ Escalate(a)
      PROVE  UNCHANGED <<status, accepted>>
  BY <1>5 DEF Observe, Verify, Disconnect, Escalate, amendment
<1> QED
  BY <1>1, <1>2, <1>3, <1>4, <1>5 DEF Next

-------------------------------------------------------------------------------

(* Observations                                                                  *)

\* Every step but an observation leaves them alone, and who is frozen stays so.
LEMMA ObservationsStay ==
  ASSUME [Next]_vars
  PROVE  /\ \/ UNCHANGED history
            \/ \E a \in Agents, kind \in Kinds : Observe(a, kind)
         /\ frozen \subseteq frozen'
<1>1. CASE UNCHANGED vars \/ EditFile \/ Amend \/ Tick \/ Cycle
  BY <1>1 DEF vars, books, EditFile, Amend, Tick, Cycle
<1>2. ASSUME NEW a, Verify(a) \/ Disconnect(a) \/ Escalate(a)
      PROVE  UNCHANGED history /\ frozen \subseteq frozen'
  BY <1>2 DEF Verify, Disconnect, Escalate
<1>3. ASSUME NEW a, NEW kind, Observe(a, kind)
      PROVE  UNCHANGED frozen
  BY <1>3 DEF Observe
<1> QED
  BY <1>1, <1>2, <1>3 DEF Next

\* An observation is of one agent, and leaves the others' as they were.
LEMMA Observing ==
  ASSUME ObservationsOK, NEW a \in Agents, NEW kind \in Kinds, Observe(a, kind)
  PROVE  /\ ObservationsOK'
         /\ \A b : b # a => Observed(b)' = Observed(b)
<1>1. history' = Append(history, [agent |-> a, kind |-> kind])
  BY DEF Observe
<1>2. /\ Len(history') = Len(history) + 1 /\ history'[Len(history) + 1].agent = a
      /\ \A i \in 1..Len(history) : history'[i] = history[i]
  BY <1>1 DEF ObservationsOK
<1>3. ObservationsOK'
  BY <1>1 DEF ObservationsOK
<1>4. DOMAIN history = 1..Len(history) /\ DOMAIN history' = 1..Len(history')
      /\ Len(history) \in Nat
  BY <1>3 DEF ObservationsOK
<1> QED
  BY <1>2, <1>3, <1>4 DEF Observed

\* A budget disappears with a disconnection only, which freezes the agent.
LEMMA FrozenStep == IInv /\ [Next]_vars => ObservationsOK' /\ NoBudgetIsFrozen'
<1> SUFFICES ASSUME IInv, [Next]_vars
             PROVE  ObservationsOK' /\ NoBudgetIsFrozen'
  OBVIOUS
<1>1. CASE \E a \in Agents, kind \in Kinds : Observe(a, kind)
  <2>1. PICK a \in Agents, kind \in Kinds : Observe(a, kind)
    BY <1>1
  <2>2. ObservationsOK' /\ \A b : b # a => Observed(b)' = Observed(b)
    BY <2>1, Observing DEF IInv
  <2>3. DOMAIN budgets' = DOMAIN budgets \cup {a} /\ frozen' = frozen
    BY <2>1 DEF Observe, Put
  <2> QED
    BY <2>2, <2>3 DEF IInv, NoBudgetIsFrozen
<1>2. ASSUME UNCHANGED history, DOMAIN budgets \ DOMAIN budgets' \subseteq frozen'
      PROVE  ObservationsOK' /\ NoBudgetIsFrozen'
  BY <1>2, ObservationsStay DEF IInv, ObservationsOK, NoBudgetIsFrozen, Observed
<1>3. CASE UNCHANGED vars \/ EditFile \/ Amend \/ Tick
  BY <1>2, <1>3 DEF vars, books, EditFile, Amend, Tick
<1>4. ASSUME NEW a, Verify(a) \/ Disconnect(a) \/ Escalate(a)
      PROVE  UNCHANGED history /\ DOMAIN budgets \ DOMAIN budgets' \subseteq frozen'
  BY <1>4 DEF Verify, Disconnect, Escalate, Put, Drop
<1>5. CASE Cycle
  <2>1. UNCHANGED history /\ frozen' = frozen \cup Overdue
    BY <1>5 DEF Cycle
  <2>2. DOMAIN budgets \ Overdue \subseteq DOMAIN budgets'
    BY <1>5, CycleBudgets DEF IInv, Put, Drop
  <2> QED
    BY <1>2, <2>1, <2>2
<1> QED
  BY <1>1, <1>2, <1>3, <1>4, <1>5 DEF Next

-------------------------------------------------------------------------------

LEMMA IInvAlways == Spec => []IInv
<1>1. IInv /\ [Next]_vars => IInv'
  BY AmountsStep, WatchedStep, AcceptedStep, FrozenStep DEF IInv
<1> QED
  BY InitIInv, <1>1, PTL DEF Spec

\* While a constraint stands, its agent has an obligation and a budget
\* (disconnect_external_agent, escalate_disconnect, run_one_cycle).
THEOREM NoUnwatchedConstraint == Spec => []ConstraintsAreWatched
<1>1. IInv => ConstraintsAreWatched
  BY DEF IInv
<1> QED
  BY IInvAlways, <1>1, PTL

\* Path B works under the original constitution or an approved one
\* (run_one_cycle with AmendmentEngine.has_approved_amendment).
THEOREM OnlyApprovedIsAccepted == Spec => []AcceptedWasApproved
<1>1. IInv => AcceptedWasApproved
  BY DEF IInv
<1> QED
  BY IInvAlways, <1>1, PTL

\* What a step gives an agent: nothing, unless it complies, is being disconnected
\* or was before and has no budget.
Earned(b) ==
  BudgetOf(b)' > BudgetOf(b) =>
    \/ Blameless(b)
    \/ b \in Overdue /\ b \in frozen'
    \/ b \notin DOMAIN budgets /\ b \in frozen

\* Who has no budget and has been observed is frozen, and a first observation shows
\* no violation before it.
LEMMA NewBudget ==
  ASSUME IInv, NEW b \in Agents, b \notin DOMAIN budgets
  PROVE  Earned(b)
<1>1. CASE Observed(b) = {}
  BY <1>1 DEF Earned, Blameless, Recent, Observed
<1>2. CASE Observed(b) # {}
  BY <1>2 DEF Earned, IInv, NoBudgetIsFrozen
<1> QED
  BY <1>1, <1>2

\* The budget an agent has grows by compliance, or is replaced by a cycle that
\* disconnects the agent (ConstraintBudget.replenish, _check_overdue_obligations).
LEMMA OldBudget ==
  ASSUME IInv, [Next]_vars, NEW b \in Agents, b \in DOMAIN budgets
  PROVE  Earned(b)
<1>0. BudgetOf(b) = budgets[b] /\ budgets[b] \in Nat
  BY DEF IInv, AmountsOK, BudgetOf
<1>1. CASE b \notin DOMAIN budgets' \/ budgets'[b] = budgets[b]
  BY <1>0, <1>1 DEF Earned, BudgetOf
<1>2. ASSUME NEW a, NEW kind, Observe(a, kind)
      PROVE  budgets'[b] = budgets[b]
  BY <1>2 DEF Observe, Put, Drop
<1>3. ASSUME NEW a, Verify(a)
      PROVE  budgets'[b] = budgets[b] \/ Blameless(b)
  <2>1. CASE b = a
    BY <1>3, <2>1 DEF Verify, Complies, Blameless
  <2>2. CASE b # a
    BY <1>3, <2>2 DEF Verify, Put, Drop
  <2> QED
    BY <2>1, <2>2
<1>4. ASSUME NEW a, Disconnect(a)
      PROVE  b \notin DOMAIN budgets' \/ budgets'[b] = budgets[b]
  BY <1>4 DEF Disconnect, Put, Drop
<1>5. CASE Cycle
  <2>1. CASE b \in Overdue
    BY <1>5, <2>1 DEF Cycle, Earned
  <2>2. CASE b \notin Overdue /\ budgets' = Drop(budgets, Overdue)
    BY <1>1, <2>2 DEF Put, Drop
  <2>3. ASSUME b \notin Overdue, NEW i \in DOMAIN history, NEW v \in Nat,
               budgets' = Put(Drop(budgets, Overdue), history[i].agent, v),
               v <= Left(history[i].agent) \/ Complies(history[i].agent)
        PROVE  Earned(b)
    <3>1. CASE b = history[i].agent
      <4>1. b \in DOMAIN budgets' /\ budgets'[b] = v /\ Left(b) = budgets[b]
        BY <2>3, <3>1 DEF Left, Put, Drop
      <4>2. CASE v <= budgets[b]
        BY <1>0, <4>1, <4>2 DEF Earned, BudgetOf
      <4>3. CASE Complies(b)
        BY <4>3 DEF Earned, Blameless, Complies
      <4> QED
        BY <2>3, <3>1, <4>1, <4>2, <4>3
    <3>2. CASE b # history[i].agent
      <4>1. b \in DOMAIN Drop(budgets, Overdue) \ {history[i].agent}
        BY <2>3, <3>2 DEF Put, Drop
      <4>2. budgets'[b] = Drop(budgets, Overdue)[b]
        BY <2>3, <4>1 DEF Put, Drop
      <4>3. Drop(budgets, Overdue)[b] = budgets[b]
        BY <2>3 DEF Put, Drop
      <4> QED
        BY <1>1, <4>2, <4>3
    <3> QED
      BY <3>1, <3>2
  <2>4. AmountsOK
    BY DEF IInv
  <2> QED
    BY <1>5, <2>1, <2>2, <2>3, <2>4, CycleBudgets
<1>6. CASE UNCHANGED vars \/ EditFile \/ Amend \/ Tick
  BY <1>1, <1>6 DEF vars, books, EditFile, Amend, Tick
<1>7. ASSUME NEW a, Escalate(a)
      PROVE  b \notin DOMAIN budgets' \/ budgets'[b] = budgets[b]
  BY <1>7, <1>4 DEF Escalate
<1>8. CASE Blameless(b)
  BY <1>8 DEF Earned
<1> QED
  BY <1>1, <1>2, <1>3, <1>4, <1>5, <1>6, <1>7, <1>8 DEF Next

\* An agent is given budget for complying, or because it is or has been disconnected
\* (observe, run_one_cycle, verify_compliance, disconnect_external_agent).
THEOREM BudgetsGrowByCompliance == Spec => BudgetGrowsByCompliance
<1>1. IInv /\ [Next]_vars => \A b \in Agents : Earned(b)
  BY NewBudget, OldBudget
<1>2. IInv /\ [Next]_vars =>
        [\A a \in Agents : BudgetOf(a)' > BudgetOf(a) =>
           \/ Blameless(a)
           \/ a \in Overdue /\ a \in frozen'
           \/ a \notin DOMAIN budgets /\ a \in frozen]_vars
  BY <1>1 DEF Earned
<1> QED
  BY IInvAlways, <1>2, PTL DEF Spec, BudgetGrowsByCompliance
===============================================================================
