----------------------------- MODULE ResidualLoop -----------------------------
(* ResidualLoopEngine.on_cieu_event (ystar/governance/residual_loop_engine.py)  *)
(* as the hook daemon (ystar/_hook_daemon.py) calls it: one thread per client    *)
(* connection, without a lock, so that the tool calls of one session may be     *)
(* handled at once.  A thread is switched at calls, not inside a statement       *)
(* without one, and an exception ends the handler and is logged by the daemon.   *)
(* Residuals are numbers on a scale on which Epsilon is a whole number; the      *)
(* infinite residual of a failed distance function is the largest of them.       *)
EXTENDS Integers, Sequences, FiniteSets

CONSTANTS
  Sessions,
  Handlers,        \* client threads of the daemon
  Residuals,       \* the distances that occur
  Epsilon,         \* convergence_epsilon
  MaxIterations,   \* max_iterations
  Loops,           \* identities of the state dictionaries
  NoLoop

ASSUME LoopAssumption ==
  /\ Residuals \subseteq Nat /\ Epsilon \in Nat /\ MaxIterations \in Nat
  /\ IsFiniteSet(Handlers)
  /\ NoLoop \notin Loops /\ NoLoop \notin Sessions

VARIABLES
  registry,  \* _loop_state: the loop of each session, NoLoop when it has no key
  loops,     \* iterations and residual_history of each dictionary
  job        \* what each thread does, with the dictionary it holds

vars == <<registry, loops, job>>

HistorySize == 5
Blank == [iterations |-> 0, history |-> <<>>]
Idle == [pc |-> "idle", session |-> NoLoop, residual |-> 0, loop |-> NoLoop]
Jobs ==
  {Idle} \cup
  [pc : {"create", "count", "check", "oscillated", "limit", "over", "cleanup"},
   session : Sessions, residual : Residuals, loop : Loops \cup {NoLoop}]

\* Mutant: a deque without maxlen.
AppendedUnbounded(history, r) == Append(history, r)

\* A deque with maxlen = _residual_history_size.
Appended(history, r) ==
  IF Len(history) < HistorySize THEN Append(history, r) ELSE Append(Tail(history), r)

\* At least two changes between rising and falling.
Oscillates(history) ==
  /\ Len(history) >= 4
  /\ LET diff(i) == history[i + 1] - history[i]
     IN Cardinality({i \in 1..(Len(history) - 2) : diff(i) * diff(i + 1) < 0}) >= 2

Converges(r) == r < Epsilon

\* Mutant: the limit is taken for a value the count stops at.
ExceedsExactly(n) == n = MaxIterations + 1

Exceeds(n) == n > MaxIterations

\* A dictionary in _loop_state.
Running(l) == \E s \in Sessions : registry[s] = l

\* A dictionary nobody refers to is collected; the history of one that only a
\* thread still holds is read no more.
Collect(dicts) ==
  [l \in Loops |->
     IF Running(l)' THEN dicts[l]
     ELSE IF \E h \in Handlers : job'[h].loop = l
          THEN [dicts[l] EXCEPT !.history = <<>>]
     ELSE Blank]

Free == {l \in Loops : ~Running(l) /\ \A h \in Handlers : job[h].loop # l}

GoTo(h, pc) == job' = [job EXCEPT ![h].pc = pc]

\* on_cieu_event returns or raises.
Finish(h) ==
  /\ job' = [job EXCEPT ![h] = Idle]
  /\ UNCHANGED registry
  /\ loops' = Collect(loops)

-------------------------------------------------------------------------------
Init ==
  /\ registry = [s \in Sessions |-> NoLoop]
  /\ loops = [l \in Loops |-> Blank]
  /\ job = [h \in Handlers |-> Idle]

\* Mutant: the session's state is initialised by every event.
EnterFresh(h, s, r) ==
  /\ job[h].pc = "idle"
  /\ job' = [job EXCEPT ![h] = [pc |-> "create", session |-> s, residual |-> r,
                                loop |-> NoLoop]]
  /\ UNCHANGED <<registry, loops>>

\* An event of s with a target and residual r.  The loop that is there gets the
\* residual; a missing one is about to be created.
Enter(h, s, r) ==
  /\ job[h].pc = "idle"
  /\ job' = [job EXCEPT ![h] =
       [pc |-> IF registry[s] = NoLoop THEN "create" ELSE "count",
        session |-> s, residual |-> r, loop |-> registry[s]]]
  /\ loops' = IF registry[s] = NoLoop THEN loops
              ELSE [loops EXCEPT ![registry[s]].history = Appended(@, r)]
  /\ UNCHANGED registry

\* The new dictionary replaces one that another thread has put there meanwhile.
Create(h) ==
  /\ job[h].pc = "create"
  /\ LET l == CHOOSE x \in Free : TRUE
     IN /\ Free # {}
        /\ registry' = [registry EXCEPT ![job[h].session] = l]
        /\ job' = [job EXCEPT ![h].pc = "count", ![h].loop = l]
        /\ loops' = Collect([loops EXCEPT ![l].history = <<job[h].residual>>])

\* state["iterations"] += 1
Count(h) ==
  /\ job[h].pc = "count"
  /\ loops' = [loops EXCEPT ![job[h].loop].iterations = @ + 1]
  /\ GoTo(h, "check")
  /\ UNCHANGED registry

\* _emit_convergence
Converge(h) ==
  /\ job[h].pc = "check"
  /\ Converges(job[h].residual)
  /\ GoTo(h, "cleanup")
  /\ UNCHANGED <<registry, loops>>

\* _oscillation_detected looks the session up again: the loop it judges may not
\* be the one the residual went to.  The lookup and the reading of the history
\* are one step.
CheckOscillation(h) ==
  LET l == registry[job[h].session]
  IN /\ job[h].pc = "check"
     /\ ~Converges(job[h].residual)
     /\ GoTo(h, IF l # NoLoop /\ Oscillates(loops[l].history) THEN "oscillated" ELSE "limit")
     /\ UNCHANGED <<registry, loops>>

\* Below the limit the next action is pulled and emitted and the loop goes on.
CheckLimit(h) ==
  /\ job[h].pc = "limit"
  /\ IF Exceeds(loops[job[h].loop].iterations)
     THEN GoTo(h, "over") /\ UNCHANGED <<registry, loops>>
     ELSE Finish(h)

\* _emit_oscillation_break, _emit_escalate_board: both read the session's state
\* for the event they write, a KeyError when it is gone.
Report(h) ==
  /\ job[h].pc \in {"oscillated", "over"}
  /\ IF registry[job[h].session] = NoLoop
     THEN Finish(h)
     ELSE GoTo(h, "cleanup") /\ UNCHANGED <<registry, loops>>

\* _cleanup_session: whatever loop the session has by now.
Cleanup(h) ==
  /\ job[h].pc = "cleanup"
  /\ registry' = [registry EXCEPT ![job[h].session] = NoLoop]
  /\ job' = [job EXCEPT ![h] = Idle]
  /\ loops' = Collect(loops)

Handle(h) ==
  Create(h) \/ Count(h) \/ Converge(h) \/ CheckOscillation(h) \/ CheckLimit(h)
    \/ Report(h) \/ Cleanup(h)

Next ==
  \E h \in Handlers :
    Handle(h) \/ \E s \in Sessions, r \in Residuals : Enter(h, s, r)

\* The scheduler runs every thread; nothing says that events keep coming.
Spec == Init /\ [][Next]_vars /\ \A h \in Handlers : WF_vars(Handle(h))

-------------------------------------------------------------------------------
(* Properties.                                                                  *)

(* The registry, the dictionaries and the threads have their types, and a       *)
(* history never holds more residuals than the detector's window.               *)
TypeOK ==
  /\ registry \in [Sessions -> Loops \cup {NoLoop}]
  /\ loops \in [Loops -> [iterations : Nat, history : Seq(Residuals)]]
  /\ \A l \in Loops : Len(loops[l].history) <= HistorySize
  /\ job \in [Handlers -> Jobs]

(* However the threads of a session race (lost initialisations, loops deleted   *)
(* under a running handler), the count of a loop passes the limit by no more    *)
(* than one event of each thread: who counts beyond it ends the loop or finds   *)
(* it ended.                                                                    *)
IterationsBounded ==
  \A l \in Loops : loops[l].iterations <= MaxIterations + Cardinality(Handlers)

Uncounted(l) == {h \in Handlers : job[h].pc = "count" /\ job[h].loop = l}

(* The history of the dictionary that is running holds the residuals counted in *)
(* that dictionary and those about to be, up to the window, and none of an      *)
(* earlier one.  It does not hold those of a dictionary that a lost             *)
(* initialisation replaced: they are gone with it.                              *)
HistoryIsCounted ==
  \A l \in Loops :
    LET n == loops[l].iterations + Cardinality(Uncounted(l))
    IN Running(l) =>
         Len(loops[l].history) = IF n < HistorySize THEN n ELSE HistorySize

(* While events of a session keep coming, its loops keep being ended by a       *)
(* report, of convergence, oscillation or escalation: whatever the races, no    *)
(* stream of events keeps the loop below its limit for ever.                    *)
EventsEndInReport ==
  \A s \in Sessions :
    []<>(\E h \in Handlers : job[h].session = s)
      => []<>(\E h \in Handlers : job[h].session = s /\ job[h].pc = "cleanup")

=============================================================================
