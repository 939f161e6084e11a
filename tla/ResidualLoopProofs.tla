-------------------------- MODULE ResidualLoopProofs --------------------------
(* Proofs about ResidualLoop for any number of sessions and of threads.  Both   *)
(* invariants count threads: those that hold a loop and have not counted their  *)
(* event in it yet, and those that have.  A thread of the second kind does not  *)
(* leave a running loop that is beyond its limit: it ends it.                   *)
EXTENDS ResidualLoop, FiniteSetTheorems, TLAPS

Dicts == [iterations : Nat, history : Seq(Residuals)]
Counted == {"check", "oscillated", "limit", "over", "cleanup"}
Counters(l) == {h \in Handlers : job[h].pc \in Counted /\ job[h].loop = l}

\* A thread holds a dictionary from its creation or lookup to its last step.
JobsHold ==
  \A h \in Handlers :
    IF job[h].pc \in {"idle", "create"} THEN job[h].loop = NoLoop
    ELSE job[h].loop \in Loops

\* A running loop is held by threads of its own session only.
LoopsOwned ==
  \A s \in Sessions : registry[s] # NoLoop =>
    /\ \A t \in Sessions : registry[t] = registry[s] => t = s
    /\ \A h \in Handlers : job[h].loop = registry[s] => job[h].session = s

FreeBlank == \A l \in Free : loops[l] = Blank

\* The events beyond the limit have threads that are about to end the loop.
RunningBounded ==
  \A l \in Loops : Running(l) =>
    loops[l].iterations <= MaxIterations + Cardinality(Counters(l))

\* Whoever has not counted yet still has room below the bound.
RoomLeft ==
  \A l \in Loops :
    loops[l].iterations + Cardinality(Uncounted(l)) <= MaxIterations + Cardinality(Handlers)

Inv ==
  TypeOK /\ JobsHold /\ LoopsOwned /\ FreeBlank /\ HistoryIsCounted /\ RunningBounded /\ RoomLeft

-------------------------------------------------------------------------------
(* A history with a residual more is typed and one longer, up to the window.    *)
LEMMA AppendedType ==
  ASSUME NEW history \in Seq(Residuals), Len(history) <= HistorySize, NEW r \in Residuals
  PROVE  /\ Appended(history, r) \in Seq(Residuals)
         /\ Len(Appended(history, r)) =
              IF Len(history) < HistorySize THEN Len(history) + 1 ELSE HistorySize
  BY DEF Appended, HistorySize

(* Disjoint sets of threads: together no more members than there are threads.   *)
ThreadsCounted(A, B) ==
  /\ IsFiniteSet(A) /\ IsFiniteSet(B)
  /\ Cardinality(A) \in Nat /\ Cardinality(B) \in Nat /\ Cardinality(Handlers) \in Nat
  /\ Cardinality(A) + Cardinality(B) <= Cardinality(Handlers)

(* Threads are finitely many, so that disjoint sets of them can be counted.     *)
LEMMA ThreadsAreCounted ==
  ASSUME NEW A \in SUBSET Handlers, NEW B \in SUBSET Handlers, A \cap B = {}
  PROVE  ThreadsCounted(A, B)
<1>1. IsFiniteSet(Handlers)
  BY LoopAssumption
<1>2. IsFiniteSet(A) /\ IsFiniteSet(B)
  BY <1>1, FS_Subset
<1>3. Cardinality(A \cup B) = Cardinality(A) + Cardinality(B) - Cardinality(A \cap B)
  BY <1>2, FS_Union
<1>4. Cardinality(A \cap B) = 0
  BY FS_EmptySet
<1>5. Cardinality(A \cup B) <= Cardinality(Handlers)
  BY <1>1, FS_Subset
<1>6. /\ Cardinality(A) \in Nat /\ Cardinality(B) \in Nat
      /\ Cardinality(Handlers) \in Nat
  BY <1>1, <1>2, FS_CardinalityType
<1> QED
  BY <1>2, <1>3, <1>4, <1>5, <1>6 DEF ThreadsCounted

(* The threads of a loop that have counted and those that have not.             *)
LEMMA ThreadsOf ==
  ASSUME NEW l
  PROVE  ThreadsCounted(Uncounted(l), Counters(l))
  BY ThreadsAreCounted DEF Uncounted, Counters, Counted

(* What a collection leaves: the dictionaries of the registry as they are, no   *)
(* higher count anywhere, and nothing of a dictionary that is free.             *)
LEMMA Collected ==
  ASSUME NEW dicts, dicts \in [Loops -> Dicts],
         \A l \in Loops : Len(dicts[l].history) <= HistorySize,
         loops' = Collect(dicts)
  PROVE  /\ loops' \in [Loops -> Dicts]
         /\ \A l \in Loops : Len(loops'[l].history) <= HistorySize
         /\ \A l \in Loops : loops'[l].iterations <= dicts[l].iterations
         /\ \A l \in Loops : Running(l)' => loops'[l] = dicts[l]
         /\ FreeBlank'
<1>1. /\ Blank \in Dicts /\ Len(Blank.history) <= HistorySize /\ Blank.iterations = 0
  BY DEF Blank, Dicts, HistorySize
<1>2. \A l \in Loops : /\ [dicts[l] EXCEPT !.history = <<>>] \in Dicts
                       /\ Len([dicts[l] EXCEPT !.history = <<>>].history) <= HistorySize
                       /\ [dicts[l] EXCEPT !.history = <<>>].iterations = dicts[l].iterations
  <2> TAKE l \in Loops
  <2>1. dicts[l] \in Dicts
    OBVIOUS
  <2>2. [dicts[l] EXCEPT !.history = <<>>] = [iterations |-> dicts[l].iterations, history |-> <<>>]
    BY <2>1 DEF Dicts
  <2>3. <<>> \in Seq(Residuals) /\ Len(<<>>) = 0
    OBVIOUS
  <2>4. [iterations |-> dicts[l].iterations, history |-> <<>>] \in Dicts
    BY <2>1, <2>3 DEF Dicts
  <2>5. Len([iterations |-> dicts[l].iterations, history |-> <<>>].history) <= HistorySize
    BY <2>3 DEF HistorySize
  <2> QED
    BY <2>2, <2>4, <2>5
<1>3. \A l \in Loops : dicts[l].iterations \in Nat
  BY DEF Dicts
<1>4. \A l \in Loops :
        loops'[l] = IF Running(l)' THEN dicts[l]
                    ELSE IF \E h \in Handlers : job'[h].loop = l
                         THEN [dicts[l] EXCEPT !.history = <<>>]
                    ELSE Blank
  BY DEF Collect
<1>5. loops' = [l \in Loops |-> loops'[l]]
  BY DEF Collect
<1>6. \A l \in Loops : /\ loops'[l] \in Dicts /\ Len(loops'[l].history) <= HistorySize
                       /\ loops'[l].iterations <= dicts[l].iterations
  <2> TAKE l \in Loops
  <2>1. CASE Running(l)'
    <3>1. loops'[l] = dicts[l]
      BY <1>4, <2>1
    <3>2. dicts[l] \in Dicts /\ dicts[l].iterations \in Nat
      BY <1>3
    <3>3. Len(dicts[l].history) <= HistorySize
      OBVIOUS
    <3>4. dicts[l].iterations <= dicts[l].iterations
      BY <3>2
    <3> QED
      BY <3>1, <3>2, <3>3, <3>4
  <2>2. CASE /\ ~Running(l)'
             /\ \E h \in Handlers : job'[h].loop = l
    <3>1. loops'[l] = [dicts[l] EXCEPT !.history = <<>>]
      BY <1>4, <2>2
    <3> QED
      BY <1>2, <1>3, <3>1
  <2>3. CASE /\ ~Running(l)'
             /\ ~ \E h \in Handlers : job'[h].loop = l
    <3>1. loops'[l] = Blank
      BY <1>4, <2>3
    <3> QED
      BY <1>1, <1>3, <3>1
  <2> QED
    BY <2>1, <2>2, <2>3
<1>7. FreeBlank'
  BY <1>4 DEF FreeBlank, Free
<1> QED
  BY <1>4, <1>5, <1>6, <1>7

-------------------------------------------------------------------------------
(* A thread that is handling an event knows its session and residual.           *)
LEMMA JobType ==
  ASSUME TypeOK, NEW h \in Handlers, job[h].pc # "idle"
  PROVE  /\ job[h].pc \in Counted \cup {"create", "count"}
         /\ job[h].session \in Sessions /\ job[h].residual \in Residuals
         /\ job[h] = [pc |-> job[h].pc, session |-> job[h].session,
                      residual |-> job[h].residual, loop |-> job[h].loop]
  BY DEF TypeOK, Jobs, Idle, Counted

(* A thread that has counted its event goes on with it.                         *)
LEMMA GoToPreserves ==
  ASSUME Inv, NEW h \in Handlers, NEW pc \in Counted, job[h].pc \in Counted,
         GoTo(h, pc), UNCHANGED <<registry, loops>>
  PROVE  Inv'
<1>0. job[h] \in Jobs /\ job[h].pc # "idle" /\ job[h].pc # "create"
  BY DEF Inv, TypeOK, Counted
<1>1. /\ job' = [job EXCEPT ![h] = [job[h] EXCEPT !.pc = pc]]
      /\ job[h] \in [pc : Counted, session : Sessions, residual : Residuals,
                     loop : Loops \cup {NoLoop}]
  <2>1. job' = [job EXCEPT ![h] = [job[h] EXCEPT !.pc = pc]]
    BY DEF GoTo
  <2> QED
    BY <1>0, <2>1 DEF Jobs, Idle, Counted
<1>2. /\ job'[h] = [job[h] EXCEPT !.pc = pc]
      /\ \A g \in Handlers \ {h} : job'[g] = job[g]
  BY <1>1 DEF Inv, TypeOK
<1>3. /\ job'[h].pc = pc /\ job'[h].loop = job[h].loop /\ job'[h].session = job[h].session
      /\ job'[h] \in Jobs
  BY <1>1, <1>2 DEF Jobs, Counted
<1>4. \A l : Uncounted(l)' = Uncounted(l) /\ Counters(l)' = Counters(l)
  BY <1>2, <1>3 DEF Uncounted, Counters, Counted
<1>5. TypeOK'
  <2>1. job' \in [Handlers -> Jobs]
    BY <1>1, <1>2, <1>3 DEF Inv, TypeOK
  <2> QED
    BY <2>1 DEF Inv, TypeOK
<1>6. JobsHold'
  BY <1>2, <1>3 DEF Inv, JobsHold, Counted
<1>7. LoopsOwned'
  <2>1. \A g \in Handlers : job'[g].loop = job[g].loop /\ job'[g].session = job[g].session
    BY <1>2, <1>3
  <2> QED
    BY <2>1 DEF Inv, LoopsOwned
<1>8. FreeBlank'
  BY <1>2, <1>3 DEF Inv, FreeBlank, Free, Running
<1>9. HistoryIsCounted'
  BY <1>4 DEF Inv, HistoryIsCounted, Running
<1>10. RunningBounded' /\ RoomLeft'
  BY <1>4 DEF Inv, RunningBounded, RoomLeft, Running
<1> QED
  BY <1>5, <1>6, <1>7, <1>8, <1>9, <1>10 DEF Inv

(* A thread that is done with its event: the loops that go on are running loops *)
(* of before, and the thread's own only goes on below the limit.                *)
LEMMA LeavePreserves ==
  ASSUME Inv, NEW h \in Handlers, job[h].pc \in Counted,
         registry' \in [Sessions -> Loops \cup {NoLoop}],
         \A s \in Sessions : registry'[s] \in {registry[s], NoLoop},
         \A s \in Sessions :
           registry'[s] = job[h].loop => loops[job[h].loop].iterations <= MaxIterations,
         job' = [job EXCEPT ![h] = Idle],
         loops' = Collect(loops)
  PROVE  Inv'
<1>1. job'[h] = Idle /\ \A g \in Handlers \ {h} : job'[g] = job[g]
  BY DEF Inv, TypeOK
<1>2. Idle.pc = "idle" /\ Idle.loop = NoLoop /\ Idle \in Jobs
  BY DEF Idle, Jobs
<1>3. /\ loops \in [Loops -> Dicts]
      /\ \A l \in Loops : Len(loops[l].history) <= HistorySize
  BY DEF Inv, TypeOK, Dicts
<1>4. /\ loops' \in [Loops -> Dicts]
      /\ \A l \in Loops : Len(loops'[l].history) <= HistorySize
      /\ \A l \in Loops : loops'[l].iterations <= loops[l].iterations
      /\ \A l \in Loops : Running(l)' => loops'[l] = loops[l]
      /\ FreeBlank'
  BY <1>3, Collected
<1>5. NoLoop \notin Loops
  BY LoopAssumption
<1>6. \A l \in Loops : Uncounted(l)' = Uncounted(l)
  BY <1>1, <1>2 DEF Uncounted, Counted
<1>7. \A l \in Loops : l # job[h].loop => Counters(l)' = Counters(l)
  BY <1>1, <1>2, <1>5 DEF Counters
<1>8. \A s \in Sessions : registry'[s] # NoLoop => registry'[s] = registry[s] /\ registry[s] \in Loops
  BY DEF Inv, TypeOK
<1>9. TypeOK'
  <2>1. job' \in [Handlers -> Jobs]
    BY <1>1, <1>2 DEF Inv, TypeOK
  <2> QED
    BY <1>4, <2>1 DEF TypeOK, Dicts
<1>10. JobsHold'
  BY <1>1, <1>2 DEF Inv, JobsHold
<1>11. LoopsOwned'
  <2> SUFFICES ASSUME NEW s \in Sessions, registry'[s] # NoLoop
               PROVE  /\ \A t \in Sessions : registry'[t] = registry'[s] => t = s
                      /\ \A g \in Handlers : job'[g].loop = registry'[s] => job'[g].session = s
    BY DEF LoopsOwned
  <2>1. \A t \in Sessions : registry'[t] = registry'[s] => t = s
    BY <1>8 DEF Inv, LoopsOwned
  <2>2. \A g \in Handlers : job'[g].loop = registry'[s] => g # h
    BY <1>1, <1>2
  <2>3. \A g \in Handlers : job'[g].loop = registry'[s] => job'[g].session = s
    BY <1>1, <1>8, <2>2 DEF Inv, LoopsOwned
  <2> QED
    BY <2>1, <2>3
<1>12. \A l \in Loops : Running(l)' => Running(l)
  BY <1>8, <1>5 DEF Running
<1>13. HistoryIsCounted'
  <2> SUFFICES ASSUME NEW l \in Loops, Running(l)'
               PROVE  LET n == loops'[l].iterations + Cardinality(Uncounted(l)')
                      IN Len(loops'[l].history) = IF n < HistorySize THEN n ELSE HistorySize
    BY DEF HistoryIsCounted
  <2>1. Running(l) /\ loops'[l] = loops[l] /\ Uncounted(l)' = Uncounted(l)
    BY <1>4, <1>6, <1>12
  <2> QED
    BY <2>1 DEF Inv, HistoryIsCounted
<1>14. RunningBounded'
  <2> SUFFICES ASSUME NEW l \in Loops, Running(l)'
               PROVE  loops'[l].iterations <= MaxIterations + Cardinality(Counters(l)')
    BY DEF RunningBounded
  <2>1. Running(l) /\ loops'[l] = loops[l] /\ loops[l].iterations \in Nat
    BY <1>3, <1>4, <1>12 DEF Dicts
  <2>2. CASE l = job[h].loop
    <3>1. Counters(l)' \in SUBSET Handlers /\ IsFiniteSet(Handlers)
      BY LoopAssumption DEF Counters
    <3>2. Cardinality(Counters(l)') \in Nat
      BY <3>1, FS_Subset, FS_CardinalityType
    <3>3. loops'[l].iterations <= MaxIterations
      BY <2>1, <2>2 DEF Running
    <3> QED
      BY <2>1, <3>2, <3>3, LoopAssumption
  <2>3. CASE l # job[h].loop
    BY <1>7, <2>1, <2>3 DEF Inv, RunningBounded
  <2> QED
    BY <2>2, <2>3
<1>15. RoomLeft'
  <2> SUFFICES ASSUME NEW l \in Loops
               PROVE  loops'[l].iterations + Cardinality(Uncounted(l)') <=
                        MaxIterations + Cardinality(Handlers)
    BY DEF RoomLeft
  <2>1. loops[l].iterations + Cardinality(Uncounted(l)) <= MaxIterations + Cardinality(Handlers)
    BY DEF Inv, RoomLeft
  <2>2. loops'[l].iterations \in Nat /\ loops[l].iterations \in Nat
    BY <1>3, <1>4 DEF Dicts
  <2>3. Cardinality(Uncounted(l)) \in Nat /\ Cardinality(Handlers) \in Nat
    BY ThreadsOf DEF ThreadsCounted
  <2> QED
    BY <1>4, <1>6, <2>1, <2>2, <2>3, LoopAssumption
<1> QED
  BY <1>4, <1>9, <1>10, <1>11, <1>13, <1>14, <1>15 DEF Inv

(* Counting moves the thread from those that have room left to those that end   *)
(* the loop.                                                                    *)
LEMMA CountPreserves ==
  ASSUME Inv, NEW h \in Handlers, Count(h)
  PROVE  Inv'
<1> SUFFICES ASSUME NEW k \in Loops, job[h].loop = k
             PROVE  Inv'
  BY DEF Inv, JobsHold, Count
<1>1. /\ job[h] \in Jobs /\ job[h].pc = "count"
      /\ job[h] \in [pc : {"count"}, session : Sessions, residual : Residuals,
                     loop : Loops \cup {NoLoop}]
  BY DEF Inv, TypeOK, JobsHold, Count, Jobs, Idle
<1>2. /\ job'[h] = [job[h] EXCEPT !.pc = "check"]
      /\ \A g \in Handlers \ {h} : job'[g] = job[g]
  BY DEF Inv, TypeOK, Count, GoTo
<1>3. /\ job'[h].pc = "check" /\ job'[h].loop = k /\ job'[h].session = job[h].session
      /\ job'[h] \in Jobs
  BY <1>1, <1>2 DEF Jobs
<1>4. /\ loops[k] \in Dicts
      /\ loops'[k].iterations = loops[k].iterations + 1
      /\ loops'[k].history = loops[k].history
      /\ loops'[k] \in Dicts
  <2>1. /\ loops[k] \in Dicts
        /\ loops'[k] = [loops[k] EXCEPT !.iterations = loops[k].iterations + 1]
    BY <1>1 DEF Inv, TypeOK, Count, Dicts
  <2> QED
    BY <2>1 DEF Dicts
<1>5. \A l \in Loops \ {k} : loops'[l] = loops[l]
  BY <1>1 DEF Inv, TypeOK, Count
<1>6. registry' = registry /\ \A l : Running(l)' = Running(l)
  BY DEF Count, Running
<1>7. /\ Uncounted(k)' = Uncounted(k) \ {h} /\ h \in Uncounted(k)
      /\ Counters(k)' = Counters(k) \cup {h} /\ h \notin Counters(k)
  BY <1>1, <1>2, <1>3 DEF Uncounted, Counters, Counted
<1>8. \A l \in Loops \ {k} : Uncounted(l)' = Uncounted(l) /\ Counters(l)' = Counters(l)
  <2> TAKE l \in Loops \ {k}
  <2>1. \A g \in Handlers : (job[g].loop = l \/ job'[g].loop = l) => job'[g] = job[g]
    BY <1>2, <1>3
  <2> QED
    BY <2>1 DEF Uncounted, Counters
<1>9. /\ Cardinality(Uncounted(k)') = Cardinality(Uncounted(k)) - 1
      /\ Cardinality(Counters(k)') = Cardinality(Counters(k)) + 1
      /\ Cardinality(Uncounted(k)) \in Nat /\ Cardinality(Counters(k)) \in Nat
  <2>1. /\ IsFiniteSet(Uncounted(k)) /\ IsFiniteSet(Counters(k))
        /\ Cardinality(Uncounted(k)) \in Nat /\ Cardinality(Counters(k)) \in Nat
    BY ThreadsOf DEF ThreadsCounted
  <2>2. Cardinality(Uncounted(k) \ {h}) = Cardinality(Uncounted(k)) - 1
    BY <1>7, <2>1, FS_RemoveElement
  <2>3. Cardinality(Counters(k) \cup {h}) = Cardinality(Counters(k)) + 1
    BY <1>7, <2>1, FS_AddElement
  <2> QED
    BY <1>7, <2>1, <2>2, <2>3
<1>10. TypeOK'
  <2>1. job' \in [Handlers -> Jobs]
    BY <1>2, <1>3 DEF Inv, TypeOK, Count, GoTo
  <2>2. loops' \in [Loops -> Dicts]
    BY <1>4, <1>5 DEF Inv, TypeOK, Count, Dicts
  <2>3. \A l \in Loops : Len(loops'[l].history) <= HistorySize
    BY <1>4, <1>5 DEF Inv, TypeOK
  <2> QED
    BY <1>6, <2>1, <2>2, <2>3 DEF Inv, TypeOK, Dicts
<1>11. JobsHold'
  BY <1>1, <1>2, <1>3 DEF Inv, JobsHold
<1>12. LoopsOwned'
  <2>1. \A g \in Handlers : job'[g].loop = job[g].loop /\ job'[g].session = job[g].session
    BY <1>2, <1>3
  <2> QED
    BY <1>6, <2>1 DEF Inv, LoopsOwned
<1>13. FreeBlank'
  BY <1>1, <1>2, <1>3, <1>5, <1>6 DEF Inv, FreeBlank, Free
<1>14. HistoryIsCounted'
  <2> SUFFICES ASSUME NEW l \in Loops, Running(l)
               PROVE  LET n == loops'[l].iterations + Cardinality(Uncounted(l)')
                      IN Len(loops'[l].history) = IF n < HistorySize THEN n ELSE HistorySize
    BY <1>6 DEF HistoryIsCounted
  <2>1. loops'[l].iterations + Cardinality(Uncounted(l)')
          = loops[l].iterations + Cardinality(Uncounted(l))
    <3>1. loops[k].iterations \in Nat
      BY <1>4 DEF Dicts
    <3>2. CASE l = k
      BY <1>4, <1>9, <3>1, <3>2
    <3>3. CASE l # k
      BY <1>5, <1>8, <3>3
    <3> QED
      BY <3>2, <3>3
  <2>2. loops'[l].history = loops[l].history
    BY <1>4, <1>5
  <2> QED
    BY <2>1, <2>2 DEF Inv, HistoryIsCounted
<1>15. RunningBounded'
  <2> SUFFICES ASSUME NEW l \in Loops, Running(l)
               PROVE  loops'[l].iterations <= MaxIterations + Cardinality(Counters(l)')
    BY <1>6 DEF RunningBounded
  <2>1. loops[l].iterations <= MaxIterations + Cardinality(Counters(l))
    BY DEF Inv, RunningBounded
  <2>2. CASE l = k
    BY <1>4, <1>9, <2>1, <2>2, LoopAssumption DEF Dicts
  <2>3. CASE l # k
    BY <1>5, <1>8, <2>1, <2>3
  <2> QED
    BY <2>2, <2>3
<1>16. RoomLeft'
  <2> SUFFICES ASSUME NEW l \in Loops
               PROVE  loops'[l].iterations + Cardinality(Uncounted(l)') <=
                        MaxIterations + Cardinality(Handlers)
    BY DEF RoomLeft
  <2>1. loops[l].iterations + Cardinality(Uncounted(l)) <= MaxIterations + Cardinality(Handlers)
    BY DEF Inv, RoomLeft
  <2>2. CASE l = k
    BY <1>4, <1>9, <2>1, <2>2, ThreadsOf, LoopAssumption DEF Dicts, ThreadsCounted
  <2>3. CASE l # k
    BY <1>5, <1>8, <2>1, <2>3
  <2> QED
    BY <2>2, <2>3
<1> QED
  BY <1>10, <1>11, <1>12, <1>13, <1>14, <1>15, <1>16 DEF Inv

(* An event of a session without a loop changes nothing yet.                    *)
LEMMA EnterNewPreserves ==
  ASSUME Inv, NEW h \in Handlers, NEW s \in Sessions, NEW r \in Residuals,
         Enter(h, s, r), registry[s] = NoLoop
  PROVE  Inv'
<1>1. /\ job'[h] = [pc |-> "create", session |-> s, residual |-> r, loop |-> NoLoop]
      /\ \A g \in Handlers \ {h} : job'[g] = job[g]
      /\ UNCHANGED <<registry, loops>>
  BY DEF Inv, TypeOK, Enter
<1>2. job[h].pc = "idle" /\ job[h].loop = NoLoop
  BY DEF Inv, JobsHold, Enter
<1>3. NoLoop \notin Loops
  BY LoopAssumption
<1>4. job'[h] \in Jobs /\ job'[h].pc = "create" /\ job'[h].loop = NoLoop
  BY <1>1 DEF Jobs
<1>5. \A l \in Loops : Uncounted(l)' = Uncounted(l) /\ Counters(l)' = Counters(l)
  BY <1>1, <1>2, <1>3, <1>4 DEF Uncounted, Counters
<1>6. \A l : Running(l)' = Running(l)
  BY <1>1 DEF Running
<1>7. TypeOK'
  <2>1. job' \in [Handlers -> Jobs]
    BY <1>1, <1>4 DEF Inv, TypeOK, Enter
  <2> QED
    BY <1>1, <2>1 DEF Inv, TypeOK
<1>8. JobsHold'
  BY <1>1, <1>4 DEF Inv, JobsHold
<1>9. LoopsOwned'
  <2>1. \A g \in Handlers : job'[g].loop # NoLoop => job'[g] = job[g]
    BY <1>1, <1>4
  <2> QED
    BY <1>1, <2>1 DEF Inv, LoopsOwned
<1>10. FreeBlank'
  BY <1>1, <1>2, <1>3, <1>6 DEF Inv, FreeBlank, Free
<1>11. HistoryIsCounted' /\ RunningBounded' /\ RoomLeft'
  BY <1>1, <1>5, <1>6 DEF Inv, HistoryIsCounted, RunningBounded, RoomLeft
<1> QED
  BY <1>7, <1>8, <1>9, <1>10, <1>11 DEF Inv

(* An event of a session with a loop adds its residual, and its thread to the   *)
(* loop's threads that have not counted.                                        *)
LEMMA EnterOldPreserves ==
  ASSUME Inv, NEW h \in Handlers, NEW s \in Sessions, NEW r \in Residuals,
         NEW k \in Loops, Enter(h, s, r), registry[s] = k
  PROVE  Inv'
<1>0. NoLoop \notin Loops /\ k # NoLoop
  BY LoopAssumption
<1>1. /\ job'[h] = [pc |-> "count", session |-> s, residual |-> r, loop |-> k]
      /\ \A g \in Handlers \ {h} : job'[g] = job[g]
      /\ registry' = registry
      /\ loops' = [loops EXCEPT ![k].history = Appended(loops[k].history, r)]
  BY <1>0 DEF Inv, TypeOK, Enter
<1>2. job[h].pc = "idle" /\ job[h].loop = NoLoop
  BY DEF Inv, JobsHold, Enter
<1>3. /\ job'[h] \in Jobs /\ job'[h].pc = "count" /\ job'[h].loop = k
      /\ job'[h].session = s
  BY <1>1 DEF Jobs
<1>4. /\ loops[k] \in Dicts /\ loops'[k] \in Dicts
      /\ loops'[k].iterations = loops[k].iterations
      /\ Len(loops'[k].history) =
           IF Len(loops[k].history) < HistorySize THEN Len(loops[k].history) + 1
           ELSE HistorySize
  <2>1. loops[k] \in Dicts /\ Len(loops[k].history) <= HistorySize
    BY DEF Inv, TypeOK, Dicts
  <2>2. loops[k].history \in Seq(Residuals) /\ loops[k].iterations \in Nat
    BY <2>1 DEF Dicts
  <2>3. /\ Appended(loops[k].history, r) \in Seq(Residuals)
        /\ Len(Appended(loops[k].history, r)) =
             IF Len(loops[k].history) < HistorySize THEN Len(loops[k].history) + 1
             ELSE HistorySize
    BY <2>1, <2>2, AppendedType
  <2>4. loops'[k] = [loops[k] EXCEPT !.history = Appended(loops[k].history, r)]
    BY <1>1 DEF Inv, TypeOK
  <2>5. loops'[k] = [iterations |-> loops[k].iterations,
                     history |-> Appended(loops[k].history, r)]
    BY <2>1, <2>4 DEF Dicts
  <2> QED
    BY <2>1, <2>2, <2>3, <2>5 DEF Dicts
<1>5. \A l \in Loops \ {k} : loops'[l] = loops[l]
  BY <1>1 DEF Inv, TypeOK
<1>6. \A l : Running(l)' = Running(l)
  BY <1>1 DEF Running
<1>7. /\ Uncounted(k)' = Uncounted(k) \cup {h} /\ h \notin Uncounted(k)
      /\ Counters(k)' = Counters(k)
  BY <1>1, <1>2, <1>3 DEF Uncounted, Counters, Counted
<1>8. \A l \in Loops \ {k} : Uncounted(l)' = Uncounted(l) /\ Counters(l)' = Counters(l)
  <2> TAKE l \in Loops \ {k}
  <2>1. \A g \in Handlers : (job[g].loop = l \/ job'[g].loop = l) => job'[g] = job[g]
    BY <1>0, <1>1, <1>2, <1>3
  <2> QED
    BY <2>1 DEF Uncounted, Counters
<1>9. /\ Cardinality(Uncounted(k)') = Cardinality(Uncounted(k)) + 1
      /\ Cardinality(Uncounted(k)) \in Nat
  BY <1>7, ThreadsOf, FS_AddElement DEF ThreadsCounted
<1>10. TypeOK'
  <2>1. job' \in [Handlers -> Jobs]
    BY <1>1, <1>3 DEF Inv, TypeOK, Enter
  <2>2. loops' \in [Loops -> Dicts]
    BY <1>1, <1>4, <1>5 DEF Inv, TypeOK, Dicts
  <2>3. \A l \in Loops : Len(loops'[l].history) <= HistorySize
    BY <1>4, <1>5 DEF Inv, TypeOK, HistorySize
  <2> QED
    BY <1>1, <2>1, <2>2, <2>3 DEF Inv, TypeOK, Dicts
<1>11. JobsHold'
  BY <1>1, <1>3 DEF Inv, JobsHold
<1>12. LoopsOwned'
  BY <1>1, <1>3 DEF Inv, LoopsOwned
<1>13. FreeBlank'
  <2>1. \A l \in Loops : l \in Free' => l \in Free /\ l # k
    BY <1>0, <1>1, <1>2, <1>3, <1>6 DEF Free
  <2> QED
    BY <1>5, <2>1 DEF Inv, FreeBlank, Free
<1>14. HistoryIsCounted'
  <2> SUFFICES ASSUME NEW l \in Loops, Running(l)
               PROVE  LET n == loops'[l].iterations + Cardinality(Uncounted(l)')
                      IN Len(loops'[l].history) = IF n < HistorySize THEN n ELSE HistorySize
    BY <1>6 DEF HistoryIsCounted
  <2>1. LET n == loops[l].iterations + Cardinality(Uncounted(l))
        IN Len(loops[l].history) = IF n < HistorySize THEN n ELSE HistorySize
    BY DEF Inv, HistoryIsCounted
  <2>2. CASE l = k
    <3>1. loops[k].iterations \in Nat
      BY <1>4 DEF Dicts
    <3>2. LET n == loops[k].iterations + Cardinality(Uncounted(k)) + 1
          IN Len(loops'[k].history) = IF n < HistorySize THEN n ELSE HistorySize
      BY <1>4, <1>9, <2>1, <2>2, <3>1 DEF HistorySize
    <3>3. loops'[k].iterations + Cardinality(Uncounted(k)')
            = loops[k].iterations + Cardinality(Uncounted(k)) + 1
      BY <1>4, <1>9, <3>1
    <3> QED
      BY <2>2, <3>2, <3>3
  <2>3. CASE l # k
    BY <1>5, <1>8, <2>1, <2>3
  <2> QED
    BY <2>2, <2>3
<1>15. RunningBounded'
  <2> SUFFICES ASSUME NEW l \in Loops, Running(l)
               PROVE  loops'[l].iterations <= MaxIterations + Cardinality(Counters(l)')
    BY <1>6 DEF RunningBounded
  <2> QED
    BY <1>4, <1>5, <1>7, <1>8 DEF Inv, RunningBounded
<1>16. RoomLeft'
  <2>1. Running(k)
    BY DEF Running
  <2>2. loops[k].iterations <= MaxIterations + Cardinality(Counters(k))
    BY <2>1 DEF Inv, RunningBounded
  <2>3. /\ Cardinality(Uncounted(k)') + Cardinality(Counters(k)) <= Cardinality(Handlers)
        /\ Cardinality(Uncounted(k)') \in Nat /\ Cardinality(Counters(k)) \in Nat
        /\ Cardinality(Handlers) \in Nat /\ loops[k].iterations \in Nat
    <3>1. /\ Uncounted(k)' = {g \in Handlers : job'[g].pc = "count" /\ job'[g].loop = k}
          /\ Counters(k)' = {g \in Handlers : job'[g].pc \in Counted /\ job'[g].loop = k}
      BY DEF Uncounted, Counters
    <3>2. ThreadsCounted(Uncounted(k)', Counters(k)')
      BY <3>1, ThreadsAreCounted DEF Counted
    <3> QED
      BY <1>4, <1>7, <3>2 DEF ThreadsCounted, Dicts
  <2>4. loops'[k].iterations + Cardinality(Uncounted(k)') <= MaxIterations + Cardinality(Handlers)
    BY <1>4, <2>2, <2>3, LoopAssumption
  <2> QED
    BY <1>5, <1>8, <2>4 DEF Inv, RoomLeft
<1> QED
  BY <1>10, <1>11, <1>12, <1>13, <1>14, <1>15, <1>16 DEF Inv

(* A new dictionary starts with one residual that its thread has yet to count;  *)
(* the one it replaces, if any, loses what is not counted.                      *)
LEMMA CreatePreserves ==
  ASSUME Inv, NEW h \in Handlers, Create(h)
  PROVE  Inv'
<1> SUFFICES ASSUME NEW k \in Free,
                    registry' = [registry EXCEPT ![job[h].session] = k],
                    job' = [job EXCEPT ![h].pc = "count", ![h].loop = k],
                    loops' = Collect([loops EXCEPT ![k].history = <<job[h].residual>>])
             PROVE  Inv'
  BY DEF Create
<1> DEFINE dicts == [loops EXCEPT ![k].history = <<job[h].residual>>]
<1>0. /\ NoLoop \notin Loops /\ k \in Loops /\ ~Running(k)
      /\ \A g \in Handlers : job[g].loop # k
  BY LoopAssumption DEF Free
<1>1. /\ job[h].session \in Sessions /\ job[h].residual \in Residuals
      /\ job[h].pc = "create" /\ job[h].loop = NoLoop
      /\ job[h] = [pc |-> job[h].pc, session |-> job[h].session,
                   residual |-> job[h].residual, loop |-> job[h].loop]
  BY JobType DEF Inv, JobsHold, Create
<1> SUFFICES ASSUME NEW s \in Sessions, NEW r \in Residuals,
                    job[h].session = s, job[h].residual = r
             PROVE  Inv'
  BY <1>1
<1>2. /\ job'[h] = [pc |-> "count", session |-> s, residual |-> r, loop |-> k]
      /\ \A g \in Handlers \ {h} : job'[g] = job[g]
  <2>1. job'[h] = [[job[h] EXCEPT !.pc = "count"] EXCEPT !.loop = k]
    BY DEF Inv, TypeOK
  <2>2. job'[h] = [pc |-> "count", session |-> s, residual |-> r, loop |-> k]
    <3>1. job[h] = [pc |-> "create", session |-> s, residual |-> r, loop |-> NoLoop]
      BY <1>1
    <3>2. [job[h] EXCEPT !.pc = "count"]
            = [pc |-> "count", session |-> s, residual |-> r, loop |-> NoLoop]
      BY ONLY <3>1
    <3>3. [[pc |-> "count", session |-> s, residual |-> r, loop |-> NoLoop] EXCEPT !.loop = k]
            = [pc |-> "count", session |-> s, residual |-> r, loop |-> k]
      OBVIOUS
    <3> QED
      BY ONLY <2>1, <3>2, <3>3
  <2>3. \A g \in Handlers \ {h} : job'[g] = job[g]
    BY DEF Inv, TypeOK
  <2> QED
    BY <2>2, <2>3
<1>3. /\ job'[h] \in Jobs /\ job'[h].pc = "count" /\ job'[h].loop = k
      /\ job'[h].session = s
  <2>1. [pc |-> "count", session |-> s, residual |-> r, loop |-> k] \in Jobs
    BY <1>0 DEF Jobs
  <2>2. /\ [pc |-> "count", session |-> s, residual |-> r, loop |-> k].pc = "count"
        /\ [pc |-> "count", session |-> s, residual |-> r, loop |-> k].loop = k
        /\ [pc |-> "count", session |-> s, residual |-> r, loop |-> k].session = s
    OBVIOUS
  <2> QED
    BY ONLY <1>2, <2>1, <2>2
<1>4. /\ registry'[s] = k
      /\ \A t \in Sessions \ {s} : registry'[t] = registry[t]
      /\ registry' \in [Sessions -> Loops \cup {NoLoop}]
  BY <1>0 DEF Inv, TypeOK
<1>5. /\ dicts[k] = [iterations |-> 0, history |-> <<r>>]
      /\ \A l \in Loops \ {k} : dicts[l] = loops[l]
      /\ dicts \in [Loops -> Dicts]
      /\ \A l \in Loops : Len(dicts[l].history) <= HistorySize
  <2>1. loops[k] = Blank
    BY DEF Inv, FreeBlank
  <2>2. dicts[k] = [loops[k] EXCEPT !.history = <<r>>]
    BY <1>0 DEF Inv, TypeOK
  <2>3. dicts[k] = [iterations |-> 0, history |-> <<r>>]
    BY <2>1, <2>2 DEF Blank
  <2>4. <<r>> \in Seq(Residuals) /\ Len(<<r>>) = 1
    OBVIOUS
  <2>5. dicts[k] \in Dicts /\ Len(dicts[k].history) <= HistorySize
    <3>1. /\ [iterations |-> 0, history |-> <<r>>] \in Dicts
          /\ Len([iterations |-> 0, history |-> <<r>>].history) <= HistorySize
      BY <2>4 DEF Dicts, HistorySize
    <3> HIDE DEF dicts
    <3> QED
      BY <2>3, <3>1
  <2>6. \A l \in Loops \ {k} : dicts[l] = loops[l]
    BY DEF Inv, TypeOK
  <2>7. dicts = [l \in Loops |-> dicts[l]]
    BY DEF Inv, TypeOK
  <2>8. \A l \in Loops \ {k} : dicts[l] \in Dicts /\ Len(dicts[l].history) <= HistorySize
    BY <2>6 DEF Inv, TypeOK, Dicts
  <2>9. dicts \in [Loops -> Dicts]
    <3>1. \A l \in Loops : dicts[l] \in Dicts
      BY <2>5, <2>8
    <3> HIDE DEF dicts
    <3> QED
      BY <2>7, <3>1
  <2> HIDE DEF dicts
  <2> QED
    BY <2>3, <2>5, <2>6, <2>8, <2>9
<1>6. loops' = Collect(dicts)
  OBVIOUS
<1> HIDE DEF dicts
<1>7. /\ loops' \in [Loops -> Dicts]
      /\ \A l \in Loops : Len(loops'[l].history) <= HistorySize
      /\ \A l \in Loops : loops'[l].iterations <= dicts[l].iterations
      /\ \A l \in Loops : Running(l)' => loops'[l] = dicts[l]
      /\ FreeBlank'
  BY <1>5, <1>6, Collected
<1>8. /\ loops'[k].iterations = 0 /\ Len(loops'[k].history) = 1
  <2>1. Running(k)'
    BY <1>4 DEF Running
  <2>2. loops'[k] = [iterations |-> 0, history |-> <<r>>]
    BY <1>0, <1>5, <1>7, <2>1
  <2> QED
    BY <2>2
<1>9. \A l \in Loops \ {k} : Running(l)' => Running(l) /\ loops'[l] = loops[l]
  <2>1. \A l \in Loops \ {k} : Running(l)' => Running(l)
    BY <1>4 DEF Running
  <2> QED
    BY <1>5, <1>7, <2>1
<1>10. Uncounted(k)' = {h} /\ Counters(k)' = {}
  BY <1>0, <1>2, <1>3 DEF Uncounted, Counters, Counted
<1>11. \A l \in Loops \ {k} : Uncounted(l)' = Uncounted(l) /\ Counters(l)' = Counters(l)
  <2> TAKE l \in Loops \ {k}
  <2>1. \A g \in Handlers : (job[g].loop = l \/ job'[g].loop = l) => job'[g] = job[g]
    BY <1>0, <1>1, <1>2, <1>3
  <2> QED
    BY <2>1 DEF Uncounted, Counters
<1>12. Cardinality(Uncounted(k)') = 1 /\ Cardinality(Counters(k)') = 0
  BY <1>10, FS_Singleton, FS_EmptySet
<1>13. TypeOK'
  <2>1. job' \in [Handlers -> Jobs]
    BY <1>2, <1>3 DEF Inv, TypeOK
  <2> QED
    BY <1>4, <1>7, <2>1 DEF TypeOK, Dicts
<1>14. JobsHold'
  BY <1>0, <1>2, <1>3 DEF Inv, JobsHold
<1>15. LoopsOwned'
  <2> SUFFICES ASSUME NEW t \in Sessions, registry'[t] # NoLoop
               PROVE  /\ \A u \in Sessions : registry'[u] = registry'[t] => u = t
                      /\ \A g \in Handlers : job'[g].loop = registry'[t] => job'[g].session = t
    BY DEF LoopsOwned
  <2>1. \A u \in Sessions \ {s} : registry'[u] = registry[u] /\ registry[u] # k
    BY <1>0, <1>4 DEF Running
  <2>2. CASE t = s
    <3>1. registry'[t] = k
      BY <1>0, <1>4, <2>2
    <3>2. \A u \in Sessions : registry'[u] = k => u = t
      BY <2>1, <2>2
    <3>3. \A g \in Handlers \ {h} : job'[g] = job[g] /\ job[g].loop # k
      BY <1>0, <1>2, <1>3
    <3>4. job'[h].session = s
      BY <1>0, <1>2, <1>3
    <3> QED
      BY <2>2, <3>1, <3>2, <3>3, <3>4
  <2>3. CASE t # s
    <3>1. registry'[t] = registry[t] /\ registry[t] # k /\ registry[t] # NoLoop
      BY <2>1, <2>3
    <3>2. \A u \in Sessions : registry'[u] = registry[t] => u = t
      BY <1>4, <2>1, <3>1 DEF Inv, LoopsOwned
    <3>3. \A g \in Handlers : job'[g].loop = registry[t] => job'[g].session = t
      <4>1. \A g \in Handlers : job'[g].loop = registry[t] => job'[g] = job[g]
        BY ONLY <1>2, <1>3, <3>1
      <4>2. \A g \in Handlers : job[g].loop = registry[t] => job[g].session = t
        BY <3>1 DEF Inv, LoopsOwned
      <4> QED
        BY <4>1, <4>2
    <3> QED
      BY <3>1, <3>2, <3>3
  <2> QED
    BY <2>2, <2>3
<1>16. HistoryIsCounted'
  <2> SUFFICES ASSUME NEW l \in Loops, Running(l)'
               PROVE  LET n == loops'[l].iterations + Cardinality(Uncounted(l)')
                      IN Len(loops'[l].history) = IF n < HistorySize THEN n ELSE HistorySize
    BY DEF HistoryIsCounted
  <2>1. CASE l = k
    <3>1. loops'[k].iterations + Cardinality(Uncounted(k)') = 1
      BY <1>8, <1>12
    <3>2. LET n == loops'[k].iterations + Cardinality(Uncounted(k)')
          IN Len(loops'[k].history) = IF n < HistorySize THEN n ELSE HistorySize
      <4>1. 1 < HistorySize
        BY DEF HistorySize
      <4> QED
        BY ONLY <1>8, <3>1, <4>1
    <3>3. Uncounted(l)' = Uncounted(k)'
      BY ONLY <2>1 DEF Uncounted
    <3> QED
      BY <2>1, <3>2, <3>3
  <2>2. CASE l # k
    <3>1. Running(l) /\ loops'[l] = loops[l] /\ Uncounted(l)' = Uncounted(l)
      BY <1>9, <1>11, <2>2
    <3> QED
      BY <3>1 DEF Inv, HistoryIsCounted
  <2> QED
    BY <2>1, <2>2
<1>17. RunningBounded'
  <2> SUFFICES ASSUME NEW l \in Loops, Running(l)'
               PROVE  loops'[l].iterations <= MaxIterations + Cardinality(Counters(l)')
    BY DEF RunningBounded
  <2>1. CASE l = k
    BY <1>8, <1>12, <2>1, LoopAssumption
  <2>2. CASE l # k
    BY <1>9, <1>11, <2>2 DEF Inv, RunningBounded
  <2> QED
    BY <2>1, <2>2
<1>18. RoomLeft'
  <2> SUFFICES ASSUME NEW l \in Loops
               PROVE  loops'[l].iterations + Cardinality(Uncounted(l)') <=
                        MaxIterations + Cardinality(Handlers)
    BY DEF RoomLeft
  <2>1. CASE l = k
    <3>1. Cardinality({h}) <= Cardinality(Handlers) /\ Cardinality(Handlers) \in Nat
      BY LoopAssumption, FS_Subset, FS_CardinalityType
    <3> QED
      BY <1>8, <1>10, <1>12, <2>1, <3>1, LoopAssumption
  <2>2. CASE l # k
    <3>1. loops[l].iterations + Cardinality(Uncounted(l)) <= MaxIterations + Cardinality(Handlers)
      BY DEF Inv, RoomLeft
    <3>2. /\ loops'[l].iterations \in Nat /\ loops[l].iterations \in Nat
          /\ loops'[l].iterations <= loops[l].iterations
      BY <1>5, <1>7, <2>2 DEF Inv, TypeOK, Dicts
    <3>3. Cardinality(Uncounted(l)) \in Nat /\ Cardinality(Handlers) \in Nat
      BY ThreadsOf DEF ThreadsCounted
    <3> QED
      BY <1>11, <2>2, <3>1, <3>2, <3>3, LoopAssumption
  <2> QED
    BY <2>1, <2>2
<1> QED
  BY <1>7, <1>13, <1>14, <1>15, <1>16, <1>17, <1>18 DEF Inv

(* The three ways to be done with an event: an exception and a loop that goes   *)
(* on leave the registry as it is, a clean-up empties the session's entry.      *)
LEMMA EndPreserves ==
  ASSUME Inv, NEW h \in Handlers,
         \/ CheckLimit(h) /\ Finish(h) /\ ~Exceeds(loops[job[h].loop].iterations)
         \/ Report(h) /\ Finish(h) /\ registry[job[h].session] = NoLoop
         \/ Cleanup(h)
  PROVE  Inv'
<1>1. job[h].pc \in Counted /\ job[h].loop \in Loops /\ job[h].loop # NoLoop
  BY LoopAssumption DEF Inv, JobsHold, CheckLimit, Report, Cleanup, Counted
<1>2. job' = [job EXCEPT ![h] = Idle] /\ loops' = Collect(loops)
  BY DEF Finish, Cleanup
<1>3. \A s \in Sessions : registry[s] = job[h].loop => job[h].session = s
  BY <1>1 DEF Inv, LoopsOwned
<1>4. registry \in [Sessions -> Loops \cup {NoLoop}] /\ loops[job[h].loop].iterations \in Nat
  BY <1>1 DEF Inv, TypeOK
<1>5. CASE Finish(h) /\ ~Exceeds(loops[job[h].loop].iterations)
  <2>1. registry' = registry /\ loops[job[h].loop].iterations <= MaxIterations
    BY <1>4, <1>5, LoopAssumption DEF Finish, Exceeds
  <2> QED
    BY <1>1, <1>2, <1>4, <2>1, LeavePreserves
<1>6. CASE Finish(h) /\ registry[job[h].session] = NoLoop
  <2>1. registry' = registry /\ \A s \in Sessions : registry[s] # job[h].loop
    BY <1>1, <1>3, <1>6 DEF Finish
  <2> QED
    BY <1>1, <1>2, <1>4, <2>1, LeavePreserves
<1>7. CASE Cleanup(h)
  <2>1. registry' = [registry EXCEPT ![job[h].session] = NoLoop]
    BY <1>7 DEF Cleanup
  <2>2. /\ registry' \in [Sessions -> Loops \cup {NoLoop}]
        /\ \A s \in Sessions : registry'[s] \in {registry[s], NoLoop}
        /\ \A s \in Sessions : registry'[s] # job[h].loop
    BY <1>1, <1>3, <1>4, <2>1
  <2> QED
    BY <1>1, <1>2, <2>2, LeavePreserves
<1> QED
  BY <1>5, <1>6, <1>7

(* No session has a loop at first, and every dictionary is blank.               *)
LEMMA InitInv == Init => Inv
<1> SUFFICES ASSUME Init PROVE Inv
  OBVIOUS
<1>1. NoLoop \notin Loops /\ MaxIterations \in Nat
  BY LoopAssumption
<1>2. Blank \in Dicts /\ Len(Blank.history) <= HistorySize /\ Blank.iterations = 0
  BY DEF Blank, Dicts, HistorySize
<1>3. Idle \in Jobs /\ Idle.pc = "idle" /\ Idle.loop = NoLoop
  BY DEF Jobs, Idle
<1>4. \A l \in Loops : ~Running(l) /\ Uncounted(l) = {}
  BY <1>1, <1>3 DEF Init, Running, Uncounted
<1>5. TypeOK
  <2>1. /\ loops \in [Loops -> Dicts]
        /\ \A l \in Loops : Len(loops[l].history) <= HistorySize
    BY <1>2 DEF Init
  <2> QED
    BY <1>3, <2>1 DEF Init, TypeOK, Dicts
<1>6. JobsHold /\ LoopsOwned /\ FreeBlank
  BY <1>3 DEF Init, JobsHold, LoopsOwned, FreeBlank, Free
<1>7. HistoryIsCounted /\ RunningBounded
  BY <1>4 DEF HistoryIsCounted, RunningBounded
<1>8. RoomLeft
  <2>1. Cardinality({}) = 0 /\ Cardinality(Handlers) \in Nat
    BY LoopAssumption, FS_EmptySet, FS_CardinalityType
  <2>2. \A l \in Loops : loops[l].iterations = 0
    BY <1>2 DEF Init
  <2>3. ASSUME NEW l \in Loops
        PROVE  loops[l].iterations + Cardinality(Uncounted(l)) <= MaxIterations + Cardinality(Handlers)
    <3>1. loops[l].iterations = 0 /\ Cardinality(Uncounted(l)) = 0
      BY <1>4, <2>1, <2>2
    <3> QED
      BY <1>1, <2>1, <3>1
  <2> QED
    BY <2>3 DEF RoomLeft
<1> QED
  BY <1>5, <1>6, <1>7, <1>8 DEF Inv

(* Every step of a thread keeps the invariant.                                  *)
LEMMA StepInv == Inv /\ [Next]_vars => Inv'
<1> SUFFICES ASSUME Inv, [Next]_vars PROVE Inv'
  OBVIOUS
<1>1. CASE UNCHANGED vars
  <2>1. \A l : Uncounted(l)' = Uncounted(l) /\ Counters(l)' = Counters(l) /\ Running(l)' = Running(l)
    BY <1>1 DEF vars, Uncounted, Counters, Running
  <2>2. TypeOK' /\ JobsHold' /\ LoopsOwned'
    BY <1>1 DEF Inv, TypeOK, JobsHold, LoopsOwned, vars
  <2>3. FreeBlank'
    BY <1>1, <2>1 DEF Inv, FreeBlank, Free, vars
  <2>4. HistoryIsCounted' /\ RunningBounded' /\ RoomLeft'
    BY <1>1, <2>1 DEF Inv, HistoryIsCounted, RunningBounded, RoomLeft, vars
  <2> QED
    BY <2>2, <2>3, <2>4 DEF Inv
<1>2. ASSUME NEW h \in Handlers, NEW s \in Sessions, NEW r \in Residuals, Enter(h, s, r)
      PROVE  Inv'
  <2>1. CASE registry[s] = NoLoop
    BY <1>2, <2>1, EnterNewPreserves
  <2>2. CASE registry[s] # NoLoop
    <3>1. registry[s] \in Loops
      BY <2>2 DEF Inv, TypeOK
    <3> QED
      BY <1>2, <3>1, EnterOldPreserves
  <2> QED
    BY <2>1, <2>2
<1>3. ASSUME NEW h \in Handlers, Create(h)
      PROVE  Inv'
  BY <1>3, CreatePreserves
<1>4. ASSUME NEW h \in Handlers, Count(h)
      PROVE  Inv'
  BY <1>4, CountPreserves
<1>5. ASSUME NEW h \in Handlers, Converge(h)
      PROVE  Inv'
  <2>1. GoTo(h, "cleanup") /\ UNCHANGED <<registry, loops>> /\ job[h].pc \in Counted
    BY <1>5 DEF Converge, Counted
  <2> QED
    BY <2>1, GoToPreserves DEF Counted
<1>6. ASSUME NEW h \in Handlers, CheckOscillation(h)
      PROVE  Inv'
  <2>1. PICK pc \in {"oscillated", "limit"} : GoTo(h, pc)
    BY <1>6 DEF CheckOscillation
  <2>2. UNCHANGED <<registry, loops>> /\ job[h].pc \in Counted
    BY <1>6 DEF CheckOscillation, Counted
  <2> QED
    BY <2>1, <2>2, GoToPreserves DEF Counted
<1>7. ASSUME NEW h \in Handlers, CheckLimit(h)
      PROVE  Inv'
  <2>1. CASE Exceeds(loops[job[h].loop].iterations)
    <3>1. GoTo(h, "over") /\ UNCHANGED <<registry, loops>> /\ job[h].pc \in Counted
      BY <1>7, <2>1 DEF CheckLimit, Counted
    <3> QED
      BY <3>1, GoToPreserves DEF Counted
  <2>2. CASE ~Exceeds(loops[job[h].loop].iterations)
    <3>1. Finish(h)
      BY <1>7, <2>2 DEF CheckLimit
    <3> QED
      BY <1>7, <2>2, <3>1, EndPreserves
  <2> QED
    BY <2>1, <2>2
<1>8. ASSUME NEW h \in Handlers, Report(h)
      PROVE  Inv'
  <2>1. CASE registry[job[h].session] # NoLoop
    <3>1. GoTo(h, "cleanup") /\ UNCHANGED <<registry, loops>> /\ job[h].pc \in Counted
      BY <1>8, <2>1 DEF Report, Counted
    <3> QED
      BY <3>1, GoToPreserves DEF Counted
  <2>2. CASE registry[job[h].session] = NoLoop
    <3>1. Finish(h)
      BY <1>8, <2>2 DEF Report
    <3> QED
      BY <1>8, <2>2, <3>1, EndPreserves
  <2> QED
    BY <2>1, <2>2
<1>9. ASSUME NEW h \in Handlers, Cleanup(h)
      PROVE  Inv'
  BY <1>9, EndPreserves
<1> QED
  BY <1>1, <1>2, <1>3, <1>4, <1>5, <1>6, <1>7, <1>8, <1>9 DEF Next, Handle

(* However many threads handle the events of however many sessions, the counts  *)
(* and the ownership of the loops are in order.                                 *)
THEOREM InvHolds == Spec => []Inv
  BY InitInv, StepInv, PTL DEF Spec

(* The registry, the dictionaries and the threads keep their types, and no      *)
(* history outgrows the window of the oscillation detector.                     *)
THEOREM TypeCorrect == Spec => []TypeOK
<1>1. Inv => TypeOK
  BY DEF Inv
<1> QED
  BY <1>1, InvHolds, PTL

(* The history of the running dictionary holds exactly the residuals counted in *)
(* it or about to be, up to the window, and none of an earlier one.  What was   *)
(* counted in a dictionary that another thread's replaced is not in it          *)
(* (on_cieu_event's append and += 1; a lost initialisation forgets the rest).   *)
THEOREM HistoriesAreCounted == Spec => []HistoryIsCounted
<1>1. Inv => HistoryIsCounted
  BY DEF Inv
<1> QED
  BY <1>1, InvHolds, PTL

(* The count of a loop passes max_iterations by at most one event of each       *)
(* thread.                                                                      *)
THEOREM CountsAreBounded == Spec => []IterationsBounded
<1>1. Inv => IterationsBounded
  <2> SUFFICES ASSUME Inv, NEW l \in Loops
               PROVE  loops[l].iterations <= MaxIterations + Cardinality(Handlers)
    BY DEF IterationsBounded
  <2>1. loops[l].iterations + Cardinality(Uncounted(l)) <= MaxIterations + Cardinality(Handlers)
    BY DEF Inv, RoomLeft
  <2>2. Cardinality(Uncounted(l)) \in Nat /\ Cardinality(Handlers) \in Nat
    BY ThreadsOf DEF ThreadsCounted
  <2>3. loops[l].iterations \in Nat
    BY DEF Inv, TypeOK
  <2> QED
    BY <2>1, <2>2, <2>3, LoopAssumption
<1> QED
  BY <1>1, InvHolds, PTL
=============================================================================
