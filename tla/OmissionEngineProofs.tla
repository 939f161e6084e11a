------------------------- MODULE OmissionEngineProofs -------------------------
(* Theorems of OmissionEngine, for any policy, obligations, entities and number *)
(* of workers.                                                                  *)
EXTENDS OmissionEngine, FiniteSetTheorems, TLAPS

-------------------------------------------------------------------------------
(* Types.                                                                       *)

LEMMA PolicyType ==
  ASSUME NEW o \in Obs
  PROVE  /\ Pol(o) \in PolicyRecords
         /\ Pol(o).dueIn \in Nat /\ Pol(o).grace \in Nat /\ Pol(o).hard \in Nat
         /\ Pol(o).esc \in Times /\ Pol(o).remind \in Times
         /\ Pol(o).sev \in Severities
<1>1. Pol(o) \in PolicyRecords
  BY PolicyAssumption DEF Pol
<1> QED BY <1>1 DEF PolicyRecords, Times

LEMMA BlankType == Blank \in Records
BY DEF Blank, Records, ObStatus, Times, NoTime, Evidence, Severities

LEMMA FreshType ==
  ASSUME NEW o \in Obs, NEW t \in Times
  PROVE  Fresh(o, t) \in Records
BY PolicyType DEF Fresh, Pol, Blank, Records, ObStatus, Times, NoTime, Evidence, Severities

LEMMA IdleType == Idle \in Jobs
BY BlankType DEF Idle, Jobs, Steps, Times, NoTime

LEMMA SnapshotType ==
  ASSUME TypeOK, NEW S
  PROVE  Snapshot(S) \in [Obs -> Records]
BY BlankType DEF Snapshot, TypeOK

LEMMA UpdateType ==
  ASSUME TypeOK, NEW o, NEW r \in Records, Update(o, r)
  PROVE  obs' \in [Obs -> Records]
BY DEF Update, TypeOK, Records

\* Replacing one worker's job by a job.
LEMMA JobType ==
  ASSUME TypeOK, NEW w \in Workers, NEW j \in Jobs, job' = [job EXCEPT ![w] = j]
  PROVE  job' \in [Workers -> Jobs]
BY DEF TypeOK

LEMMA GotoType ==
  ASSUME TypeOK, NEW w \in Workers, NEW pc \in Steps, Goto(w, pc)
  PROVE  job' \in [Workers -> Jobs]
<1> DEFINE j == [job[w] EXCEPT !.pc = pc]
<1>1. job[w] \in Jobs /\ job' = [job EXCEPT ![w] = j]
  BY DEF Goto, TypeOK
<1>2. j \in Jobs
  BY <1>1 DEF Jobs
<1> QED BY <1>1, <1>2, JobType

Released(w, pc) ==
  [job[w] EXCEPT !.pc = pc, !.cur = NoOb, !.copy[job[w].cur] = Blank]

LEMMA ReleaseJob ==
  ASSUME TypeOK, NEW w \in Workers, NEW pc, Release(w, pc)
  PROVE  job' = [job EXCEPT ![w] = Released(w, pc)]
BY DEF Release, Released, TypeOK

LEMMA ReleaseType ==
  ASSUME TypeOK, NEW w \in Workers, NEW pc \in Steps, Release(w, pc)
  PROVE  job' \in [Workers -> Jobs]
<1> DEFINE j == Released(w, pc)
<1>1. job[w] \in Jobs /\ job' = [job EXCEPT ![w] = j]
  BY ReleaseJob DEF TypeOK
<1>2. j \in Jobs
  BY <1>1, BlankType DEF Jobs, Released
<1> QED BY <1>1, <1>2, JobType

LEMMA FinishType ==
  ASSUME TypeOK, NEW w \in Workers, Finish(w)
  PROVE  job' \in [Workers -> Jobs]
BY IdleType DEF Finish, TypeOK

LEMMA WriteType ==
  ASSUME TypeOK, NEW w \in Workers, NEW o \in Obs \cup {NoOb}, NEW r,
         o \in Obs => r \in Records, NEW pc \in Steps, Write(w, o, r, pc)
  PROVE  obs' \in [Obs -> Records] /\ job' \in [Workers -> Jobs]
<1>1. obs' \in [Obs -> Records]
  BY UpdateType, PolicyAssumption DEF Write, Update, TypeOK
<1> DEFINE j == [job[w] EXCEPT !.pc = pc, !.copy[o] = r, !.cur = o, !.todo = @ \ {o}]
<1>2. job[w] \in Jobs /\ job' = [job EXCEPT ![w] = j]
  BY DEF Write, TypeOK
<1>3. j \in Jobs
  <2>1. [job[w].copy EXCEPT ![o] = r] \in [Obs -> Records]
    BY <1>2 DEF Jobs
  <2> QED BY <1>2, <2>1 DEF Jobs
<1> QED BY <1>1, <1>2, <1>3, JobType

LEMMA HeldType ==
  ASSUME TypeOK, NEW w \in Workers, NEW o \in Obs
  PROVE  /\ job[w].copy[o] \in Records
         /\ job[w].at \in Nat /\ job[w].at \in Times
         /\ job[w].cur \in Obs \cup {NoOb} /\ job[w].todo \subseteq Obs
BY DEF TypeOK, Jobs, Times

LEMMA BeginType ==
  ASSUME TypeOK, NEW w \in Workers, NEW pc \in Steps, NEW S \in SUBSET Obs,
         Begin(w, pc, S)
  PROVE  job' \in [Workers -> Jobs]
<1> DEFINE c == Snapshot(S)
           j == [Idle EXCEPT !.pc = pc, !.at = now, !.todo = S, !.copy = c]
<1>1. c \in [Obs -> Records]
  BY SnapshotType
<1>2. job' = [job EXCEPT ![w] = j]
  BY DEF Begin
<1> HIDE DEF c
<1>3. j \in Jobs
  BY <1>1, IdleType DEF Jobs, TypeOK, Times
<1> QED BY <1>2, <1>3, JobType

LEMMA HoldType ==
  ASSUME TypeOK, NEW w \in Workers, NEW o \in Obs, NEW pc \in Steps, Hold(w, o, pc)
  PROVE  TypeOK'
<1> DEFINE c == Snapshot({o})
           j == [Idle EXCEPT !.pc = pc, !.at = now, !.cur = o, !.copy = c]
<1>1. c \in [Obs -> Records]
  BY SnapshotType
<1>2. job' = [job EXCEPT ![w] = j] /\ UNCHANGED <<now, obs, viol, ent>>
  BY DEF Hold
<1> HIDE DEF c
<1>3. j \in Jobs
  BY <1>1, IdleType DEF Jobs, TypeOK, Times
<1>4. job' \in [Workers -> Jobs]
  BY <1>2, <1>3, JobType
<1> QED BY <1>2, <1>4 DEF TypeOK

\* The next list of rows of a scan: a snapshot of S.
LEMMA NextPassType ==
  ASSUME TypeOK, NEW w \in Workers, NEW pc \in Steps, NEW S \in SUBSET Obs,
         job' = [job EXCEPT ![w].pc = pc, ![w].todo = S, ![w].copy = Snapshot(S)]
  PROVE  job' \in [Workers -> Jobs]
<1> DEFINE c == Snapshot(S)
           j == [job[w] EXCEPT !.pc = pc, !.todo = S, !.copy = c]
<1>1. c \in [Obs -> Records]
  BY SnapshotType
<1>2. job' = [job EXCEPT ![w] = j] /\ job[w] \in Jobs
  BY DEF TypeOK
<1> HIDE DEF c
<1>3. j \in Jobs
  BY <1>1, <1>2 DEF Jobs
<1> QED BY <1>2, <1>3, JobType

LEMMA EntityType ==
  ASSUME TypeOK, NEW o, NEW r, UpdateEntityOnViolation(o, r)
  PROVE  ent' \in [Entities -> [status: EntityStatuses, last: Times]]
BY DEF UpdateEntityOnViolation, TypeOK, EntityStatuses, Times

\* The direct operations write the obligation they hold and end.
LEMMA CommitType ==
  ASSUME TypeOK, NEW w \in Workers, NEW r, Commit(w, r),
         job[w].cur \in Obs => r \in Records
  PROVE  TypeOK'
<1>1. job' \in [Workers -> Jobs]
  BY FinishType DEF Commit
<1>2. obs' \in [Obs -> Records]
  <2>1. CASE job[w].cur \in Obs
    BY <2>1, UpdateType DEF Commit
  <2>2. CASE job[w].cur \notin Obs
    BY <2>2 DEF Commit, Update, TypeOK
  <2> QED BY <2>1, <2>2
<1> QED BY <1>1, <1>2 DEF Commit, TypeOK

LEMMA EscalateType ==
  ASSUME TypeOK, NEW w \in Workers, NEW o \in Obs \cup {NoOb}, NEW pc \in Steps,
         Escalate(w, o, pc)
  PROVE  obs' \in [Obs -> Records] /\ job' \in [Workers -> Jobs]
<1> DEFINE r == [job[w].copy[o] EXCEPT !.status = "ESCALATED", !.escAt = job[w].at]
<1>1. o \in Obs => r \in Records
  BY HeldType DEF Records, ObStatus
<1> QED BY <1>1, WriteType DEF Escalate

LEMMA IngestStartType ==
  ASSUME TypeOK, NEW w \in Workers, NEW e \in Entities, NEW a \in Actors,
         NEW t \in EventTypes, IngestEvent(w, e, a, t)
  PROVE  TypeOK'
<1> DEFINE S == {o \in Obs : /\ EntityOf[o] = e /\ IsOpen(obs[o].status)
                             /\ t \in Pol(o).required}
           c == Snapshot(S)
           j == [Idle EXCEPT !.pc = "fulfil", !.at = now, !.todo = S, !.copy = c,
                             !.type = t, !.entity = e, !.actor = a]
<1>1. c \in [Obs -> Records] /\ S \subseteq Obs
  BY SnapshotType
<1>2. job' = [job EXCEPT ![w] = j]
  BY DEF IngestEvent
<1> HIDE DEF c, S
<1>3. j \in Jobs
  BY <1>1, IdleType DEF Jobs, TypeOK, Times, Steps
<1>4. job' \in [Workers -> Jobs]
  BY <1>2, <1>3, JobType
<1>5. ent' \in [Entities -> [status: EntityStatuses, last: Times]]
  BY DEF IngestEvent, Touch, TypeOK, Times
<1> QED BY <1>4, <1>5 DEF IngestEvent, TypeOK

\* The job of a tool_trigger that is about to write row o.
Adding(o) == [Idle EXCEPT !.pc = "add", !.at = now, !.cur = o]

LEMMA ToolTriggerJob ==
  ASSUME NEW w \in Workers, NEW e, NEW a, NEW k, ToolTrigger(w, e, a, k)
  PROVE  \E o \in Obs : job' = [job EXCEPT ![w] = Adding(o)]
BY DEF ToolTrigger, Adding

LEMMA ToolTriggerType ==
  ASSUME TypeOK, NEW w \in Workers, NEW e \in Entities, NEW a \in Actors,
         NEW k \in Kinds, ToolTrigger(w, e, a, k)
  PROVE  TypeOK'
<1>1. PICK o \in Obs : job' = [job EXCEPT ![w] = Adding(o)]
  BY ToolTriggerJob
<1>2. Adding(o) \in Jobs
  BY IdleType DEF Jobs, TypeOK, Times, Steps, Adding
<1>3. job' \in [Workers -> Jobs]
  BY <1>1, <1>2, JobType
<1>4. ent' \in [Entities -> [status: EntityStatuses, last: Times]]
  BY DEF ToolTrigger, Touch, TypeOK, Times
<1> QED BY <1>3, <1>4 DEF ToolTrigger, TypeOK

LEMMA IngestType ==
  ASSUME TypeOK, NEW w \in Workers, Ingest(w)
  PROVE  TypeOK'
<1>0. job[w] \in Jobs
  BY DEF TypeOK
<1>1. ASSUME NEW o \in Obs, TryFulfil(w, o) PROVE TypeOK'
  <2> DEFINE r == [job[w].copy[o] EXCEPT !.status = "FULFILLED", !.by = job[w].type]
             j == [job[w] EXCEPT !.todo = @ \ {o}, !.copy[o] = Blank]
  <2>1. job[w].type \in Evidence
    BY <1>0 DEF Jobs, Evidence
  <2>2. r \in Records
    BY <2>1, HeldType DEF Records, ObStatus
  <2>3. obs' \in [Obs -> Records]
    BY <1>1, <2>2, UpdateType DEF TryFulfil
  <2>4. j \in Jobs /\ job' = [job EXCEPT ![w] = j]
    BY <1>0, <1>1, BlankType DEF TryFulfil, Jobs
  <2>5. job' \in [Workers -> Jobs]
    BY <2>4, JobType
  <2> QED BY <1>1, <2>3, <2>5 DEF TryFulfil, TypeOK
<1>2. CASE FulfilDone(w)
  <2> DEFINE K == {k \in Kinds : /\ Policy[k].trigger = job[w].type
                                 /\ Policy[k].byRule => ent[job[w].entity].status # "UNKNOWN"}
             j == [job[w] EXCEPT !.pc = "trigger", !.kinds = K]
  <2>1. job' = [job EXCEPT ![w] = j] /\ K \subseteq Kinds
    BY <1>2 DEF FulfilDone
  <2> HIDE DEF K
  <2>2. j \in Jobs
    BY <1>0, <2>1 DEF Jobs, Steps
  <2>3. job' \in [Workers -> Jobs]
    BY <2>1, <2>2, JobType
  <2> QED BY <1>2, <2>3 DEF FulfilDone, TypeOK
<1>3. ASSUME NEW k \in Kinds, DeduplicateSkip(w, k) PROVE TypeOK'
  <2> DEFINE j == [job[w] EXCEPT !.kinds = @ \ {k}]
  <2>1. j \in Jobs /\ job' = [job EXCEPT ![w] = j]
    BY <1>0, <1>3 DEF DeduplicateSkip, Jobs
  <2>2. job' \in [Workers -> Jobs]
    BY <2>1, JobType
  <2> QED BY <1>3, <2>2 DEF DeduplicateSkip, TypeOK
<1>4. ASSUME NEW k \in Kinds, TriggerMatch(w, k) PROVE TypeOK'
  <2>1. PICK o \in Obs :
          job' = [job EXCEPT ![w].pc = "add", ![w].cur = o, ![w].kinds = @ \ {k}]
    BY <1>4 DEF TriggerMatch
  <2> DEFINE j == [job[w] EXCEPT !.pc = "add", !.cur = o, !.kinds = @ \ {k}]
  <2>2. j \in Jobs /\ job' = [job EXCEPT ![w] = j]
    BY <1>0, <2>1 DEF Jobs, Steps
  <2>3. job' \in [Workers -> Jobs]
    BY <2>2, JobType
  <2> QED BY <1>4, <2>3 DEF TriggerMatch, TypeOK
<1>5. CASE AddObligation(w)
  <2> DEFINE j == [job[w] EXCEPT !.pc = "trigger", !.cur = NoOb]
  <2>1. j \in Jobs /\ job' = [job EXCEPT ![w] = j]
    BY <1>0, <1>5 DEF AddObligation, Jobs, Steps
  <2>2. job' \in [Workers -> Jobs]
    BY <2>1, JobType
  <2>3. job[w].cur \in Obs => Fresh(job[w].cur, job[w].at) \in Records
    BY <1>0, FreshType DEF Jobs, Times
  <2>4. obs' \in [Obs -> Records]
    BY <1>5, <2>3 DEF AddObligation, TypeOK
  <2> QED BY <1>5, <2>2, <2>4 DEF AddObligation, TypeOK
<1>6. CASE TriggerDone(w)
  BY <1>6, FinishType DEF TriggerDone, TypeOK
<1>7. ASSUME NEW k \in Kinds, NoActor(w, k) PROVE TypeOK'
  <2> DEFINE j == [job[w] EXCEPT !.kinds = @ \ {k}]
  <2>1. j \in Jobs /\ job' = [job EXCEPT ![w] = j]
    BY <1>0, <1>7 DEF NoActor, Jobs
  <2>2. job' \in [Workers -> Jobs]
    BY <2>1, JobType
  <2> QED BY <1>7, <2>2 DEF NoActor, TypeOK
<1> QED BY <1>1, <1>2, <1>3, <1>4, <1>5, <1>6, <1>7 DEF Ingest

LEMMA ViolationType ==
  ASSUME TypeOK, NEW o,
         \/ viol' = [viol EXCEPT ![o].soft = @ + 1]
         \/ viol' = [viol EXCEPT ![o].hard = @ + 1]
         \/ viol' = [viol EXCEPT ![o].escalated = TRUE]
  PROVE  viol' \in [Obs -> ViolationRecords]
<1>1. viol \in [Obs -> ViolationRecords]
  BY DEF TypeOK
<1>2. ASSUME NEW v, viol' = [viol EXCEPT ![o] = v], o \in Obs => v \in ViolationRecords
      PROVE  viol' \in [Obs -> ViolationRecords]
  <2>1. CASE o \in Obs
    BY <1>1, <1>2, <2>1
  <2>2. CASE o \notin Obs
    <3>1. \A p \in Obs : viol'[p] = viol[p]
      BY <1>1, <1>2, <2>2
    <3>2. viol' = [p \in Obs |-> viol'[p]]
      BY <1>1, <1>2
    <3> QED BY <1>1, <3>1, <3>2
  <2> QED BY <2>1, <2>2
<1>3. o \in Obs =>
        /\ [viol[o] EXCEPT !.soft = @ + 1] \in ViolationRecords
        /\ [viol[o] EXCEPT !.hard = @ + 1] \in ViolationRecords
        /\ [viol[o] EXCEPT !.escalated = TRUE] \in ViolationRecords
  <2> SUFFICES ASSUME o \in Obs
               PROVE  /\ [viol[o] EXCEPT !.soft = @ + 1] \in ViolationRecords
                      /\ [viol[o] EXCEPT !.hard = @ + 1] \in ViolationRecords
                      /\ [viol[o] EXCEPT !.escalated = TRUE] \in ViolationRecords
    OBVIOUS
  <2>1. viol[o] \in [soft: Nat, hard: Nat, escalated: BOOLEAN]
    BY <1>1 DEF ViolationRecords
  <2>2. viol[o].soft + 1 \in Nat /\ viol[o].hard + 1 \in Nat
    BY <2>1
  <2> QED BY <2>1, <2>2 DEF ViolationRecords
<1>4. CASE viol' = [viol EXCEPT ![o].soft = @ + 1]
  BY <1>2, <1>3, <1>4
<1>5. CASE viol' = [viol EXCEPT ![o].hard = @ + 1]
  BY <1>2, <1>3, <1>5
<1>6. CASE viol' = [viol EXCEPT ![o].escalated = TRUE]
  BY <1>2, <1>3, <1>6
<1> QED BY <1>4, <1>5, <1>6

LEMMA ScanType ==
  ASSUME TypeOK, NEW w \in Workers, Scan(w)
  PROVE  TypeOK'
<1>0. job[w] \in Jobs
  BY DEF TypeOK
<1>1. ASSUME NEW o \in Obs, SendReminder(w, o) PROVE TypeOK'
  <2> DEFINE r == [job[w].copy[o] EXCEPT !.reminded = TRUE]
             j == [job[w] EXCEPT !.copy[o] = r]
  <2>1. r \in Records
    BY HeldType DEF Records
  <2>2. Update(o, r) /\ job' = [job EXCEPT ![w] = j]
    BY <1>1 DEF SendReminder
  <2>3. j \in Jobs
    <3> HIDE DEF r
    <3> QED BY <1>0, <2>1 DEF Jobs
  <2>4. obs' \in [Obs -> Records] /\ job' \in [Workers -> Jobs]
    BY <2>1, <2>2, <2>3, UpdateType, JobType
  <2> QED BY <1>1, <2>4 DEF SendReminder, TypeOK
<1>2. ASSUME NEW o \in Obs, SoftOverdue(w, o) PROVE TypeOK'
  <2> DEFINE r == [job[w].copy[o] EXCEPT !.status = "SOFT_OVERDUE", !.softAt = job[w].at]
  <2>1. r \in Records
    BY HeldType DEF Records, ObStatus
  <2>2. obs' \in [Obs -> Records] /\ job' \in [Workers -> Jobs]
    BY <1>2, <2>1, WriteType DEF SoftOverdue, Steps
  <2> QED BY <1>2, <2>2 DEF SoftOverdue, TypeOK
<1>3. CASE SoftCheck(w)
  <2>1. job' \in [Workers -> Jobs]
    BY <1>3, GotoType DEF SoftCheck, Steps
  <2> QED BY <1>3, <2>1 DEF SoftCheck, TypeOK
<1>4. CASE SoftReport(w)
  <2>1. job' \in [Workers -> Jobs]
    BY <1>4, GotoType DEF SoftReport, Steps
  <2>2. viol' \in [Obs -> ViolationRecords]
    BY <1>4, ViolationType DEF SoftReport
  <2> QED BY <1>4, <2>1, <2>2 DEF SoftReport, TypeOK
<1>5. CASE SoftEntity(w)
  <2>1. job' \in [Workers -> Jobs]
    BY <1>5, ReleaseType DEF SoftEntity, Steps
  <2> QED BY <1>5, <2>1, EntityType DEF SoftEntity, TypeOK
<1>6. CASE PassOneDone(w)
  <2>1. PassADue(w) \in SUBSET Obs
    BY DEF PassADue
  <2>2. job' \in [Workers -> Jobs]
    BY <1>6, <2>1, NextPassType DEF PassOneDone, Steps
  <2> QED BY <1>6, <2>2 DEF PassOneDone, TypeOK
<1>7. ASSUME NEW o \in Obs, HardOverdue(w, o) PROVE TypeOK'
  <2> DEFINE r == [job[w].copy[o] EXCEPT !.status = "HARD_OVERDUE",
                     !.hardAt = job[w].at, !.sev = Bumped(@)]
  <2>1. r \in Records
    BY HeldType DEF Records, ObStatus, Bumped, Severities
  <2>2. obs' \in [Obs -> Records] /\ job' \in [Workers -> Jobs]
    BY <1>7, <2>1, WriteType DEF HardOverdue, Steps
  <2> QED BY <1>7, <2>2 DEF HardOverdue, TypeOK
<1>8. CASE HardCheck(w)
  <2>1. job' \in [Workers -> Jobs]
    BY <1>8, GotoType DEF HardCheck, Steps
  <2> QED BY <1>8, <2>1 DEF HardCheck, TypeOK
<1>9. CASE HardReport(w)
  <2>1. job' \in [Workers -> Jobs]
    BY <1>9, GotoType DEF HardReport, Steps
  <2>2. viol' \in [Obs -> ViolationRecords]
    BY <1>9, ViolationType DEF HardReport
  <2> QED BY <1>9, <2>1, <2>2 DEF HardReport, TypeOK
<1>10. CASE HardEscalate(w)
  <2>1. obs' \in [Obs -> Records] /\ job' \in [Workers -> Jobs]
    BY <1>0, <1>10, EscalateType DEF HardEscalate, Steps, Jobs
  <2> QED BY <1>10, <2>1 DEF HardEscalate, TypeOK
<1>11. CASE HardNoEscalation(w)
  <2>1. job' \in [Workers -> Jobs]
    BY <1>11, GotoType DEF HardNoEscalation, Steps
  <2> QED BY <1>11, <2>1 DEF HardNoEscalation, TypeOK
<1>12. CASE HardMark(w)
  <2>1. job' \in [Workers -> Jobs]
    BY <1>12, GotoType DEF HardMark, Steps
  <2>2. viol' \in [Obs -> ViolationRecords]
    BY <1>12, ViolationType DEF HardMark, MarkEscalated
  <2> QED BY <1>12, <2>1, <2>2 DEF HardMark, TypeOK
<1>13. CASE HardEntity(w)
  <2>1. job' \in [Workers -> Jobs]
    BY <1>13, ReleaseType DEF HardEntity, Steps
  <2> QED BY <1>13, <2>1, EntityType DEF HardEntity, TypeOK
<1>14. CASE PassADone(w)
  <2>1. PassBDue(w) \in SUBSET Obs
    BY DEF PassBDue
  <2>2. job' \in [Workers -> Jobs]
    BY <1>14, <2>1, NextPassType DEF PassADone, Steps
  <2> QED BY <1>14, <2>2 DEF PassADone, TypeOK
<1>15. ASSUME NEW o \in Obs, LateEscalate(w, o) PROVE TypeOK'
  <2>1. obs' \in [Obs -> Records] /\ job' \in [Workers -> Jobs]
    BY <1>15, EscalateType DEF LateEscalate, Steps
  <2> QED BY <1>15, <2>1 DEF LateEscalate, TypeOK
<1>16. CASE LateMark(w)
  <2>1. job' \in [Workers -> Jobs]
    BY <1>16, ReleaseType DEF LateMark, Steps
  <2>2. viol' \in [Obs -> ViolationRecords]
    BY <1>16, ViolationType DEF LateMark, MarkEscalated
  <2> QED BY <1>16, <2>1, <2>2 DEF LateMark, TypeOK
<1>17. CASE ScanDone(w)
  BY <1>17, FinishType DEF ScanDone, TypeOK
<1> QED BY <1>1, <1>2, <1>3, <1>4, <1>5, <1>6, <1>7, <1>8, <1>9, <1>10, <1>11,
           <1>12, <1>13, <1>14, <1>15, <1>16, <1>17 DEF Scan

LEMMA TypeStep == TypeOK /\ [Next]_vars => TypeOK'
<1> SUFFICES ASSUME TypeOK, [Next]_vars PROVE TypeOK'
  OBVIOUS
<1>1. CASE Tick
  BY <1>1 DEF Tick, TypeOK
<1>2. CASE EntityChange
  BY <1>2 DEF EntityChange, RegisterEntity, UpdateEntityStatus, TypeOK,
              EntityStatuses, Times, NoTime
<1>3. ASSUME NEW w \in Workers, Start(w) PROVE TypeOK'
  <2>1. ASSUME NEW e \in Entities, NEW a \in Actors,
               NEW t \in EventTypes, IngestEvent(w, e, a, t)
        PROVE  TypeOK'
    BY <2>1, IngestStartType
  <2>4. ASSUME NEW e \in Entities, NEW a \in Actors,
               NEW k \in Kinds, ToolTrigger(w, e, a, k)
        PROVE  TypeOK'
    BY <2>4, ToolTriggerType
  <2>2. CASE ScanStart(w)
    <3> DEFINE S == {o \in Obs : obs[o].status = "PENDING"}
    <3>1. job' \in [Workers -> Jobs]
      BY <2>2, BeginType DEF ScanStart, Steps
    <3> QED BY <2>2, <3>1 DEF ScanStart, TypeOK
  <2>3. ASSUME NEW o \in Obs,
               RestoreRequest(w, o) \/ CloseRequest(w, o) \/ CancelRequest(w, o)
        PROVE  TypeOK'
    BY <2>3, HoldType DEF RestoreRequest, CloseRequest, CancelRequest, Steps
  <2> QED BY <1>3, <2>1, <2>2, <2>3, <2>4 DEF Start
<1>4. ASSUME NEW w \in Workers, DirectWrite(w) PROVE TypeOK'
  <2>1. job[w].cur \in Obs => Held(w) \in Records /\ job[w].at \in Times
    BY HeldType DEF Held
  <2>2. job[w].cur \in Obs =>
          /\ [Held(w) EXCEPT !.status = "RESTORED", !.restoredAt = job[w].at] \in Records
          /\ [Held(w) EXCEPT !.status = "FULFILLED", !.by = "closed"] \in Records
          /\ [Held(w) EXCEPT !.status = "CANCELLED"] \in Records
    BY <2>1 DEF Records, ObStatus, Evidence
  <2> QED BY <1>4, <2>2, CommitType
          DEF DirectWrite, RestoreObligation, CloseObligation, CancelObligation
<1>5. CASE UNCHANGED vars
  BY <1>5 DEF vars, TypeOK
<1>6. ASSUME NEW w \in Workers, NEW o \in Obs, StoreCancel(w, o) PROVE TypeOK'
  <2>1. [obs[o] EXCEPT !.status = "CANCELLED"] \in Records
    BY DEF TypeOK, Records, ObStatus
  <2>2. obs' = [obs EXCEPT ![o] = [obs[o] EXCEPT !.status = "CANCELLED"]]
    BY <1>6 DEF StoreCancel, TypeOK
  <2>3. obs' \in [Obs -> Records]
    BY <2>1, <2>2 DEF TypeOK
  <2> QED BY <1>6, <2>3 DEF StoreCancel, TypeOK
<1> QED BY <1>1, <1>2, <1>3, <1>4, <1>5, <1>6, IngestType, ScanType DEF Next, Continue

(* Rows, violations, entities and jobs keep their types.                        *)
THEOREM TypeCorrect == Spec => []TypeOK
<1>1. Init => TypeOK
  BY BlankType, IdleType, PolicyAssumption
     DEF Init, TypeOK, ViolationRecords, EntityStatuses, Times, NoTime
<1> QED BY <1>1, TypeStep, PTL DEF Spec

-------------------------------------------------------------------------------
(* StageEvidence, whatever the interleaving.  A worker writes back the copy it  *)
(* holds, so the copies must be as sound as the rows, and each operation must   *)
(* remember the check it made on its copy: that is JobOK.                       *)

InPassA == {"passA", "hardCheck", "hardReport", "hardEscalate", "hardMark", "hardEntity"}

InPassB == {"passB", "escMark"}

HardDue(o, r, t) == r.status = "SOFT_OVERDUE" /\ t >= HardThreshold(o, r)

JobOK(j) ==
  /\ \A o \in Obs : StageSound(o, j.copy[o])
  /\ j.pc = "fulfil" => j.type \in EventTypes
  /\ j.pc \in InPassA => \A o \in j.todo : o # j.cur /\ HardDue(o, j.copy[o], j.at)
  /\ j.pc \in {"hardCheck", "hardReport", "hardEscalate"} =>
       j.cur \in Obs /\ j.copy[j.cur].status = "HARD_OVERDUE"
  /\ j.pc \in InPassB =>
       \A o \in j.todo : o # j.cur /\ j.copy[o].status = "SOFT_OVERDUE"
  /\ j.pc \in {"pass1", "passA", "passB"} => j.cur = NoOb
  /\ j.pc \in {"restore", "close", "cancel"} => j.cur \in Obs
  /\ j.pc = "restore" => CanRestore(j.cur, j.copy[j.cur], j.at)
  /\ j.pc = "cancel" => j.copy[j.cur].status \in {"PENDING", "SOFT_OVERDUE"}

StageInv == TypeOK /\ StageEvidence /\ \A w \in Workers : JobOK(job[w])

LEMMA BlankSound == ASSUME NEW o \in Obs PROVE StageSound(o, Blank)
BY DEF StageSound, TimesSound, StatusSound, Blank

LEMMA FreshSound == ASSUME NEW o \in Obs, NEW t PROVE StageSound(o, Fresh(o, t))
BY DEF StageSound, TimesSound, StatusSound, Fresh, Blank

\* What each operation writes is sound when the copy it writes from is.
LEMMA WrittenSound ==
  ASSUME NEW o \in Obs, NEW r \in Records, StageSound(o, r), NEW t \in Nat
  PROVE  /\ StageSound(o, [r EXCEPT !.reminded = TRUE])
         /\ \A sev \in Severities : StageSound(o, [r EXCEPT !.sev = sev])
         /\ IsOverdue(o, r, t) =>
              StageSound(o, [r EXCEPT !.status = "SOFT_OVERDUE", !.softAt = t])
         /\ HardDue(o, r, t) =>
              StageSound(o, [r EXCEPT !.status = "HARD_OVERDUE", !.hardAt = t,
                                      !.sev = Bumped(@)])
         /\ r.status \in {"SOFT_OVERDUE", "HARD_OVERDUE"} /\ ShouldEscalate(o, r, t) =>
              StageSound(o, [r EXCEPT !.status = "ESCALATED", !.escAt = t])
         /\ \A e \in EventTypes \cup {"closed"} :
              StageSound(o, [r EXCEPT !.status = "FULFILLED", !.by = e])
         /\ CanRestore(o, r, t) =>
              StageSound(o, [r EXCEPT !.status = "RESTORED", !.restoredAt = t])
         /\ StageSound(o, [r EXCEPT !.status = "CANCELLED"])
<1> USE DEF StageSound, TimesSound, StatusSound, Aged, HardThreshold,
            RestorationDeadline, EffectiveDueAt, DueAt
<1>1. StageSound(o, [r EXCEPT !.reminded = TRUE])
  BY DEF Records
<1>2. ASSUME NEW sev \in Severities PROVE StageSound(o, [r EXCEPT !.sev = sev])
  BY DEF Records
<1>3. ASSUME IsOverdue(o, r, t)
      PROVE  StageSound(o, [r EXCEPT !.status = "SOFT_OVERDUE", !.softAt = t])
  BY <1>3, PolicyType DEF IsOverdue, Records, Times, NoTime
<1>4. ASSUME HardDue(o, r, t)
      PROVE  StageSound(o, [r EXCEPT !.status = "HARD_OVERDUE", !.hardAt = t,
                                     !.sev = Bumped(@)])
  <2> DEFINE q == [r EXCEPT !.status = "HARD_OVERDUE", !.hardAt = t, !.sev = Bumped(@)]
  <2>1. /\ q.created = r.created /\ q.softAt = r.softAt /\ q.hardAt = t
        /\ q.escAt = r.escAt /\ q.restoredAt = r.restoredAt /\ q.status = "HARD_OVERDUE"
    BY DEF Records
  <2> HIDE DEF q
  <2>2. r.softAt # NoTime /\ r.escAt = NoTime /\ t >= HardThreshold(o, r)
    BY <1>4 DEF HardDue
  <2> QED BY <2>1, <2>2 DEF NoTime
<1>5. ASSUME r.status \in {"SOFT_OVERDUE", "HARD_OVERDUE"}, ShouldEscalate(o, r, t)
      PROVE  StageSound(o, [r EXCEPT !.status = "ESCALATED", !.escAt = t])
  <2> DEFINE q == [r EXCEPT !.status = "ESCALATED", !.escAt = t]
  <2>1. /\ q.created = r.created /\ q.softAt = r.softAt /\ q.hardAt = r.hardAt
        /\ q.escAt = t /\ q.restoredAt = r.restoredAt /\ q.status = "ESCALATED"
    BY DEF Records
  <2> HIDE DEF q
  <2>2. r.softAt # NoTime /\ t >= EffectiveDueAt(o, r) + Pol(o).esc
    BY <1>5 DEF ShouldEscalate
  <2> QED BY <2>1, <2>2 DEF NoTime
<1>6. ASSUME NEW e \in EventTypes \cup {"closed"}
      PROVE  StageSound(o, [r EXCEPT !.status = "FULFILLED", !.by = e])
  BY PolicyAssumption DEF Records
<1>7. ASSUME CanRestore(o, r, t)
      PROVE  StageSound(o, [r EXCEPT !.status = "RESTORED", !.restoredAt = t])
  <2> DEFINE q == [r EXCEPT !.status = "RESTORED", !.restoredAt = t]
  <2>1. /\ q.created = r.created /\ q.softAt = r.softAt /\ q.hardAt = r.hardAt
        /\ q.escAt = r.escAt /\ q.restoredAt = t /\ q.status = "RESTORED"
    BY DEF Records
  <2> HIDE DEF q
  <2>2. r.softAt # NoTime /\ t <= RestorationDeadline(o, r)
    BY <1>7 DEF CanRestore
  <2> QED BY <2>1, <2>2 DEF NoTime
<1>8. StageSound(o, [r EXCEPT !.status = "CANCELLED"])
  BY DEF Records
<1> QED BY <1>1, <1>2, <1>3, <1>4, <1>5, <1>6, <1>7, <1>8

LEMMA SnapshotSound ==
  ASSUME StageEvidence, NEW S, NEW o \in Obs
  PROVE  StageSound(o, Snapshot(S)[o])
BY BlankSound DEF Snapshot, StageEvidence

LEMMA IdleOK == JobOK(Idle)
BY BlankSound DEF JobOK, Idle, InPassA, InPassB

\* A step of w that leaves the rows alone.
LEMMA JobStep ==
  ASSUME StageInv, TypeOK', NEW w \in Workers, NEW j, JobOK(j),
         job' = [job EXCEPT ![w] = j], obs' = obs
  PROVE  StageInv'
BY DEF StageInv, StageEvidence, TypeOK

\* A step of w that writes r to row o.
LEMMA WriteStep ==
  ASSUME StageInv, TypeOK', NEW w \in Workers, NEW j, JobOK(j),
         job' = [job EXCEPT ![w] = j],
         NEW o \in Obs, NEW r \in Records, StageSound(o, r), Update(o, r)
  PROVE  StageInv'
<1>1. obs[o].sev \in Severities
  BY DEF StageInv, TypeOK, Records
<1>2. StageSound(o, [r EXCEPT !.sev = obs[o].sev])
  BY <1>1, WrittenSound, 0 \in Nat
<1>3. StageEvidence'
  BY <1>2 DEF StageInv, StageEvidence, Update, TypeOK
<1> QED BY <1>3 DEF StageInv, TypeOK

LEMMA StageIngest ==
  ASSUME StageInv, TypeOK', NEW w \in Workers, Ingest(w)
  PROVE  StageInv'
<1>0. TypeOK /\ job[w] \in Jobs /\ JobOK(job[w])
  BY DEF StageInv, TypeOK
<1>1. ASSUME NEW o \in Obs, TryFulfil(w, o) PROVE StageInv'
  <2> DEFINE r == [job[w].copy[o] EXCEPT !.status = "FULFILLED", !.by = job[w].type]
             j == [job[w] EXCEPT !.todo = @ \ {o}, !.copy[o] = Blank]
  <2>1. job[w].type \in EventTypes /\ job[w].copy[o] \in Records
        /\ StageSound(o, job[w].copy[o]) /\ job[w].at \in Times
    BY <1>0, <1>1, HeldType DEF TryFulfil, At, JobOK
  <2>2. StageSound(o, r)
    BY <2>1, WrittenSound
  <2>3. r \in Records
    BY <2>1 DEF Records, ObStatus, Evidence
  <2>4. job' = [job EXCEPT ![w] = j] /\ Update(o, r) /\ job[w].pc = "fulfil"
    BY <1>1 DEF TryFulfil, At
  <2>5. JobOK(j)
    BY <1>0, <2>4, BlankSound DEF JobOK, InPassA, InPassB, Jobs
  <2> QED BY <2>2, <2>3, <2>4, <2>5, WriteStep
<1>2. ASSUME NEW j, job' = [job EXCEPT ![w] = j], obs' = obs, j.copy = job[w].copy,
             j.pc \in {"trigger", "add"}
      PROVE  StageInv'
  <2>1. JobOK(j)
    BY <1>0, <1>2 DEF JobOK, InPassA, InPassB
  <2> QED BY <1>2, <2>1, JobStep
<1>3. CASE FulfilDone(w)
  <2> DEFINE K == {k \in Kinds : /\ Policy[k].trigger = job[w].type
                                 /\ Policy[k].byRule => ent[job[w].entity].status # "UNKNOWN"}
             j == [job[w] EXCEPT !.pc = "trigger", !.kinds = K]
  <2>1. job' = [job EXCEPT ![w] = j] /\ obs' = obs
    BY <1>3 DEF FulfilDone
  <2> HIDE DEF K
  <2>2. j.copy = job[w].copy /\ j.pc = "trigger"
    BY <1>0 DEF Jobs
  <2> QED BY <1>2, <2>1, <2>2
<1>4. ASSUME NEW k \in Kinds, DeduplicateSkip(w, k) PROVE StageInv'
  <2> DEFINE j == [job[w] EXCEPT !.kinds = @ \ {k}]
  <2>1. job' = [job EXCEPT ![w] = j] /\ obs' = obs /\ job[w].pc = "trigger"
    BY <1>4 DEF DeduplicateSkip, At
  <2>2. j.copy = job[w].copy /\ j.pc = "trigger"
    BY <1>0, <2>1 DEF Jobs
  <2> QED BY <1>2, <2>1, <2>2
<1>5. ASSUME NEW k \in Kinds, TriggerMatch(w, k) PROVE StageInv'
  <2>1. PICK o \in Obs :
          job' = [job EXCEPT ![w].pc = "add", ![w].cur = o, ![w].kinds = @ \ {k}]
    BY <1>5 DEF TriggerMatch
  <2> DEFINE j == [job[w] EXCEPT !.pc = "add", !.cur = o, !.kinds = @ \ {k}]
  <2>2. job' = [job EXCEPT ![w] = j] /\ obs' = obs
    BY <1>5, <2>1 DEF TriggerMatch
  <2>3. j.copy = job[w].copy /\ j.pc = "add"
    BY <1>0 DEF Jobs
  <2> QED BY <1>2, <2>2, <2>3
<1>6. CASE AddObligation(w)
  <2> DEFINE j == [job[w] EXCEPT !.pc = "trigger", !.cur = NoOb]
  <2>1. job' = [job EXCEPT ![w] = j]
    BY <1>6 DEF AddObligation
  <2>2. j.copy = job[w].copy /\ j.pc = "trigger"
    BY <1>0 DEF Jobs
  <2>3. JobOK(j)
    BY <1>0, <2>2 DEF JobOK, InPassA, InPassB
  <2>4. StageEvidence'
    BY <1>6, FreshSound DEF AddObligation, StageInv, StageEvidence, TypeOK
  <2> QED BY <2>1, <2>3, <2>4 DEF StageInv, TypeOK
<1>7. CASE TriggerDone(w)
  BY <1>7, IdleOK, JobStep DEF TriggerDone, Finish
<1>8. ASSUME NEW k \in Kinds, NoActor(w, k) PROVE StageInv'
  <2> DEFINE j == [job[w] EXCEPT !.kinds = @ \ {k}]
  <2>1. job' = [job EXCEPT ![w] = j] /\ obs' = obs /\ job[w].pc = "trigger"
    BY <1>8 DEF NoActor, At
  <2>2. j.copy = job[w].copy /\ j.pc = "trigger"
    BY <1>0, <2>1 DEF Jobs
  <2> QED BY <1>2, <2>1, <2>2
<1> QED BY <1>1, <1>3, <1>4, <1>5, <1>6, <1>7, <1>8 DEF Ingest

LEMMA StageStart ==
  ASSUME StageInv, TypeOK', NEW w \in Workers, Start(w)
  PROVE  StageInv'
<1>0. TypeOK /\ StageEvidence
  BY DEF StageInv
<1>1. ASSUME NEW e \in Entities, NEW a \in Actors,
             NEW t \in EventTypes, IngestEvent(w, e, a, t)
      PROVE  StageInv'
  <2> DEFINE S == {o \in Obs : /\ EntityOf[o] = e /\ IsOpen(obs[o].status)
                               /\ t \in Pol(o).required}
             c == Snapshot(S)
             j == [Idle EXCEPT !.pc = "fulfil", !.at = now, !.todo = S, !.copy = c,
                               !.type = t, !.entity = e, !.actor = a]
  <2>1. job' = [job EXCEPT ![w] = j] /\ obs' = obs
    BY <1>1 DEF IngestEvent
  <2>2. \A o \in Obs : StageSound(o, c[o])
    BY <1>0, SnapshotSound
  <2> HIDE DEF c, S
  <2>3. JobOK(j)
    BY <2>2 DEF JobOK, Idle, InPassA, InPassB
  <2> QED BY <2>1, <2>3, JobStep
<1>2. CASE ScanStart(w)
  <2> DEFINE S == {o \in Obs : obs[o].status = "PENDING"}
             c == Snapshot(S)
             j == [Idle EXCEPT !.pc = "pass1", !.at = now, !.todo = S, !.copy = c]
  <2>1. job' = [job EXCEPT ![w] = j] /\ obs' = obs
    BY <1>2 DEF ScanStart, Begin
  <2>2. \A o \in Obs : StageSound(o, c[o])
    BY <1>0, SnapshotSound
  <2> HIDE DEF c, S
  <2>3. JobOK(j)
    BY <2>2 DEF JobOK, Idle, InPassA, InPassB
  <2> QED BY <2>1, <2>3, JobStep
<1>3. ASSUME NEW o \in Obs, NEW pc \in {"restore", "close", "cancel"}, Hold(w, o, pc),
             pc = "restore" => CanRestore(o, obs[o], now),
             pc = "cancel" => obs[o].status \in {"PENDING", "SOFT_OVERDUE"}
      PROVE  StageInv'
  <2> DEFINE c == Snapshot({o})
             j == [Idle EXCEPT !.pc = pc, !.at = now, !.cur = o, !.copy = c]
  <2>1. job' = [job EXCEPT ![w] = j] /\ obs' = obs
    BY <1>3 DEF Hold
  <2>2. (\A p \in Obs : StageSound(p, c[p])) /\ c[o] = obs[o]
    BY <1>0, SnapshotSound DEF Snapshot
  <2> HIDE DEF c
  <2>3. JobOK(j)
    BY <1>3, <2>2 DEF JobOK, Idle, InPassA, InPassB
  <2> QED BY <2>1, <2>3, JobStep
<1>4. ASSUME NEW o \in Obs, RestoreRequest(w, o) \/ CloseRequest(w, o) \/ CancelRequest(w, o)
      PROVE  StageInv'
  BY <1>3, <1>4 DEF RestoreRequest, CloseRequest, CancelRequest
<1>5. ASSUME NEW e \in Entities, NEW a \in Actors, NEW k \in Kinds, ToolTrigger(w, e, a, k)
      PROVE  StageInv'
  <2>1. PICK o \in Obs : job' = [job EXCEPT ![w] = Adding(o)]
    BY <1>5, ToolTriggerJob
  <2>2. JobOK(Adding(o))
    BY BlankSound DEF JobOK, Adding, Idle, InPassA, InPassB
  <2> QED BY <1>5, <2>1, <2>2, JobStep DEF ToolTrigger
<1> QED BY <1>1, <1>2, <1>4, <1>5 DEF Start

LEMMA StageDirectWrite ==
  ASSUME StageInv, TypeOK', NEW w \in Workers, DirectWrite(w)
  PROVE  StageInv'
<1> DEFINE o == job[w].cur
           r == job[w].copy[o]
           t == job[w].at
<1>1. o \in Obs /\ r \in Records /\ StageSound(o, r)
      /\ t \in Nat /\ t \in Times
  BY HeldType
     DEF DirectWrite, RestoreObligation, CloseObligation, CancelObligation, At, StageInv, JobOK
<1>2. ASSUME NEW q \in Records, StageSound(o, q), Commit(w, q) PROVE StageInv'
  BY <1>1, <1>2, IdleOK, WriteStep DEF Commit, Finish
<1>3. CASE RestoreObligation(w)
  <2>1. CanRestore(o, r, t)
    BY <1>3 DEF RestoreObligation, At, StageInv, JobOK
  <2>2. [r EXCEPT !.status = "RESTORED", !.restoredAt = t] \in Records
    BY <1>1 DEF Records, ObStatus
  <2> QED BY <1>1, <1>2, <1>3, <2>1, <2>2, WrittenSound DEF RestoreObligation, Held
<1>4. CASE CloseObligation(w)
  <2>1. [r EXCEPT !.status = "FULFILLED", !.by = "closed"] \in Records
    BY <1>1 DEF Records, ObStatus, Evidence
  <2> QED BY <1>1, <1>2, <1>4, <2>1, WrittenSound DEF CloseObligation, Held
<1>5. CASE CancelObligation(w)
  <2>1. [r EXCEPT !.status = "CANCELLED"] \in Records
    BY <1>1 DEF Records, ObStatus
  <2> QED BY <1>1, <1>2, <1>5, <2>1, WrittenSound DEF CancelObligation, Held
<1> QED BY <1>3, <1>4, <1>5 DEF DirectWrite

\* _escalate, from a copy that is soft or hard overdue.
LEMMA StageEscalate ==
  ASSUME StageInv, TypeOK', NEW w \in Workers, NEW o \in Obs,
         NEW pc \in {"hardMark", "escMark"}, Escalate(w, o, pc),
         job[w].copy[o].status \in {"SOFT_OVERDUE", "HARD_OVERDUE"},
         pc = "hardMark" => job[w].pc \in InPassA /\ o = job[w].cur,
         pc = "escMark" => job[w].pc = "passB"
  PROVE  StageInv'
<1> DEFINE r == [job[w].copy[o] EXCEPT !.status = "ESCALATED", !.escAt = job[w].at]
           j == [job[w] EXCEPT !.pc = pc, !.copy[o] = r, !.cur = o, !.todo = @ \ {o}]
<1>1. TypeOK /\ JobOK(job[w]) /\ job[w] \in Jobs
  BY DEF StageInv, TypeOK
<1>2. /\ job[w].copy[o] \in Records /\ StageSound(o, job[w].copy[o])
      /\ job[w].at \in Nat /\ job[w].at \in Times
  BY <1>1, HeldType DEF JobOK
<1>3. r \in Records
  BY <1>2 DEF Records, ObStatus
<1>4. StageSound(o, r)
  BY <1>2, WrittenSound DEF Escalate
<1>5. job' = [job EXCEPT ![w] = j] /\ Update(o, r)
  BY DEF Escalate, Write
<1> HIDE DEF r
<1>6. JobOK(j)
  BY <1>1, <1>4 DEF JobOK, InPassA, InPassB, Jobs
<1> QED BY <1>3, <1>4, <1>5, <1>6, WriteStep

\* A step of the scan that only moves on, in the same pass.
LEMMA StageGoto ==
  ASSUME StageInv, TypeOK', NEW w \in Workers, NEW pc \in InPassA \cup InPassB \cup
           {"softReport", "softEntity"}, pc \notin {"passA", "passB"},
         Goto(w, pc), obs' = obs,
         pc \in InPassA => job[w].pc \in InPassA,
         pc \in InPassB => job[w].pc \in InPassB,
         pc \in {"hardCheck", "hardReport", "hardEscalate"} =>
           job[w].pc \in {"hardCheck", "hardReport", "hardEscalate"}
  PROVE  StageInv'
<1> DEFINE j == [job[w] EXCEPT !.pc = pc]
<1>1. JobOK(job[w]) /\ job[w] \in Jobs /\ job' = [job EXCEPT ![w] = j]
  BY DEF StageInv, TypeOK, Goto
<1>2. JobOK(j)
  BY <1>1 DEF JobOK, InPassA, InPassB, Jobs
<1> QED BY <1>1, <1>2, JobStep

LEMMA StageRelease ==
  ASSUME StageInv, TypeOK', NEW w \in Workers, NEW pc \in {"pass1", "passA", "passB"},
         Release(w, pc), obs' = obs,
         pc = "passA" => job[w].pc \in InPassA,
         pc = "passB" => job[w].pc \in InPassB
  PROVE  StageInv'
<1> DEFINE j == Released(w, pc)
<1>0. JobOK(job[w]) /\ job[w] \in Jobs /\ TypeOK
  BY DEF StageInv, TypeOK
<1>1. JobOK(job[w]) /\ job[w] \in Jobs /\ job' = [job EXCEPT ![w] = j]
  BY <1>0, ReleaseJob
<1>2. \A o \in Obs : j.copy[o] = IF o = job[w].cur THEN Blank ELSE job[w].copy[o]
  BY <1>1 DEF Jobs, Released
<1>3. j.pc = pc /\ j.cur = NoOb /\ j.todo = job[w].todo /\ j.at = job[w].at
      /\ j.todo \subseteq Obs
  BY <1>1 DEF Jobs, Released
<1> HIDE DEF j
<1>4. JobOK(j)
  BY <1>1, <1>2, <1>3, BlankSound, PolicyAssumption DEF JobOK, InPassA, InPassB
<1> QED BY <1>1, <1>4, JobStep

\* A new list of rows for the next pass.
LEMMA StageNextPass ==
  ASSUME StageInv, TypeOK', NEW w \in Workers, NEW S \in SUBSET Obs,
         NEW pc \in {"passA", "passB"}, job[w].cur = NoOb,
         job' = [job EXCEPT ![w].pc = pc, ![w].todo = S, ![w].copy = Snapshot(S)],
         obs' = obs,
         \A o \in S : obs[o].status = "SOFT_OVERDUE",
         pc = "passA" => \A o \in S : HardDue(o, obs[o], job[w].at)
  PROVE  StageInv'
<1> DEFINE c == Snapshot(S)
           j == [job[w] EXCEPT !.pc = pc, !.todo = S, !.copy = c]
<1>1. job[w] \in Jobs /\ job' = [job EXCEPT ![w] = j]
  BY DEF StageInv, TypeOK
<1>2. (\A o \in Obs : StageSound(o, c[o])) /\ \A o \in S : c[o] = obs[o]
  BY SnapshotSound DEF StageInv, Snapshot
<1> HIDE DEF c
<1>3. j.pc = pc /\ j.cur = NoOb /\ j.todo = S /\ j.copy = c /\ j.at = job[w].at
  BY <1>1 DEF Jobs
<1> HIDE DEF j
<1>4. JobOK(j)
  BY <1>2, <1>3, PolicyAssumption DEF JobOK, InPassA, InPassB
<1> QED BY <1>1, <1>4, JobStep

LEMMA StageScan ==
  ASSUME StageInv, TypeOK', NEW w \in Workers, Scan(w)
  PROVE  StageInv'
<1>0. TypeOK /\ job[w] \in Jobs /\ JobOK(job[w])
  BY DEF StageInv, TypeOK
<1>1. ASSUME NEW o \in Obs, SendReminder(w, o) PROVE StageInv'
  <2> DEFINE r == [job[w].copy[o] EXCEPT !.reminded = TRUE]
             j == [job[w] EXCEPT !.copy[o] = r]
  <2>1. job[w].copy[o] \in Records /\ StageSound(o, job[w].copy[o])
    BY <1>0, HeldType DEF JobOK
  <2>2. StageSound(o, r)
    BY <2>1, WrittenSound, 0 \in Nat
  <2>3. r \in Records
    BY <2>1 DEF Records
  <2>4. job' = [job EXCEPT ![w] = j] /\ Update(o, r) /\ job[w].pc = "pass1"
    BY <1>1 DEF SendReminder, At
  <2> HIDE DEF r
  <2>5. JobOK(j)
    BY <1>0, <2>2, <2>4 DEF JobOK, InPassA, InPassB, Jobs
  <2> QED BY <2>2, <2>3, <2>4, <2>5, WriteStep
<1>2. ASSUME NEW o \in Obs, SoftOverdue(w, o) PROVE StageInv'
  <2> DEFINE r == [job[w].copy[o] EXCEPT !.status = "SOFT_OVERDUE", !.softAt = job[w].at]
             j == [job[w] EXCEPT !.pc = "softCheck", !.copy[o] = r, !.cur = o,
                                 !.todo = @ \ {o}]
  <2>1. /\ job[w].copy[o] \in Records /\ StageSound(o, job[w].copy[o])
        /\ job[w].at \in Nat /\ job[w].at \in Times
    BY <1>0, HeldType DEF JobOK
  <2>2. StageSound(o, r)
    BY <1>2, <2>1, WrittenSound DEF SoftOverdue
  <2>3. r \in Records
    BY <2>1 DEF Records, ObStatus
  <2>4. job' = [job EXCEPT ![w] = j] /\ Update(o, r) /\ job[w].pc = "pass1"
    BY <1>2 DEF SoftOverdue, Write, At
  <2> HIDE DEF r
  <2>5. JobOK(j)
    BY <1>0, <2>2, <2>4 DEF JobOK, InPassA, InPassB, Jobs
  <2> QED BY <2>2, <2>3, <2>4, <2>5, WriteStep
<1>3. CASE SoftCheck(w)
  <2>1. ASSUME NEW pc \in {"softReport", "softEntity"}, Goto(w, pc) PROVE StageInv'
    BY <1>3, <2>1, StageGoto DEF SoftCheck, InPassA, InPassB
  <2> QED BY <1>3, <2>1 DEF SoftCheck
<1>4. CASE SoftReport(w)
  BY <1>4, StageGoto DEF SoftReport, InPassA, InPassB
<1>5. CASE SoftEntity(w)
  BY <1>5, StageRelease DEF SoftEntity
<1>6. CASE PassOneDone(w)
  <2>1. \A o \in PassADue(w) : HardDue(o, obs[o], job[w].at)
    BY DEF PassADue, HardDue
  <2>2. \A o \in PassADue(w) : o \in Obs /\ obs[o].status = "SOFT_OVERDUE"
    BY DEF PassADue
  <2>3. job[w].cur = NoOb /\ obs' = obs
    BY <1>0, <1>6 DEF PassOneDone, At, JobOK
  <2> QED BY <1>6, <2>1, <2>2, <2>3, StageNextPass DEF PassOneDone
<1>7. ASSUME NEW o \in Obs, HardOverdue(w, o) PROVE StageInv'
  <2> DEFINE r == [job[w].copy[o] EXCEPT !.status = "HARD_OVERDUE",
                     !.hardAt = job[w].at, !.sev = Bumped(@)]
             j == [job[w] EXCEPT !.pc = "hardCheck", !.copy[o] = r, !.cur = o,
                                 !.todo = @ \ {o}]
  <2>1. /\ job[w].copy[o] \in Records /\ StageSound(o, job[w].copy[o])
        /\ job[w].at \in Nat /\ job[w].at \in Times
        /\ HardDue(o, job[w].copy[o], job[w].at)
    BY <1>0, <1>7, HeldType DEF JobOK, HardOverdue, At, InPassA
  <2>2. StageSound(o, r)
    BY <2>1, WrittenSound
  <2>3. r \in Records /\ r.status = "HARD_OVERDUE"
    BY <2>1 DEF Records, ObStatus, Bumped, Severities
  <2>4. job' = [job EXCEPT ![w] = j] /\ Update(o, r) /\ job[w].pc = "passA"
    BY <1>7 DEF HardOverdue, Write, At
  <2> HIDE DEF r
  <2>5. JobOK(j)
    BY <1>0, <2>2, <2>3, <2>4 DEF JobOK, InPassA, InPassB, Jobs
  <2> QED BY <2>2, <2>3, <2>4, <2>5, WriteStep
<1>8. CASE HardCheck(w)
  <2>1. ASSUME NEW pc \in {"hardReport", "hardEscalate"}, Goto(w, pc) PROVE StageInv'
    BY <1>8, <2>1, StageGoto DEF HardCheck, At, InPassA, InPassB
  <2> QED BY <1>8, <2>1 DEF HardCheck
<1>9. CASE HardReport(w)
  BY <1>9, StageGoto DEF HardReport, At, InPassA, InPassB
<1>10. CASE HardEscalate(w)
  <2>1. job[w].cur \in Obs /\ job[w].copy[job[w].cur].status = "HARD_OVERDUE"
        /\ job[w].pc \in InPassA
    BY <1>0, <1>10 DEF HardEscalate, At, JobOK, InPassA
  <2> QED BY <1>10, <2>1, StageEscalate DEF HardEscalate
<1>11. CASE HardNoEscalation(w)
  BY <1>11, StageGoto DEF HardNoEscalation, At, InPassA, InPassB
<1>12. CASE HardMark(w)
  BY <1>12, StageGoto DEF HardMark, At, InPassA, InPassB
<1>13. CASE HardEntity(w)
  BY <1>13, StageRelease DEF HardEntity, At, InPassA
<1>14. CASE PassADone(w)
  <2>1. \A o \in PassBDue(w) : o \in Obs /\ obs[o].status = "SOFT_OVERDUE"
    BY DEF PassBDue
  <2>2. job[w].cur = NoOb /\ obs' = obs
    BY <1>0, <1>14 DEF PassADone, At, JobOK
  <2> QED BY <1>14, <2>1, <2>2, StageNextPass DEF PassADone
<1>15. ASSUME NEW o \in Obs, LateEscalate(w, o) PROVE StageInv'
  <2>1. job[w].copy[o].status = "SOFT_OVERDUE" /\ job[w].pc = "passB"
    BY <1>0, <1>15 DEF LateEscalate, At, JobOK, InPassB
  <2> QED BY <1>15, <2>1, StageEscalate DEF LateEscalate
<1>16. CASE LateMark(w)
  BY <1>16, StageRelease DEF LateMark, At, InPassB
<1>17. CASE ScanDone(w)
  BY <1>17, IdleOK, JobStep DEF ScanDone, Finish
<1> QED BY <1>1, <1>2, <1>3, <1>4, <1>5, <1>6, <1>7, <1>8, <1>9, <1>10, <1>11,
           <1>12, <1>13, <1>14, <1>15, <1>16, <1>17 DEF Scan

LEMMA StageInvariant == Spec => []StageInv
<1>1. Init => StageInv
  <2>1. Init => TypeOK
    BY BlankType, IdleType, PolicyAssumption
       DEF Init, TypeOK, ViolationRecords, EntityStatuses, Times, NoTime
  <2> QED BY <2>1, BlankSound, IdleOK DEF Init, StageInv, StageEvidence
<1>2. StageInv /\ [Next]_vars => StageInv'
  <2> SUFFICES ASSUME StageInv, [Next]_vars PROVE StageInv'
    OBVIOUS
  <2>1. TypeOK'
    BY TypeStep DEF StageInv
  <2>2. CASE UNCHANGED <<obs, job>>
    BY <2>1, <2>2 DEF StageInv, StageEvidence
  <2>3. ASSUME NEW w \in Workers, NEW o \in Obs, StoreCancel(w, o) PROVE StageInv'
    <3>1. StageSound(o, [obs[o] EXCEPT !.status = "CANCELLED"])
      BY WrittenSound, 0 \in Nat DEF StageInv, StageEvidence, TypeOK
    <3>2. StageEvidence'
      BY <2>3, <3>1 DEF StoreCancel, StageInv, StageEvidence, TypeOK
    <3> QED BY <2>1, <2>3, <3>2 DEF StageInv, StoreCancel
  <2> QED BY <2>1, <2>2, <2>3, StageIngest, StageScan, StageStart, StageDirectWrite
          DEF Next, Continue, Tick, EntityChange, RegisterEntity, UpdateEntityStatus, vars
<1> QED BY <1>1, <1>2, PTL DEF Spec

(* However many workers interleave, no row ever claims a stage of the aging     *)
(* ladder its policy and its own timestamps do not allow: stale write-backs     *)
(* replace a row by one that was sound when it was read.                        *)
THEOREM StagesAreEvidenced == Spec => []StageEvidence
<1>1. StageInv => StageEvidence
  BY DEF StageInv
<1> QED BY <1>1, StageInvariant, PTL

-------------------------------------------------------------------------------
(* EscalationReported, whatever the interleaving: escalated copies count too,   *)
(* because a worker may write one back.                                         *)

Marking(o) == \E w \in Workers : job[w].pc \in {"hardMark", "escMark"} /\ job[w].cur = o

Reported(o) == ViolationExists(o) /\ (viol[o].escalated \/ Marking(o))

EscInv ==
  /\ TypeOK
  /\ \A o \in Obs :
       obs[o].escAt # NoTime \/ (\E w \in Workers : job[w].copy[o].escAt # NoTime)
       => Reported(o)

\* A reported obligation stays reported when violations are only added and
\* every worker that stops marking it has marked it.
LEMMA ReportedKept ==
  ASSUME TypeOK, TypeOK', NEW o \in Obs, Reported(o),
         viol'[o].soft >= viol[o].soft, viol'[o].hard >= viol[o].hard,
         viol[o].escalated => viol'[o].escalated,
         Marking(o) => Marking(o)' \/ viol'[o].escalated
  PROVE  Reported(o)'
<1>1. /\ viol[o].soft \in Nat /\ viol[o].hard \in Nat
      /\ viol'[o].soft \in Nat /\ viol'[o].hard \in Nat
  BY DEF TypeOK, ViolationRecords
<1>2. ViolationExists(o)'
  BY <1>1 DEF Reported, ViolationExists
<1> QED BY <1>2 DEF Reported

\* What no step takes back: reports, and marks in progress that do not finish.
ReportsKept ==
  \A o \in Obs :
    /\ viol'[o].soft >= viol[o].soft /\ viol'[o].hard >= viol[o].hard
    /\ viol[o].escalated => viol'[o].escalated
    /\ Marking(o) => Marking(o)' \/ viol'[o].escalated

\* Nothing but _escalate makes a row or a copy escalated.
NoNewEscalation ==
  \A o \in Obs :
    /\ obs'[o].escAt # NoTime =>
         obs[o].escAt # NoTime \/ \E w \in Workers : job[w].copy[o].escAt # NoTime
    /\ \A w \in Workers : job'[w].copy[o].escAt # NoTime =>
         obs[o].escAt # NoTime \/ \E v \in Workers : job[v].copy[o].escAt # NoTime

LEMMA EscKept ==
  ASSUME EscInv, TypeOK', ReportsKept, NoNewEscalation
  PROVE  EscInv'
BY ReportedKept DEF EscInv, ReportsKept, NoNewEscalation

\* A step of w that is not a mark and leaves the violations alone.
LEMMA QuietReports ==
  ASSUME TypeOK, viol' = viol, NEW w \in Workers, NEW j, job' = [job EXCEPT ![w] = j],
         job[w].pc \notin {"hardMark", "escMark"}
  PROVE  ReportsKept
<1>1. \A o \in Obs : viol[o].soft \in Nat /\ viol[o].hard \in Nat
  BY DEF TypeOK, ViolationRecords
<1>2. \A v \in Workers : v # w => job'[v] = job[v]
  BY DEF TypeOK
<1>3. \A o \in Obs : Marking(o) => Marking(o)'
  BY <1>2 DEF Marking
<1> QED BY <1>1, <1>3 DEF ReportsKept

\* A step of w that adds a violation of o.
LEMMA AddedReports ==
  ASSUME TypeOK, NEW w \in Workers, NEW j, job' = [job EXCEPT ![w] = j], NEW o,
         \/ viol' = [viol EXCEPT ![o].soft = @ + 1]
         \/ viol' = [viol EXCEPT ![o].hard = @ + 1],
         job[w].pc \notin {"hardMark", "escMark"}
  PROVE  ReportsKept
<1>1. \A v \in Workers : v # w => job'[v] = job[v]
  BY DEF TypeOK
<1>2. \A p \in Obs : Marking(p) => Marking(p)'
  BY <1>1 DEF Marking
<1>3. \A p \in Obs : viol[p] \in [soft: Nat, hard: Nat, escalated: BOOLEAN]
  BY DEF TypeOK, ViolationRecords
<1>4. \A p \in Obs : /\ viol'[p].soft >= viol[p].soft /\ viol'[p].hard >= viol[p].hard
                     /\ viol'[p].escalated = viol[p].escalated
  BY <1>3 DEF TypeOK
<1> QED BY <1>2, <1>4 DEF ReportsKept

\* A step of w to the job j whose copies are old ones, rows, or not escalated.
LEMMA QuietCopies ==
  ASSUME TypeOK, NEW w \in Workers, NEW j, job' = [job EXCEPT ![w] = j],
         \A o \in Obs : j.copy[o].escAt \in {NoTime, obs[o].escAt, job[w].copy[o].escAt},
         \A o \in Obs : obs'[o].escAt \in {NoTime, obs[o].escAt, job[w].copy[o].escAt}
  PROVE  NoNewEscalation
<1>1. job'[w] = j /\ \A v \in Workers : v # w => job'[v] = job[v]
  BY DEF TypeOK
<1> QED BY <1>1 DEF NoNewEscalation

LEMMA EscQuiet ==
  ASSUME EscInv, TypeOK', viol' = viol, NEW w \in Workers, NEW j,
         job' = [job EXCEPT ![w] = j], job[w].pc \notin {"hardMark", "escMark"},
         \A o \in Obs : j.copy[o].escAt \in {NoTime, obs[o].escAt, job[w].copy[o].escAt},
         \A o \in Obs : obs'[o].escAt \in {NoTime, obs[o].escAt, job[w].copy[o].escAt}
  PROVE  EscInv'
<1>1. TypeOK
  BY DEF EscInv
<1>2. ReportsKept
  BY <1>1, QuietReports
<1>3. NoNewEscalation
  BY <1>1, QuietCopies
<1> QED BY <1>2, <1>3, EscKept

\* The rows after an update of o by r.
LEMMA UpdatedEsc ==
  ASSUME TypeOK, NEW o \in Obs, NEW r \in Records, Update(o, r)
  PROVE  \A p \in Obs : obs'[p].escAt = IF p = o THEN r.escAt ELSE obs[p].escAt
<1>1. [r EXCEPT !.sev = obs[o].sev].escAt = r.escAt
  BY DEF Records
<1>2. obs'[o] = r \/ obs'[o] = [r EXCEPT !.sev = obs[o].sev]
  BY DEF Update, TypeOK
<1>3. \A p \in Obs \ {o} : obs'[p] = obs[p]
  BY DEF Update, TypeOK
<1> QED BY <1>1, <1>2, <1>3

LEMMA SnapshotEsc ==
  ASSUME NEW S, NEW o \in Obs
  PROVE  Snapshot(S)[o].escAt \in {NoTime, obs[o].escAt}
BY DEF Snapshot, Blank

\* A write of o whose record was not escalated by this step.
LEMMA EscQuietWrite ==
  ASSUME EscInv, TypeOK', viol' = viol, NEW w \in Workers, NEW o \in Obs,
         NEW r \in Records, Update(o, r), r.escAt = job[w].copy[o].escAt,
         NEW j, job' = [job EXCEPT ![w] = j], job[w].pc \notin {"hardMark", "escMark"},
         \A p \in Obs : j.copy[p].escAt \in {NoTime, obs[p].escAt, job[w].copy[p].escAt}
  PROVE  EscInv'
<1>1. \A p \in Obs : obs'[p].escAt \in {NoTime, obs[p].escAt, job[w].copy[p].escAt}
  BY UpdatedEsc DEF EscInv
<1> QED BY <1>1, EscQuiet

\* The end of an operation.
LEMMA EscIdle ==
  ASSUME EscInv, TypeOK', viol' = viol, obs' = obs, NEW w \in Workers, Finish(w),
         job[w].pc \notin {"hardMark", "escMark"}
  PROVE  EscInv'
<1>1. \A o \in Obs : Idle.copy[o].escAt = NoTime
  BY DEF Idle, Blank
<1>2. job' = [job EXCEPT ![w] = Idle]
  BY DEF Finish
<1> DEFINE j == Idle
<1>3. \A o \in Obs : j.copy[o].escAt \in {NoTime, obs[o].escAt, job[w].copy[o].escAt}
  BY <1>1
<1>4. job' = [job EXCEPT ![w] = j]
  BY <1>2
<1> HIDE DEF j
<1> QED BY <1>3, <1>4, EscQuiet

LEMMA EscIngest ==
  ASSUME EscInv, TypeOK', NEW w \in Workers, Ingest(w)
  PROVE  EscInv'
<1>0. TypeOK /\ job[w] \in Jobs
  BY DEF EscInv, TypeOK
<1>1. ASSUME NEW o \in Obs, TryFulfil(w, o) PROVE EscInv'
  <2> DEFINE r == [job[w].copy[o] EXCEPT !.status = "FULFILLED", !.by = job[w].type]
             j == [job[w] EXCEPT !.todo = @ \ {o}, !.copy[o] = Blank]
  <2>1. job[w].copy[o] \in Records /\ job[w].type \in Evidence
    BY <1>0, HeldType DEF Jobs, Evidence
  <2>2. r \in Records /\ r.escAt = job[w].copy[o].escAt
    BY <2>1 DEF Records, ObStatus
  <2>3. /\ job' = [job EXCEPT ![w] = j] /\ Update(o, r) /\ viol' = viol
        /\ job[w].pc = "fulfil"
    BY <1>1 DEF TryFulfil, At
  <2>4. \A p \in Obs : j.copy[p] = IF p = o THEN Blank ELSE job[w].copy[p]
    BY <1>0 DEF Jobs
  <2> HIDE DEF j, r
  <2>5. \A p \in Obs : j.copy[p].escAt \in {NoTime, obs[p].escAt, job[w].copy[p].escAt}
    BY <2>4 DEF Blank
  <2> QED BY <2>2, <2>3, <2>5, EscQuietWrite
<1>2. CASE FulfilDone(w)
  <2> DEFINE K == {k \in Kinds : /\ Policy[k].trigger = job[w].type
                                 /\ Policy[k].byRule => ent[job[w].entity].status # "UNKNOWN"}
             j == [job[w] EXCEPT !.pc = "trigger", !.kinds = K]
  <2>1. job' = [job EXCEPT ![w] = j] /\ obs' = obs /\ viol' = viol /\ job[w].pc = "fulfil"
    BY <1>2 DEF FulfilDone, At
  <2>2. j.copy = job[w].copy
    BY <1>0 DEF Jobs
  <2> HIDE DEF j
  <2> QED BY <2>1, <2>2, EscQuiet
<1>3. ASSUME NEW k \in Kinds, DeduplicateSkip(w, k) PROVE EscInv'
  <2> DEFINE j == [job[w] EXCEPT !.kinds = @ \ {k}]
  <2>1. job' = [job EXCEPT ![w] = j] /\ obs' = obs /\ viol' = viol /\ job[w].pc = "trigger"
    BY <1>3 DEF DeduplicateSkip, At
  <2>2. j.copy = job[w].copy
    BY <1>0 DEF Jobs
  <2> HIDE DEF j
  <2> QED BY <2>1, <2>2, EscQuiet
<1>4. ASSUME NEW k \in Kinds, TriggerMatch(w, k) PROVE EscInv'
  <2>1. PICK o \in Obs :
          job' = [job EXCEPT ![w].pc = "add", ![w].cur = o, ![w].kinds = @ \ {k}]
    BY <1>4 DEF TriggerMatch
  <2> DEFINE j == [job[w] EXCEPT !.pc = "add", !.cur = o, !.kinds = @ \ {k}]
  <2>2. job' = [job EXCEPT ![w] = j] /\ obs' = obs /\ viol' = viol /\ job[w].pc = "trigger"
    BY <1>4, <2>1 DEF TriggerMatch, At
  <2>3. j.copy = job[w].copy
    BY <1>0 DEF Jobs
  <2> HIDE DEF j
  <2> QED BY <2>2, <2>3, EscQuiet
<1>5. CASE AddObligation(w)
  <2> DEFINE j == [job[w] EXCEPT !.pc = "trigger", !.cur = NoOb]
  <2>1. job' = [job EXCEPT ![w] = j] /\ viol' = viol /\ job[w].pc = "add"
    BY <1>5 DEF AddObligation, At
  <2>2. j.copy = job[w].copy
    BY <1>0 DEF Jobs
  <2>3. \A o \in Obs : obs'[o] \in {Fresh(o, job[w].at), obs[o]}
    BY <1>0, <1>5 DEF AddObligation, TypeOK
  <2>4. \A o \in Obs : Fresh(o, job[w].at).escAt = NoTime
    BY DEF Fresh, Blank
  <2> HIDE DEF j
  <2> QED BY <2>1, <2>2, <2>3, <2>4, EscQuiet
<1>6. CASE TriggerDone(w)
  BY <1>6, EscIdle DEF TriggerDone, At
<1>7. ASSUME NEW k \in Kinds, NoActor(w, k) PROVE EscInv'
  <2> DEFINE j == [job[w] EXCEPT !.kinds = @ \ {k}]
  <2>1. job' = [job EXCEPT ![w] = j] /\ obs' = obs /\ viol' = viol /\ job[w].pc = "trigger"
    BY <1>7 DEF NoActor, At
  <2>2. j.copy = job[w].copy
    BY <1>0 DEF Jobs
  <2> HIDE DEF j
  <2> QED BY <2>1, <2>2, EscQuiet
<1> QED BY <1>1, <1>2, <1>3, <1>4, <1>5, <1>6, <1>7 DEF Ingest

LEMMA EscStart ==
  ASSUME EscInv, TypeOK', NEW w \in Workers, Start(w)
  PROVE  EscInv'
<1>1. ASSUME NEW S \in SUBSET Obs, NEW j, job' = [job EXCEPT ![w] = j],
             j.copy = Snapshot(S), job[w].pc = "idle", obs' = obs, viol' = viol
      PROVE  EscInv'
  <2>1. \A o \in Obs : j.copy[o].escAt \in {NoTime, obs[o].escAt}
    BY <1>1, SnapshotEsc
  <2>2. \A o \in Obs : j.copy[o].escAt \in {NoTime, obs[o].escAt, job[w].copy[o].escAt}
    BY <2>1
  <2> QED BY <1>1, <2>2, EscQuiet
<1>2. ASSUME NEW e \in Entities, NEW a \in Actors,
             NEW t \in EventTypes, IngestEvent(w, e, a, t)
      PROVE  EscInv'
  <2> DEFINE S == {o \in Obs : /\ EntityOf[o] = e /\ IsOpen(obs[o].status)
                               /\ t \in Pol(o).required}
             j == [Idle EXCEPT !.pc = "fulfil", !.at = now, !.todo = S,
                               !.copy = Snapshot(S), !.type = t, !.entity = e,
                               !.actor = a]
  <2>1. job' = [job EXCEPT ![w] = j] /\ obs' = obs /\ viol' = viol /\ job[w].pc = "idle"
    BY <1>2 DEF IngestEvent, At
  <2>2. S \in SUBSET Obs
    OBVIOUS
  <2> HIDE DEF S
  <2>3. j.copy = Snapshot(S)
    BY DEF Idle
  <2> QED BY <1>1, <2>1, <2>2, <2>3
<1>3. CASE ScanStart(w)
  <2> DEFINE S == {o \in Obs : obs[o].status = "PENDING"}
             j == [Idle EXCEPT !.pc = "pass1", !.at = now, !.todo = S, !.copy = Snapshot(S)]
  <2>1. job' = [job EXCEPT ![w] = j] /\ obs' = obs /\ viol' = viol /\ job[w].pc = "idle"
    BY <1>3 DEF ScanStart, Begin
  <2>2. S \in SUBSET Obs
    OBVIOUS
  <2> HIDE DEF S
  <2>3. j.copy = Snapshot(S)
    BY DEF Idle
  <2> QED BY <1>1, <2>1, <2>2, <2>3
<1>4. ASSUME NEW o \in Obs, NEW pc, Hold(w, o, pc) PROVE EscInv'
  <2> DEFINE j == [Idle EXCEPT !.pc = pc, !.at = now, !.cur = o, !.copy = Snapshot({o})]
  <2>1. job' = [job EXCEPT ![w] = j] /\ obs' = obs /\ viol' = viol /\ job[w].pc = "idle"
    BY <1>4 DEF Hold, At
  <2>2. j.copy = Snapshot({o}) /\ {o} \in SUBSET Obs
    BY DEF Idle
  <2> QED BY <1>1, <2>1, <2>2
<1>5. ASSUME NEW e \in Entities, NEW a \in Actors, NEW k \in Kinds, ToolTrigger(w, e, a, k)
      PROVE  EscInv'
  <2>1. PICK o \in Obs : job' = [job EXCEPT ![w] = Adding(o)]
    BY <1>5, ToolTriggerJob
  <2>2. Adding(o).copy = Snapshot({})
    BY DEF Adding, Idle, Snapshot
  <2>3. obs' = obs /\ viol' = viol /\ job[w].pc = "idle"
    BY <1>5 DEF ToolTrigger, At
  <2> QED BY <1>1, <2>1, <2>2, <2>3
<1> QED BY <1>2, <1>3, <1>4, <1>5 DEF Start, RestoreRequest, CloseRequest, CancelRequest

LEMMA EscDirectWrite ==
  ASSUME EscInv, TypeOK', NEW w \in Workers, DirectWrite(w), job[w].cur \in Obs
  PROVE  EscInv'
<1> DEFINE o == job[w].cur
           r == job[w].copy[o]
<1>1. TypeOK /\ r \in Records /\ job[w].at \in Times
  BY HeldType DEF EscInv
<1>2. PICK q \in Records : Commit(w, q) /\ q.escAt = r.escAt
  <2>1. LET q == [r EXCEPT !.status = "RESTORED", !.restoredAt = job[w].at]
        IN  q \in Records /\ q.escAt = r.escAt
    BY <1>1 DEF Records, ObStatus
  <2>2. LET q == [r EXCEPT !.status = "FULFILLED", !.by = "closed"]
        IN  q \in Records /\ q.escAt = r.escAt
    BY <1>1 DEF Records, ObStatus, Evidence
  <2>3. LET q == [r EXCEPT !.status = "CANCELLED"]
        IN  q \in Records /\ q.escAt = r.escAt
    BY <1>1 DEF Records, ObStatus
  <2> QED BY <2>1, <2>2, <2>3
          DEF DirectWrite, RestoreObligation, CloseObligation, CancelObligation, Held
<1> DEFINE j == Idle
<1>3. \A p \in Obs : j.copy[p].escAt \in {NoTime, obs[p].escAt, job[w].copy[p].escAt}
  BY DEF Idle, Blank
<1>4. /\ job' = [job EXCEPT ![w] = j] /\ Update(o, q) /\ viol' = viol
      /\ job[w].pc \notin {"hardMark", "escMark"}
  BY <1>2 DEF Commit, Finish, DirectWrite, RestoreObligation, CloseObligation,
              CancelObligation, At
<1> HIDE DEF j
<1> QED BY <1>2, <1>3, <1>4, EscQuietWrite

\* _escalate: the obligation has a violation, and w is about to mark it.
LEMMA EscEscalate ==
  ASSUME EscInv, TypeOK', viol' = viol, NEW w \in Workers, NEW o \in Obs,
         NEW pc \in {"hardMark", "escMark"}, Escalate(w, o, pc),
         job[w].pc \notin {"hardMark", "escMark"}
  PROVE  EscInv'
<1> DEFINE r == [job[w].copy[o] EXCEPT !.status = "ESCALATED", !.escAt = job[w].at]
           j == [job[w] EXCEPT !.pc = pc, !.copy[o] = r, !.cur = o, !.todo = @ \ {o}]
<1>1. TypeOK /\ job[w] \in Jobs
  BY DEF EscInv, TypeOK
<1>2. r \in Records
  BY <1>1, HeldType DEF Records, ObStatus
<1>3. job' = [job EXCEPT ![w] = j] /\ Update(o, r) /\ ViolationExists(o)
  BY DEF Escalate, Write
<1> HIDE DEF r
<1>4. j.pc = pc /\ j.cur = o /\ \A p \in Obs \ {o} : j.copy[p] = job[w].copy[p]
  BY <1>1 DEF Jobs
<1> HIDE DEF j
<1>5. job'[w] = j /\ \A v \in Workers : v # w => job'[v] = job[v]
  BY <1>1, <1>3 DEF TypeOK
<1>6. Reported(o)'
  <2>1. Marking(o)'
    BY <1>4, <1>5 DEF Marking
  <2> QED BY <1>3, <2>1 DEF Reported, ViolationExists
<1>7. ReportsKept
  BY <1>1, <1>3, QuietReports
<1>8. ASSUME NEW p \in Obs \ {o},
             obs'[p].escAt # NoTime \/ \E v \in Workers : job'[v].copy[p].escAt # NoTime
      PROVE  Reported(p)'
  <2>1. obs'[p].escAt = obs[p].escAt
    BY <1>1, <1>2, <1>3, UpdatedEsc
  <2>2. Reported(p)
    BY <1>4, <1>5, <1>8, <2>1 DEF EscInv
  <2> QED BY <1>1, <1>7, <2>2, ReportedKept DEF ReportsKept
<1> QED BY <1>6, <1>8 DEF EscInv

\* update_violation: w marks the violation of the obligation it holds.
LEMMA EscMarked ==
  ASSUME EscInv, TypeOK', NEW w \in Workers, MarkEscalated(job[w].cur), obs' = obs,
         NEW j, job' = [job EXCEPT ![w] = j],
         \A o \in Obs : j.copy[o].escAt \in {NoTime, obs[o].escAt, job[w].copy[o].escAt}
  PROVE  EscInv'
<1>1. TypeOK
  BY DEF EscInv
<1>2. \A o \in Obs : /\ viol'[o].soft = viol[o].soft /\ viol'[o].hard = viol[o].hard
                     /\ viol[o].soft \in Nat /\ viol[o].hard \in Nat
                     /\ viol[o].escalated \/ o = job[w].cur => viol'[o].escalated
  <2>1. ASSUME NEW o \in Obs, o = job[w].cur
        PROVE  viol'[o] = [viol[o] EXCEPT !.escalated = TRUE]
    BY <1>1, <2>1 DEF MarkEscalated, TypeOK
  <2>2. ASSUME NEW o \in Obs, o # job[w].cur PROVE viol'[o] = viol[o]
    BY <1>1, <2>2 DEF MarkEscalated, TypeOK
  <2>3. \A o \in Obs : viol[o] \in [soft: Nat, hard: Nat, escalated: BOOLEAN]
    BY <1>1 DEF TypeOK, ViolationRecords
  <2>4. \A o \in Obs : LET v == [viol[o] EXCEPT !.escalated = TRUE]
                      IN  v.soft = viol[o].soft /\ v.hard = viol[o].hard /\ v.escalated
    BY <2>3
  <2> QED BY <2>1, <2>2, <2>3, <2>4
<1>3. \A v \in Workers : v # w => job'[v] = job[v]
  BY <1>1 DEF TypeOK
<1>4. ReportsKept
  <2> SUFFICES ASSUME NEW o \in Obs
               PROVE  /\ viol'[o].soft >= viol[o].soft /\ viol'[o].hard >= viol[o].hard
                      /\ viol[o].escalated => viol'[o].escalated
                      /\ Marking(o) => Marking(o)' \/ viol'[o].escalated
    BY DEF ReportsKept
  <2>1. viol'[o].soft >= viol[o].soft /\ viol'[o].hard >= viol[o].hard
    BY <1>2
  <2>2. CASE o = job[w].cur
    BY <1>2, <2>1, <2>2
  <2>3. CASE o # job[w].cur
    <3>1. Marking(o) => Marking(o)'
      BY <1>3, <2>3 DEF Marking
    <3> QED BY <1>2, <2>1, <3>1
  <2> QED BY <2>2, <2>3
<1>5. NoNewEscalation
  BY <1>1, QuietCopies
<1> QED BY <1>4, <1>5, EscKept

LEMMA EscScan ==
  ASSUME EscInv, TypeOK', NEW w \in Workers, Scan(w), job[w].pc = "hardEscalate" => job[w].cur \in Obs
  PROVE  EscInv'
<1>0. TypeOK /\ job[w] \in Jobs
  BY DEF EscInv, TypeOK
<1>1. ASSUME NEW o \in Obs, SendReminder(w, o) PROVE EscInv'
  <2> DEFINE r == [job[w].copy[o] EXCEPT !.reminded = TRUE]
             j == [job[w] EXCEPT !.copy[o] = r]
  <2>1. r \in Records /\ r.escAt = job[w].copy[o].escAt
    BY <1>0, HeldType DEF Records
  <2>2. /\ job' = [job EXCEPT ![w] = j] /\ Update(o, r) /\ viol' = viol
        /\ job[w].pc = "pass1"
    BY <1>1 DEF SendReminder, At
  <2> HIDE DEF r
  <2>3. \A p \in Obs : j.copy[p] = IF p = o THEN r ELSE job[w].copy[p]
    BY <1>0 DEF Jobs
  <2>4. \A p \in Obs : j.copy[p].escAt \in {NoTime, obs[p].escAt, job[w].copy[p].escAt}
    BY <2>1, <2>3
  <2> HIDE DEF j
  <2> QED BY <2>1, <2>2, <2>4, EscQuietWrite
<1>2. ASSUME NEW o \in Obs, NEW r \in Records, r.escAt = job[w].copy[o].escAt, NEW pc,
             Write(w, o, r, pc), viol' = viol, job[w].pc \in {"pass1", "passA"}
      PROVE  EscInv'
  <2> DEFINE j == [job[w] EXCEPT !.pc = pc, !.copy[o] = r, !.cur = o, !.todo = @ \ {o}]
  <2>1. job' = [job EXCEPT ![w] = j] /\ Update(o, r)
    BY <1>2 DEF Write
  <2>2. \A p \in Obs : j.copy[p] = IF p = o THEN r ELSE job[w].copy[p]
    BY <1>0 DEF Jobs
  <2>3. \A p \in Obs : j.copy[p].escAt \in {NoTime, obs[p].escAt, job[w].copy[p].escAt}
    BY <1>2, <2>2
  <2> HIDE DEF j
  <2> QED BY <1>2, <2>1, <2>3, EscQuietWrite
<1>3. ASSUME NEW o \in Obs, SoftOverdue(w, o) PROVE EscInv'
  <2> DEFINE r == [job[w].copy[o] EXCEPT !.status = "SOFT_OVERDUE", !.softAt = job[w].at]
  <2>0. job[w].copy[o] \in Records /\ job[w].at \in Times
    BY <1>0, HeldType
  <2>1. r \in Records /\ r.escAt = job[w].copy[o].escAt
    BY <2>0 DEF Records, ObStatus
  <2> QED BY <1>2, <1>3, <2>1 DEF SoftOverdue, At
<1>4. ASSUME NEW o \in Obs, HardOverdue(w, o) PROVE EscInv'
  <2> DEFINE r == [job[w].copy[o] EXCEPT !.status = "HARD_OVERDUE",
                     !.hardAt = job[w].at, !.sev = Bumped(@)]
  <2>0. job[w].copy[o] \in Records /\ job[w].at \in Times
    BY <1>0, HeldType
  <2>1. r \in Records /\ r.escAt = job[w].copy[o].escAt
    BY <2>0 DEF Records, ObStatus, Bumped, Severities
  <2> QED BY <1>2, <1>4, <2>1 DEF HardOverdue, At
<1>5. ASSUME NEW pc, Goto(w, pc), obs' = obs, viol' = viol,
             job[w].pc \notin {"hardMark", "escMark"}
      PROVE  EscInv'
  <2> DEFINE j == [job[w] EXCEPT !.pc = pc]
  <2>1. job' = [job EXCEPT ![w] = j] /\ j.copy = job[w].copy
    BY <1>0, <1>5 DEF Goto, Jobs
  <2> HIDE DEF j
  <2> QED BY <1>5, <2>1, EscQuiet
<1>6. ASSUME NEW pc, Release(w, pc)
      PROVE  \E j : /\ job' = [job EXCEPT ![w] = j]
                    /\ \A o \in Obs : j.copy[o].escAt \in
                         {NoTime, obs[o].escAt, job[w].copy[o].escAt}
  <2> DEFINE j == Released(w, pc)
  <2>1. \A o \in Obs : j.copy[o] = IF o = job[w].cur THEN Blank ELSE job[w].copy[o]
    BY <1>0 DEF Jobs, Released
  <2>2. \A o \in Obs : j.copy[o].escAt \in {NoTime, obs[o].escAt, job[w].copy[o].escAt}
    BY <2>1 DEF Blank
  <2>3. job' = [job EXCEPT ![w] = j]
    BY <1>0, <1>6, ReleaseJob
  <2> HIDE DEF j
  <2> QED BY <2>2, <2>3
<1>7. ASSUME NEW S \in SUBSET Obs, NEW pc, obs' = obs, viol' = viol,
             job[w].pc \in {"pass1", "passA"},
             job' = [job EXCEPT ![w].pc = pc, ![w].todo = S, ![w].copy = Snapshot(S)]
      PROVE  EscInv'
  <2> DEFINE c == Snapshot(S)
             j == [job[w] EXCEPT !.pc = pc, !.todo = S, !.copy = c]
  <2>1. \A o \in Obs : c[o].escAt \in {NoTime, obs[o].escAt, job[w].copy[o].escAt}
    BY SnapshotEsc
  <2>2. job' = [job EXCEPT ![w] = j]
    BY <1>0, <1>7 DEF TypeOK
  <2> HIDE DEF c
  <2>3. j.copy = c
    BY <1>0 DEF Jobs
  <2> HIDE DEF j
  <2> QED BY <1>7, <2>1, <2>2, <2>3, EscQuiet
<1>8. ASSUME NEW pc, Release(w, pc), obs' = obs, viol' = viol,
             job[w].pc \notin {"hardMark", "escMark"}
      PROVE  EscInv'
  BY <1>6, <1>8, EscQuiet
<1>9. ASSUME NEW o, NEW pc, Goto(w, pc), obs' = obs,
             job[w].pc \notin {"hardMark", "escMark"},
             \/ viol' = [viol EXCEPT ![o].soft = @ + 1]
             \/ viol' = [viol EXCEPT ![o].hard = @ + 1]
      PROVE  EscInv'
  <2> DEFINE j == [job[w] EXCEPT !.pc = pc]
  <2>1. job' = [job EXCEPT ![w] = j] /\ j.copy = job[w].copy
    BY <1>0, <1>9 DEF Goto, Jobs
  <2> HIDE DEF j
  <2>2. ReportsKept
    BY <1>0, <1>9, <2>1, AddedReports
  <2>3. NoNewEscalation
    BY <1>0, <1>9, <2>1, QuietCopies
  <2> QED BY <2>2, <2>3, EscKept
<1>10. CASE SoftCheck(w) \/ HardCheck(w) \/ HardNoEscalation(w)
  BY <1>5, <1>10 DEF SoftCheck, HardCheck, HardNoEscalation, At
<1>11. CASE SoftReport(w) \/ HardReport(w)
  BY <1>9, <1>11 DEF SoftReport, HardReport, At
<1>12. CASE SoftEntity(w) \/ HardEntity(w)
  BY <1>8, <1>12 DEF SoftEntity, HardEntity, At
<1>13. CASE PassOneDone(w)
  BY <1>7, <1>13 DEF PassOneDone, At, PassADue
<1>14. CASE HardEscalate(w)
  BY <1>14, EscEscalate DEF HardEscalate, At
<1>15. CASE HardMark(w)
  <2> DEFINE j == [job[w] EXCEPT !.pc = "hardEntity"]
  <2>1. job' = [job EXCEPT ![w] = j] /\ j.copy = job[w].copy
    BY <1>0, <1>15 DEF HardMark, Goto, Jobs
  <2> HIDE DEF j
  <2> QED BY <1>15, <2>1, EscMarked DEF HardMark
<1>16. CASE PassADone(w)
  BY <1>7, <1>16 DEF PassADone, At, PassBDue
<1>17. ASSUME NEW o \in Obs, LateEscalate(w, o) PROVE EscInv'
  BY <1>17, EscEscalate DEF LateEscalate, At
<1>18. CASE LateMark(w)
  BY <1>6, <1>18, EscMarked DEF LateMark
<1>19. CASE ScanDone(w)
  BY <1>19, EscIdle DEF ScanDone, At
<1> QED BY <1>1, <1>3, <1>4, <1>10, <1>11, <1>12, <1>13, <1>14, <1>15, <1>16, <1>17,
           <1>18, <1>19 DEF Scan

(* However many workers interleave, an obligation on record as escalated has a  *)
(* violation, and that violation says so unless a scan is about to write it.    *)
THEOREM EscalationsAreReported == Spec => []EscalationReported
<1>1. StageInv /\ EscInv /\ [Next]_vars => EscInv'
  <2> SUFFICES ASSUME StageInv, EscInv, [Next]_vars PROVE EscInv'
    OBVIOUS
  <2>1. TypeOK'
    BY TypeStep DEF StageInv
  <2>2. CASE UNCHANGED <<obs, viol, job>>
    BY <2>1, <2>2 DEF EscInv, Reported, Marking, ViolationExists
  <2>3. ASSUME NEW w \in Workers, Continue(w) PROVE EscInv'
    <3>1. /\ job[w].pc \in {"restore", "close", "cancel", "hardEscalate"} =>
               job[w].cur \in Obs
      BY DEF StageInv, JobOK
    <3>2. CASE DirectWrite(w)
      <4>1. job[w].cur \in Obs
        BY <3>1, <3>2
           DEF DirectWrite, RestoreObligation, CloseObligation, CancelObligation, At
      <4> QED BY <2>1, <3>2, <4>1, EscDirectWrite
    <3> QED BY <2>1, <2>3, <3>1, <3>2, EscIngest, EscScan DEF Continue
  <2>4. ASSUME NEW w \in Workers, NEW o \in Obs, StoreCancel(w, o) PROVE EscInv'
    <3>1. obs[o] \in Records /\ TypeOK
      BY DEF EscInv, TypeOK
    <3>2. [obs[o] EXCEPT !.status = "CANCELLED"].escAt = obs[o].escAt
      BY <3>1 DEF Records
    <3>3. \A p \in Obs : obs'[p].escAt = obs[p].escAt
      BY <2>4, <3>1, <3>2 DEF StoreCancel, TypeOK
    <3> QED BY <2>1, <2>4, <3>3 DEF StoreCancel, EscInv, Reported, Marking, ViolationExists
  <2> QED BY <2>1, <2>2, <2>3, <2>4, EscStart
          DEF Next, Tick, EntityChange, RegisterEntity, UpdateEntityStatus, vars
<1>2. Init => EscInv
  BY BlankType, IdleType, PolicyAssumption
     DEF Init, EscInv, TypeOK, ViolationRecords, EntityStatuses, Times, NoTime, Blank, Idle
<1>3. EscInv => EscalationReported
  BY DEF EscInv, EscalationReported, Reported, Marking
<1> QED BY <1>1, <1>2, <1>3, StageInvariant, PTL DEF Spec

-------------------------------------------------------------------------------
(* One worker.  Nothing comes between its reading a row and its writing it      *)
(* back, so its copies are never stale and each step of an operation knows the  *)
(* status of the rows it still has to visit and of the one it has in hand.      *)

OneWorker == \A v, w \in Workers : v = w

InPass1 == {"pass1", "softCheck", "softReport", "softEntity"}

Overdue == {"SOFT_OVERDUE", "HARD_OVERDUE"}

\* The statuses of the rows still to be visited at pc ...
Awaited(pc) ==
  CASE pc = "fulfil" -> {"PENDING"} \cup Overdue
    [] pc \in InPass1 -> {"PENDING"}
    [] pc \in InPassA \cup InPassB -> {"SOFT_OVERDUE"}
    [] OTHER -> {}

\* ... and of the row in hand.
Handled(pc) ==
  CASE pc \in {"softCheck", "softReport", "softEntity"} -> {"SOFT_OVERDUE"}
    [] pc \in {"hardCheck", "hardReport", "hardEscalate"} -> {"HARD_OVERDUE"}
    [] pc \in {"hardMark", "escMark"} -> {"ESCALATED"}
    [] pc = "hardEntity" -> {"HARD_OVERDUE", "ESCALATED"}
    [] pc = "restore" -> Overdue \cup {"ESCALATED"}
    [] pc = "close" -> {"PENDING", "ESCALATED"} \cup Overdue
    [] pc = "cancel" -> {"PENDING", "SOFT_OVERDUE"}
    [] pc = "add" -> {"ABSENT"}
    [] OTHER -> {}

LEMMA AwaitedAt ==
  /\ Awaited("fulfil") = {"PENDING"} \cup Overdue
  /\ \A pc \in InPass1 : Awaited(pc) = {"PENDING"}
  /\ \A pc \in InPassA \cup InPassB : Awaited(pc) = {"SOFT_OVERDUE"}
  /\ \A pc \in {"idle", "trigger", "add", "restore", "close", "cancel"} : Awaited(pc) = {}
BY DEF Awaited, InPass1, InPassA, InPassB

LEMMA HandledAt ==
  /\ \A pc \in {"softCheck", "softReport", "softEntity"} : Handled(pc) = {"SOFT_OVERDUE"}
  /\ \A pc \in {"hardCheck", "hardReport", "hardEscalate"} : Handled(pc) = {"HARD_OVERDUE"}
  /\ \A pc \in {"hardMark", "escMark"} : Handled(pc) = {"ESCALATED"}
  /\ Handled("hardEntity") = {"HARD_OVERDUE", "ESCALATED"}
  /\ Handled("restore") = Overdue \cup {"ESCALATED"}
  /\ Handled("close") = {"PENDING", "ESCALATED"} \cup Overdue
  /\ Handled("cancel") = {"PENDING", "SOFT_OVERDUE"}
  /\ Handled("add") = {"ABSENT"}
  /\ \A pc \in {"idle", "fulfil", "trigger", "pass1", "passA", "passB"} : Handled(pc) = {}
BY DEF Handled

\* What a duplicate check compares: entity, obligation type and actor.
SameDuty(o, p) ==
  EntityOf[o] = EntityOf[p] /\ KindOf[o] = KindOf[p] /\ ActorOf[o] = ActorOf[p]

\* What the operation in progress, j, knows of the rows and the violations.
InStep(j, rows, viols) ==
  /\ \A o \in j.todo : /\ o # j.cur /\ j.copy[o].status = rows[o].status
                       /\ rows[o].status \in Awaited(j.pc)
  /\ IF Handled(j.pc) = {} THEN j.cur = NoOb
     ELSE j.cur \in Obs /\ rows[j.cur].status \in Handled(j.pc)
  /\ Handled(j.pc) # {} /\ j.pc # "add" => j.copy[j.cur].status = rows[j.cur].status
  /\ j.pc = "add" /\ Pol(j.cur).dedup =>
       \A o \in Obs : SameDuty(o, j.cur) => rows[o].status # "PENDING"
  /\ j.pc = "softReport" => viols[j.cur].soft = 0 /\ viols[j.cur].hard = 0
  /\ j.pc = "hardReport" => viols[j.cur].hard = 0
  /\ j.pc \in {"hardMark", "escMark"} => viols[j.cur].soft + viols[j.cur].hard > 0

SoloInv ==
  /\ TypeOK
  /\ \A w \in Workers : InStep(job[w], obs, viol)
  /\ OneViolationPerStage
  /\ NoDuplicatePending

\* What a step does to the obligations, as the lifecycle sees it.
LifecycleStep ==
  /\ [Lifecycle!LifecycleNext]_(Lifecycle!lifecycle)
  /\ \A o \in Obs : Terminal(obs[o].status) =>
       obs'[o] = obs[o] \/ \E w \in Workers : StoreCancel(w, o)

\* Every status the engine gives a row it found at from.
MayBecome(o, from, to) ==
  \/ from = to /\ ~Terminal(to)
  \/ from = "PENDING" /\ to = "SOFT_OVERDUE"
  \/ from = "SOFT_OVERDUE" /\ to = "HARD_OVERDUE"
  \/ from \in Overdue /\ to = "ESCALATED" /\ ViolationExists(o)
  \/ from \in {"PENDING", "ESCALATED"} \cup Overdue /\ to = "FULFILLED"
  \/ from \in Overdue \cup {"ESCALATED"} /\ to = "RESTORED"
  \/ from \in {"PENDING", "SOFT_OVERDUE"} /\ to = "CANCELLED"

LEMMA UpdatedStatus ==
  ASSUME TypeOK, NEW o \in Obs, NEW r \in Records, Update(o, r)
  PROVE  /\ \A p \in Obs : obs'[p].status = IF p = o THEN r.status ELSE obs[p].status
         /\ \A p \in Obs \ {o} : obs'[p] = obs[p]
<1>1. [r EXCEPT !.sev = obs[o].sev].status = r.status
  BY DEF Records
<1>2. obs'[o] = r \/ obs'[o] = [r EXCEPT !.sev = obs[o].sev]
  BY DEF Update, TypeOK
<1>3. \A p \in Obs \ {o} : obs'[p] = obs[p]
  BY DEF Update, TypeOK
<1> QED BY <1>1, <1>2, <1>3

\* A row changes its status as the lifecycle allows.
LEMMA MoveStep ==
  ASSUME TypeOK, viol' = viol, NEW o \in Obs, NEW to,
         \A p \in Obs : obs'[p].status = IF p = o THEN to ELSE obs[p].status,
         \/ MayBecome(o, obs[o].status, to)
         \/ obs[o].status = "ABSENT" /\ to = "PENDING"
         \/ obs[o].status # "ABSENT" /\ to = "CANCELLED"
  PROVE  [Lifecycle!LifecycleNext]_(Lifecycle!lifecycle)
<1> DEFINE status == [p \in Obs |-> obs[p].status]
<1>1. status[o] = obs[o].status
  OBVIOUS
<1>2. [p \in Obs |-> obs'[p].status] = [status EXCEPT ![o] = to]
  OBVIOUS
<1>3. ASSUME to = obs[o].status PROVE UNCHANGED Lifecycle!lifecycle
  BY <1>3 DEF Lifecycle!lifecycle
<1>4. ASSUME NEW from, obs[o].status \in from PROVE Lifecycle!Move(o, from, to)
  BY <1>1, <1>2, <1>4 DEF Lifecycle!Move
<1>5. CASE obs[o].status = "ABSENT" /\ to = "PENDING"
  BY <1>4, <1>5 DEF Lifecycle!Create, Lifecycle!LifecycleNext
<1>6. CASE MayBecome(o, obs[o].status, to)
  <2> USE DEF Lifecycle!LifecycleNext, Overdue
  <2>1. CASE obs[o].status = "PENDING" /\ to = "SOFT_OVERDUE"
    BY <1>4, <2>1 DEF Lifecycle!BecomeSoft, Lifecycle!Age
  <2>2. CASE obs[o].status = "SOFT_OVERDUE" /\ to = "HARD_OVERDUE"
    BY <1>4, <2>2 DEF Lifecycle!BecomeHard, Lifecycle!Age
  <2>3. CASE obs[o].status \in Overdue /\ to = "ESCALATED" /\ ViolationExists(o)
    BY <1>4, <2>3 DEF Lifecycle!BecomeEscalated, Lifecycle!Age, Lifecycle!Reported,
                      ViolationExists
  <2>4. CASE obs[o].status \in {"PENDING", "ESCALATED"} \cup Overdue /\ to = "FULFILLED"
    BY <1>4, <2>4 DEF Lifecycle!Close, Lifecycle!Settle
  <2>5. CASE obs[o].status \in Overdue \cup {"ESCALATED"} /\ to = "RESTORED"
    BY <1>4, <2>5 DEF Lifecycle!Restore, Lifecycle!Settle
  <2>6. CASE obs[o].status \in {"PENDING", "SOFT_OVERDUE"} /\ to = "CANCELLED"
    BY <1>4, <2>6 DEF Lifecycle!Cancel, Lifecycle!Settle
  <2> QED BY <1>3, <1>6, <2>1, <2>2, <2>3, <2>4, <2>5, <2>6 DEF MayBecome
<1>7. CASE obs[o].status # "ABSENT" /\ to = "CANCELLED"
  <2>1. obs[o].status \in Lifecycle!Statuses \ {"ABSENT"}
    BY <1>7 DEF TypeOK, Records, ObStatus, Lifecycle!Statuses
  <2> QED BY <1>4, <1>7, <2>1 DEF Lifecycle!Void, Lifecycle!Settle, Lifecycle!LifecycleNext
<1> QED BY <1>5, <1>6, <1>7

LEMMA SoloJobs ==
  ASSUME OneWorker, TypeOK, NEW w \in Workers, NEW j, job' = [job EXCEPT ![w] = j],
         InStep(j, obs', viol')
  PROVE  \A v \in Workers : InStep(job'[v], obs', viol')
BY DEF TypeOK, OneWorker

\* A step that leaves the rows and the violations alone.
LEMMA SoloQuiet ==
  ASSUME OneWorker, SoloInv, TypeOK', obs' = obs, viol' = viol,
         NEW w \in Workers, NEW j, job' = [job EXCEPT ![w] = j], InStep(j, obs, viol)
  PROVE  SoloInv' /\ LifecycleStep
<1>1. \A v \in Workers : InStep(job'[v], obs', viol')
  BY SoloJobs DEF SoloInv
<1>2. OneViolationPerStage' /\ NoDuplicatePending'
  BY DEF SoloInv, OneViolationPerStage, NoDuplicatePending
<1>3. LifecycleStep
  BY DEF LifecycleStep, Lifecycle!lifecycle
<1> QED BY <1>1, <1>2, <1>3 DEF SoloInv

\* A step that writes the row o.
LEMMA SoloWrite ==
  ASSUME OneWorker, SoloInv, TypeOK', viol' = viol, NEW o \in Obs, NEW r \in Records,
         Update(o, r), MayBecome(o, obs[o].status, r.status),
         NEW w \in Workers, NEW j, job' = [job EXCEPT ![w] = j], InStep(j, obs', viol')
  PROVE  SoloInv' /\ LifecycleStep
<1>0. TypeOK
  BY DEF SoloInv
<1>1. \A v \in Workers : InStep(job'[v], obs', viol')
  BY <1>0, SoloJobs
<1>2. /\ \A p \in Obs : obs'[p].status = IF p = o THEN r.status ELSE obs[p].status
      /\ \A p \in Obs \ {o} : obs'[p] = obs[p]
  BY <1>0, UpdatedStatus
<1>3. ~Terminal(obs[o].status) /\ (r.status = "PENDING" => obs[o].status = "PENDING")
  BY DEF MayBecome, Terminal, Overdue
<1>4. [Lifecycle!LifecycleNext]_(Lifecycle!lifecycle)
  <2> DEFINE to == r.status
  <2>1. \A p \in Obs : obs'[p].status = IF p = o THEN to ELSE obs[p].status
    BY <1>2
  <2>2. MayBecome(o, obs[o].status, to)
    OBVIOUS
  <2> HIDE DEF to
  <2> QED BY <1>0, <2>1, <2>2, MoveStep
<1>5. LifecycleStep
  BY <1>2, <1>3, <1>4 DEF LifecycleStep
<1>6. NoDuplicatePending'
  <2>1. \A p \in Obs : obs'[p].status = "PENDING" => obs[p].status = "PENDING"
    BY <1>2, <1>3
  <2> QED BY <2>1 DEF SoloInv, NoDuplicatePending
<1>7. OneViolationPerStage'
  BY DEF SoloInv, OneViolationPerStage
<1> QED BY <1>1, <1>5, <1>6, <1>7 DEF SoloInv

\* Between two operations, or rules, there is nothing to know.
LEMMA AtRest ==
  ASSUME NEW j, j.pc \in {"idle", "trigger"}, j.todo = {}, j.cur = NoOb, NEW rows, NEW viols
  PROVE  InStep(j, rows, viols)
BY DEF InStep, Awaited, Handled, InPass1, InPassA, InPassB

\* The rows of a SELECT, just read.
LEMMA JustListed ==
  ASSUME NEW j, NEW S \in SUBSET Obs, j.todo = S, j.copy = Snapshot(S), j.cur = NoOb,
         j.pc \in {"fulfil", "pass1", "passA", "passB"},
         \A o \in S : obs[o].status \in Awaited(j.pc), NEW viols
  PROVE  InStep(j, obs, viols)
<1>1. \A o \in S : o # NoOb /\ j.copy[o] = obs[o]
  BY PolicyAssumption DEF Snapshot
<1>2. Handled(j.pc) = {}
  BY DEF Handled
<1> QED BY <1>1, <1>2 DEF InStep

\* A row of the list is written and taken in hand.
LEMMA Taken ==
  ASSUME SoloInv, NEW w \in Workers, NEW o \in Obs, NEW r, NEW pc \in Steps,
         Awaited(pc) = Awaited(job[w].pc), r.status \in Handled(pc),
         pc \notin {"add", "softReport", "hardReport"},
         pc \in {"hardMark", "escMark"} => ViolationExists(o),
         NEW j, j.pc = pc, j.cur = o, j.todo = job[w].todo \ {o},
         \A p \in Obs : j.copy[p] = IF p = o THEN r ELSE job[w].copy[p],
         NEW rows, \A p \in Obs : rows[p].status = IF p = o THEN r.status ELSE obs[p].status
  PROVE  InStep(j, rows, viol)
<1>1. job[w].todo \subseteq Obs
  BY DEF SoloInv, TypeOK, Jobs
<1>2. \A p \in j.todo : /\ p # j.cur /\ j.copy[p].status = rows[p].status
                        /\ rows[p].status \in Awaited(j.pc)
  BY <1>1 DEF SoloInv, InStep
<1>3. Handled(j.pc) # {} /\ rows[j.cur].status \in Handled(j.pc)
      /\ j.copy[j.cur].status = rows[j.cur].status
  OBVIOUS
<1> QED BY <1>2, <1>3 DEF InStep, ViolationExists

\* The scan goes on with the row it has in hand.
LEMMA MovedOn ==
  ASSUME SoloInv, NEW w \in Workers, NEW pc,
         Awaited(pc) = Awaited(job[w].pc), Handled(job[w].pc) # {},
         Handled(job[w].pc) \subseteq Handled(pc), job[w].pc # "add",
         pc \notin {"add", "hardMark", "escMark"}, NEW viols,
         pc = "softReport" => viols[job[w].cur].soft = 0 /\ viols[job[w].cur].hard = 0,
         pc = "hardReport" => viols[job[w].cur].hard = 0
  PROVE  InStep([job[w] EXCEPT !.pc = pc], obs, viols)
<1> DEFINE j == [job[w] EXCEPT !.pc = pc]
<1>1. job[w] \in Jobs /\ InStep(job[w], obs, viol)
  BY DEF SoloInv, TypeOK
<1>2. /\ j.pc = pc /\ j.todo = job[w].todo /\ j.cur = job[w].cur /\ j.copy = job[w].copy
  BY <1>1 DEF Jobs
<1> HIDE DEF j
<1>3. InStep(j, obs, viols)
  BY <1>1, <1>2 DEF InStep
<1> QED BY <1>3 DEF j

\* The scan is done with the row it has in hand.
LEMMA LetGo ==
  ASSUME SoloInv, NEW w \in Workers, NEW pc \in {"pass1", "passA", "passB"},
         Awaited(pc) = Awaited(job[w].pc), NEW viols
  PROVE  InStep(Released(w, pc), obs, viols)
<1> DEFINE j == Released(w, pc)
<1>1. job[w] \in Jobs /\ InStep(job[w], obs, viol)
  BY DEF SoloInv, TypeOK
<1>2. \A o \in Obs : j.copy[o] = IF o = job[w].cur THEN Blank ELSE job[w].copy[o]
  BY <1>1 DEF Jobs, Released
<1>3. j.pc = pc /\ j.cur = NoOb /\ j.todo = job[w].todo /\ j.todo \subseteq Obs
  BY <1>1 DEF Jobs, Released
<1> HIDE DEF j
<1>4. Handled(pc) = {}
  BY DEF Handled
<1>5. \A o \in j.todo : o # NoOb /\ o # job[w].cur
  BY <1>1, <1>3, PolicyAssumption DEF InStep
<1>6. InStep(j, obs, viols)
  BY <1>1, <1>2, <1>3, <1>4, <1>5 DEF InStep
<1> QED BY <1>6 DEF j

\* The id a duplicate check leaves for the obligation.
LEMMA NotDuplicated ==
  ASSUME NEW e, NEW k, NEW o \in Obs,
         \E b : ~Duplicates(e, k, b) /\ o \in Free(e, k, b)
  PROVE  /\ obs[o].status = "ABSENT"
         /\ Pol(o).dedup => \A p \in Obs : SameDuty(p, o) => obs[p].status # "PENDING"
BY DEF Duplicates, HasPending, Free, IdsOf, SameDuty, Pol

LEMMA SoloStart ==
  ASSUME OneWorker, SoloInv, TypeOK', NEW w \in Workers, Start(w)
  PROVE  SoloInv' /\ LifecycleStep
<1>0. TypeOK
  BY DEF SoloInv
<1>1. ASSUME NEW e \in Entities, NEW a \in Actors,
             NEW t \in EventTypes, IngestEvent(w, e, a, t)
      PROVE  SoloInv' /\ LifecycleStep
  <2> DEFINE S == {o \in Obs : /\ EntityOf[o] = e /\ IsOpen(obs[o].status)
                               /\ t \in Pol(o).required}
             c == Snapshot(S)
             j == [Idle EXCEPT !.pc = "fulfil", !.at = now, !.todo = S, !.copy = c,
                               !.type = t, !.entity = e, !.actor = a]
  <2>1. job' = [job EXCEPT ![w] = j] /\ obs' = obs /\ viol' = viol
    BY <1>1 DEF IngestEvent
  <2>2. S \in SUBSET Obs /\ \A o \in S : obs[o].status \in Awaited("fulfil")
    BY AwaitedAt DEF IsOpen, Overdue
  <2> HIDE DEF S
  <2>3. c = Snapshot(S)
    OBVIOUS
  <2> HIDE DEF c
  <2>4. j.pc = "fulfil" /\ j.cur = NoOb /\ j.todo = S /\ j.copy = c
    BY DEF Idle
  <2> HIDE DEF j
  <2>5. InStep(j, obs, viol)
    BY <2>2, <2>3, <2>4, JustListed
  <2> QED BY <2>1, <2>5, SoloQuiet
<1>2. CASE ScanStart(w)
  <2> DEFINE S == {o \in Obs : obs[o].status = "PENDING"}
             c == Snapshot(S)
             j == [Idle EXCEPT !.pc = "pass1", !.at = now, !.todo = S, !.copy = c]
  <2>1. job' = [job EXCEPT ![w] = j] /\ obs' = obs /\ viol' = viol
    BY <1>2 DEF ScanStart, Begin
  <2>2. S \in SUBSET Obs /\ \A o \in S : obs[o].status \in Awaited("pass1")
    BY AwaitedAt DEF InPass1
  <2> HIDE DEF S
  <2>3. c = Snapshot(S)
    OBVIOUS
  <2> HIDE DEF c
  <2>4. j.pc = "pass1" /\ j.cur = NoOb /\ j.todo = S /\ j.copy = c
    BY DEF Idle
  <2> HIDE DEF j
  <2>5. InStep(j, obs, viol)
    BY <2>2, <2>3, <2>4, JustListed
  <2> QED BY <2>1, <2>5, SoloQuiet
<1>3. ASSUME NEW o \in Obs, NEW pc \in {"restore", "close", "cancel"}, Hold(w, o, pc),
             obs[o].status \in Handled(pc)
      PROVE  SoloInv' /\ LifecycleStep
  <2> DEFINE c == Snapshot({o})
             j == [Idle EXCEPT !.pc = pc, !.at = now, !.cur = o, !.copy = c]
  <2>1. job' = [job EXCEPT ![w] = j] /\ obs' = obs /\ viol' = viol
    BY <1>3 DEF Hold
  <2>2. c[o] = obs[o]
    BY DEF Snapshot
  <2> HIDE DEF c
  <2>3. j.pc = pc /\ j.cur = o /\ j.todo = {} /\ j.copy = c
    BY DEF Idle
  <2> HIDE DEF j
  <2>4. InStep(j, obs, viol)
    BY <1>3, <2>2, <2>3 DEF InStep
  <2> QED BY <2>1, <2>4, SoloQuiet
<1>4. ASSUME NEW o \in Obs, RestoreRequest(w, o) \/ CloseRequest(w, o) \/ CancelRequest(w, o)
      PROVE  SoloInv' /\ LifecycleStep
  BY <1>3, <1>4 DEF RestoreRequest, CloseRequest, CancelRequest, CanRestore, IsOpen,
                    Handled, Overdue
<1>5. ASSUME NEW e \in Entities, NEW a \in Actors, NEW k \in Kinds, ToolTrigger(w, e, a, k)
      PROVE  SoloInv' /\ LifecycleStep
  <2>1. PICK o \in Obs : /\ \E b \in Selects(k, a) : ~Duplicates(e, k, b) /\ o \in Free(e, k, b)
                         /\ job' = [job EXCEPT ![w] = Adding(o)]
    BY <1>5, Zenon DEF ToolTrigger, Adding
  <2>2. obs' = obs /\ viol' = viol
    BY <1>5 DEF ToolTrigger
  <2> DEFINE j == Adding(o)
  <2>3. j.pc = "add" /\ j.cur = o /\ j.todo = {}
    BY DEF Idle, Adding
  <2> HIDE DEF j
  <2>4. obs[o].status = "ABSENT" /\ (Pol(o).dedup =>
            \A p \in Obs : SameDuty(p, o) => obs[p].status # "PENDING")
    BY <2>1, NotDuplicated
  <2>5. InStep(j, obs, viol)
    BY <2>3, <2>4 DEF InStep, Handled
  <2>6. job' = [job EXCEPT ![w] = j]
    BY <2>1 DEF j
  <2> QED BY <2>2, <2>5, <2>6, SoloQuiet
<1> QED BY <1>1, <1>2, <1>4, <1>5 DEF Start

\* The obligation that AddObligation creates: a row that was absent, and the only
\* pending one of its rule, entity and actor if the rule deduplicates.
LEMMA SoloCreate ==
  ASSUME OneWorker, SoloInv, TypeOK', NEW w \in Workers, AddObligation(w)
  PROVE  SoloInv' /\ LifecycleStep
<1> DEFINE o == job[w].cur
           j == [job[w] EXCEPT !.pc = "trigger", !.cur = NoOb]
<1>1. TypeOK /\ job[w] \in Jobs /\ InStep(job[w], obs, viol) /\ job[w].pc = "add"
  BY DEF SoloInv, TypeOK, AddObligation, At
<1>2. /\ o \in Obs /\ obs[o].status = "ABSENT" /\ job[w].todo = {}
      /\ Pol(o).dedup => \A p \in Obs : SameDuty(p, o) => obs[p].status # "PENDING"
  BY <1>1 DEF InStep, Awaited, Handled, InPass1, InPassA, InPassB
<1>3. job' = [job EXCEPT ![w] = j] /\ viol' = viol
  BY DEF AddObligation
<1>4. j.pc = "trigger" /\ j.cur = NoOb /\ j.todo = {}
  BY <1>1, <1>2 DEF Jobs
<1> HIDE DEF j
<1>5. \A v \in Workers : InStep(job'[v], obs', viol')
  <2>1. InStep(j, obs', viol')
    BY <1>4, AtRest
  <2> QED BY <1>1, <1>3, <2>1, SoloJobs
<1>6. /\ \A p \in Obs : obs'[p].status = IF p = o THEN "PENDING" ELSE obs[p].status
      /\ \A p \in Obs \ {o} : obs'[p] = obs[p]
  BY <1>1 DEF AddObligation, Fresh, Blank, TypeOK
<1>7. LifecycleStep
  <2>1. [Lifecycle!LifecycleNext]_(Lifecycle!lifecycle)
    BY <1>1, <1>2, <1>3, <1>6, MoveStep
  <2> QED BY <1>2, <1>6, <2>1 DEF LifecycleStep, Terminal
<1>8. NoDuplicatePending'
  <2> SUFFICES ASSUME NEW p \in Obs, NEW q \in Obs,
                      obs'[p].status = "PENDING", obs'[q].status = "PENDING",
                      SameDuty(p, q), Pol(p).dedup
               PROVE  p = q
    BY DEF NoDuplicatePending, SameDuty
  <2>1. Pol(q).dedup /\ SameDuty(q, p)
    BY DEF Pol, SameDuty
  <2> QED BY <1>2, <1>6, <2>1 DEF SoloInv, NoDuplicatePending, SameDuty
<1>9. OneViolationPerStage'
  BY <1>3 DEF SoloInv, OneViolationPerStage
<1> QED BY <1>5, <1>7, <1>8, <1>9 DEF SoloInv

LEMMA SoloIngest ==
  ASSUME OneWorker, SoloInv, TypeOK', NEW w \in Workers, Ingest(w)
  PROVE  SoloInv' /\ LifecycleStep
<1>0. TypeOK /\ job[w] \in Jobs /\ InStep(job[w], obs, viol)
  BY DEF SoloInv, TypeOK
<1>1. ASSUME NEW o \in Obs, TryFulfil(w, o) PROVE SoloInv' /\ LifecycleStep
  <2> DEFINE r == [job[w].copy[o] EXCEPT !.status = "FULFILLED", !.by = job[w].type]
             j == [job[w] EXCEPT !.todo = @ \ {o}, !.copy[o] = Blank]
  <2>1. job[w].copy[o] \in Records /\ job[w].type \in Evidence
    BY <1>0, HeldType DEF Jobs, Evidence
  <2>2. r \in Records /\ r.status = "FULFILLED"
    BY <2>1 DEF Records, ObStatus
  <2>3. /\ job' = [job EXCEPT ![w] = j] /\ Update(o, r) /\ viol' = viol
        /\ job[w].pc = "fulfil" /\ o \in job[w].todo
    BY <1>1 DEF TryFulfil, At
  <2>4. /\ \A p \in Obs : j.copy[p] = IF p = o THEN Blank ELSE job[w].copy[p]
        /\ j.pc = "fulfil" /\ j.cur = job[w].cur /\ j.todo = job[w].todo \ {o}
        /\ j.todo \subseteq Obs
    BY <1>0, <2>3 DEF Jobs
  <2> HIDE DEF r, j
  <2>5. obs[o].status \in {"PENDING"} \cup Overdue /\ job[w].cur = NoOb
    BY <1>0, <2>3, AwaitedAt, HandledAt DEF InStep
  <2>6. \A p \in Obs : obs'[p].status = IF p = o THEN r.status ELSE obs[p].status
    BY <1>0, <2>2, <2>3, UpdatedStatus
  <2>7. InStep(j, obs', viol')
    <3>1. \A p \in j.todo : /\ p # j.cur /\ j.copy[p].status = obs'[p].status
                            /\ obs'[p].status \in Awaited(j.pc)
      BY <1>0, <2>3, <2>4, <2>6 DEF InStep
    <3> QED BY <2>4, <2>5, <3>1 DEF InStep, Handled
  <2>8. MayBecome(o, obs[o].status, r.status)
    BY <2>2, <2>5 DEF MayBecome
  <2> QED BY <2>2, <2>3, <2>7, <2>8, SoloWrite
<1>2. ASSUME NEW j, job' = [job EXCEPT ![w] = j], obs' = obs, viol' = viol,
             job[w].pc \in {"fulfil", "trigger"}, j.pc \in {"idle", "trigger"},
             j.todo = {}, j.cur = NoOb
      PROVE  SoloInv' /\ LifecycleStep
  <2>1. InStep(j, obs, viol)
    BY <1>2, AtRest
  <2> QED BY <1>2, <2>1, SoloQuiet
<1>3. job[w].pc \in {"fulfil", "trigger"} => job[w].cur = NoOb
  BY <1>0 DEF InStep, Handled
<1>4. job[w].pc = "trigger" => job[w].todo = {}
  BY <1>0 DEF InStep, Awaited, InPass1, InPassA, InPassB
<1>5. CASE FulfilDone(w)
  <2> DEFINE K == {k \in Kinds : /\ Policy[k].trigger = job[w].type
                                 /\ Policy[k].byRule => ent[job[w].entity].status # "UNKNOWN"}
             j == [job[w] EXCEPT !.pc = "trigger", !.kinds = K]
  <2>1. /\ job' = [job EXCEPT ![w] = j] /\ obs' = obs /\ viol' = viol
        /\ job[w].pc = "fulfil" /\ job[w].todo = {}
    BY <1>5 DEF FulfilDone, At
  <2> HIDE DEF K
  <2>2. j.pc = "trigger" /\ j.todo = job[w].todo /\ j.cur = job[w].cur
    BY <1>0 DEF Jobs
  <2> HIDE DEF j
  <2> QED BY <1>2, <1>3, <2>1, <2>2
<1>6. ASSUME NEW k \in Kinds, DeduplicateSkip(w, k) PROVE SoloInv' /\ LifecycleStep
  <2> DEFINE j == [job[w] EXCEPT !.kinds = @ \ {k}]
  <2>1. /\ job' = [job EXCEPT ![w] = j] /\ obs' = obs /\ viol' = viol
        /\ job[w].pc = "trigger"
    BY <1>6 DEF DeduplicateSkip, At
  <2>2. j.pc = job[w].pc /\ j.todo = job[w].todo /\ j.cur = job[w].cur
    BY <1>0 DEF Jobs
  <2> HIDE DEF j
  <2> QED BY <1>2, <1>3, <1>4, <2>1, <2>2
<1>7. ASSUME NEW k \in Kinds, TriggerMatch(w, k) PROVE SoloInv' /\ LifecycleStep
  <2>1. PICK o \in Obs :
          /\ \E b \in Selects(k, job[w].actor) :
               ~Duplicates(job[w].entity, k, b) /\ o \in Free(job[w].entity, k, b)
          /\ job' = [job EXCEPT ![w].pc = "add", ![w].cur = o, ![w].kinds = @ \ {k}]
    BY <1>7, Zenon DEF TriggerMatch
  <2> DEFINE j == [job[w] EXCEPT !.pc = "add", !.cur = o, !.kinds = @ \ {k}]
  <2>3. /\ job' = [job EXCEPT ![w] = j] /\ obs' = obs /\ viol' = viol
        /\ job[w].pc = "trigger"
    BY <1>7, <2>1 DEF TriggerMatch, At
  <2>4. j.pc = "add" /\ j.todo = job[w].todo /\ j.cur = o
    BY <1>0 DEF Jobs
  <2> HIDE DEF j
  <2>5. obs[o].status = "ABSENT" /\ (Pol(o).dedup =>
            \A p \in Obs : SameDuty(p, o) => obs[p].status # "PENDING")
    BY <2>1, NotDuplicated
  <2>6. InStep(j, obs, viol)
    BY <1>4, <2>3, <2>4, <2>5 DEF InStep, Handled
  <2> QED BY <2>3, <2>6, SoloQuiet
<1>8. CASE TriggerDone(w)
  <2>1. Idle.pc = "idle" /\ Idle.todo = {} /\ Idle.cur = NoOb
    BY DEF Idle
  <2> QED BY <1>2, <1>8, <2>1 DEF TriggerDone, Finish, At
<1>9. ASSUME NEW k \in Kinds, NoActor(w, k) PROVE SoloInv' /\ LifecycleStep
  <2> DEFINE j == [job[w] EXCEPT !.kinds = @ \ {k}]
  <2>1. /\ job' = [job EXCEPT ![w] = j] /\ obs' = obs /\ viol' = viol
        /\ job[w].pc = "trigger"
    BY <1>9 DEF NoActor, At
  <2>2. j.pc = job[w].pc /\ j.todo = job[w].todo /\ j.cur = job[w].cur
    BY <1>0 DEF Jobs
  <2> HIDE DEF j
  <2> QED BY <1>2, <1>3, <1>4, <2>1, <2>2
<1> QED BY <1>1, <1>5, <1>6, <1>7, <1>8, <1>9, SoloCreate DEF Ingest

LEMMA SoloDirectWrite ==
  ASSUME OneWorker, SoloInv, TypeOK', NEW w \in Workers, DirectWrite(w)
  PROVE  SoloInv' /\ LifecycleStep
<1> DEFINE o == job[w].cur
           r == job[w].copy[o]
<1>0. TypeOK /\ InStep(job[w], obs, viol) /\ job[w].pc \in {"restore", "close", "cancel"}
  BY DEF SoloInv, DirectWrite, RestoreObligation, CloseObligation, CancelObligation, At
<1>1. o \in Obs /\ obs[o].status \in Handled(job[w].pc)
  BY <1>0 DEF InStep, Handled, Overdue
<1>2. r \in Records /\ job[w].at \in Times
  BY <1>0, <1>1, HeldType
<1>3. ASSUME NEW q \in Records, Commit(w, q), MayBecome(o, obs[o].status, q.status)
      PROVE  SoloInv' /\ LifecycleStep
  <2>1. InStep(Idle, obs', viol')
    BY AtRest DEF Idle
  <2> DEFINE j == Idle
  <2>2. job' = [job EXCEPT ![w] = j] /\ Update(o, q) /\ viol' = viol
    BY <1>3 DEF Commit, Finish
  <2> HIDE DEF j, o
  <2>3. InStep(j, obs', viol')
    BY <2>1 DEF j
  <2> QED BY <1>1, <1>3, <2>2, <2>3, SoloWrite
<1>4. CASE RestoreObligation(w)
  <2> DEFINE q == [r EXCEPT !.status = "RESTORED", !.restoredAt = job[w].at]
  <2>1. q \in Records /\ q.status = "RESTORED"
    BY <1>2 DEF Records, ObStatus
  <2>2. Commit(w, q) /\ job[w].pc = "restore"
    BY <1>4 DEF RestoreObligation, Held, At
  <2> HIDE DEF q
  <2>3. MayBecome(o, obs[o].status, q.status)
    BY <1>1, <2>1, <2>2 DEF MayBecome, Handled
  <2> QED BY <1>3, <2>1, <2>2, <2>3
<1>5. CASE CloseObligation(w)
  <2> DEFINE q == [r EXCEPT !.status = "FULFILLED", !.by = "closed"]
  <2>1. q \in Records /\ q.status = "FULFILLED"
    BY <1>2 DEF Records, ObStatus, Evidence
  <2>2. Commit(w, q) /\ job[w].pc = "close"
    BY <1>5 DEF CloseObligation, Held, At
  <2> HIDE DEF q
  <2>3. MayBecome(o, obs[o].status, q.status)
    BY <1>1, <2>1, <2>2 DEF MayBecome, Handled
  <2> QED BY <1>3, <2>1, <2>2, <2>3
<1>6. CASE CancelObligation(w)
  <2> DEFINE q == [r EXCEPT !.status = "CANCELLED"]
  <2>1. q \in Records /\ q.status = "CANCELLED"
    BY <1>2 DEF Records, ObStatus
  <2>2. Commit(w, q) /\ job[w].pc = "cancel"
    BY <1>6 DEF CancelObligation, Held, At
  <2> HIDE DEF q
  <2>3. MayBecome(o, obs[o].status, q.status)
    BY <1>1, <2>1, <2>2 DEF MayBecome, Handled
  <2> QED BY <1>3, <2>1, <2>2, <2>3
<1> QED BY <1>4, <1>5, <1>6 DEF DirectWrite

\* A step that changes the violations of o as the lifecycle does.
LEMMA SoloViolation ==
  ASSUME OneWorker, SoloInv, TypeOK', obs' = obs, NEW o \in Obs,
         Lifecycle!Raise(o) \/ Lifecycle!MarkEscalated(o),
         NEW w \in Workers, NEW j, job' = [job EXCEPT ![w] = j], InStep(j, obs, viol')
  PROVE  SoloInv' /\ LifecycleStep
<1>0. TypeOK
  BY DEF SoloInv
<1>1. \A v \in Workers : InStep(job'[v], obs', viol')
  BY <1>0, SoloJobs
<1>2. LifecycleStep
  BY DEF LifecycleStep, Lifecycle!LifecycleNext
<1>3. /\ \A p \in Obs \ {o} : viol'[p] = viol[p]
      /\ viol'[o].soft \in {1, viol[o].soft} /\ viol'[o].hard \in {1, viol[o].hard}
  <2>1. viol[o] \in [soft: Nat, hard: Nat, escalated: BOOLEAN] /\ viol \in [Obs -> ViolationRecords]
    BY <1>0 DEF TypeOK, ViolationRecords
  <2>2. \/ viol' = [viol EXCEPT ![o].soft = 1]
        \/ viol' = [viol EXCEPT ![o].hard = 1]
        \/ viol' = [viol EXCEPT ![o].escalated = TRUE]
    BY DEF Lifecycle!Raise, Lifecycle!RaiseSoft, Lifecycle!RaiseHard, Lifecycle!MarkEscalated
  <2>3. CASE viol' = [viol EXCEPT ![o].soft = 1]
    BY <2>1, <2>3
  <2>4. CASE viol' = [viol EXCEPT ![o].hard = 1]
    BY <2>1, <2>4
  <2>5. CASE viol' = [viol EXCEPT ![o].escalated = TRUE]
    BY <2>1, <2>5
  <2> QED BY <2>2, <2>3, <2>4, <2>5
<1>4. OneViolationPerStage'
  BY <1>3 DEF SoloInv, OneViolationPerStage
<1>5. NoDuplicatePending'
  BY DEF SoloInv, NoDuplicatePending
<1> QED BY <1>1, <1>2, <1>4, <1>5 DEF SoloInv

\* A step of the scan that writes the row o and takes it in hand.
LEMMA SoloTake ==
  ASSUME OneWorker, SoloInv, TypeOK', viol' = viol, NEW w \in Workers, NEW o \in Obs,
         NEW r \in Records, NEW pc \in Steps, Write(w, o, r, pc),
         MayBecome(o, obs[o].status, r.status),
         Awaited(pc) = Awaited(job[w].pc), r.status \in Handled(pc),
         pc \notin {"add", "softReport", "hardReport"},
         pc \in {"hardMark", "escMark"} => ViolationExists(o)
  PROVE  SoloInv' /\ LifecycleStep
<1> DEFINE j == [job[w] EXCEPT !.pc = pc, !.copy[o] = r, !.cur = o, !.todo = @ \ {o}]
<1>1. TypeOK /\ job[w] \in Jobs
  BY DEF SoloInv, TypeOK
<1>2. job' = [job EXCEPT ![w] = j] /\ Update(o, r)
  BY DEF Write
<1>3. /\ j.pc = pc /\ j.cur = o /\ j.todo = job[w].todo \ {o}
      /\ \A p \in Obs : j.copy[p] = IF p = o THEN r ELSE job[w].copy[p]
  BY <1>1 DEF Jobs
<1> HIDE DEF j
<1>4. \A p \in Obs : obs'[p].status = IF p = o THEN r.status ELSE obs[p].status
  BY <1>1, <1>2, UpdatedStatus
<1>5. InStep(j, obs', viol')
  <2> DEFINE rows == obs'
  <2>1. \A p \in Obs : rows[p].status = IF p = o THEN r.status ELSE obs[p].status
    BY <1>4
  <2> HIDE DEF rows
  <2>2. InStep(j, rows, viol)
    BY <1>3, <2>1, Taken
  <2> QED BY <2>2 DEF rows
<1> QED BY <1>2, <1>5, SoloWrite

\* A step of the scan that goes on with the row in hand.
LEMMA SoloGoto ==
  ASSUME OneWorker, SoloInv, TypeOK', obs' = obs, NEW w \in Workers, NEW pc, Goto(w, pc),
         \/ viol' = viol
         \/ \E o \in Obs : Lifecycle!Raise(o) \/ Lifecycle!MarkEscalated(o),
         Awaited(pc) = Awaited(job[w].pc), Handled(job[w].pc) # {},
         Handled(job[w].pc) \subseteq Handled(pc), job[w].pc # "add",
         pc \notin {"add", "hardMark", "escMark"},
         pc = "softReport" => viol' = viol /\ ~ViolationExists(job[w].cur),
         pc = "hardReport" => viol' = viol /\ ~HardViolationExists(job[w].cur)
  PROVE  SoloInv' /\ LifecycleStep
<1> DEFINE j == [job[w] EXCEPT !.pc = pc]
           o == job[w].cur
<1>1. job' = [job EXCEPT ![w] = j]
  BY DEF SoloInv, TypeOK, Goto
<1>2. o \in Obs /\ viol[o].soft \in Nat /\ viol[o].hard \in Nat
  BY DEF SoloInv, TypeOK, ViolationRecords, InStep
<1>3. /\ pc = "softReport" => viol'[o].soft = 0 /\ viol'[o].hard = 0
      /\ pc = "hardReport" => viol'[o].hard = 0
  BY <1>2 DEF ViolationExists, HardViolationExists
<1>4. InStep(j, obs, viol')
  BY <1>3, MovedOn
<1> HIDE DEF j, o
<1>5. CASE viol' = viol
  BY <1>1, <1>4, <1>5, SoloQuiet
<1>6. CASE \E p \in Obs : Lifecycle!Raise(p) \/ Lifecycle!MarkEscalated(p)
  BY <1>1, <1>4, <1>6, SoloViolation
<1> QED BY <1>5, <1>6

\* A step of the scan that lets go of the row in hand.
LEMMA SoloRelease ==
  ASSUME OneWorker, SoloInv, TypeOK', obs' = obs, NEW w \in Workers,
         NEW pc \in {"pass1", "passA", "passB"}, Release(w, pc),
         Awaited(pc) = Awaited(job[w].pc),
         viol' = viol \/ \E o \in Obs : Lifecycle!MarkEscalated(o)
  PROVE  SoloInv' /\ LifecycleStep
<1> DEFINE j == Released(w, pc)
<1>1. job' = [job EXCEPT ![w] = j]
  BY ReleaseJob DEF SoloInv
<1>2. InStep(j, obs, viol) /\ InStep(j, obs, viol')
  BY LetGo
<1> HIDE DEF j
<1> QED BY <1>1, <1>2, SoloQuiet, SoloViolation

\* The next list of rows: a SELECT of soft overdue ones.
LEMMA SoloNextPass ==
  ASSUME OneWorker, SoloInv, TypeOK', obs' = obs, viol' = viol, NEW w \in Workers,
         NEW S \in SUBSET Obs, NEW pc \in {"passA", "passB"}, job[w].pc \in {"pass1", "passA"},
         NEW c, c = Snapshot(S),
         job' = [job EXCEPT ![w].pc = pc, ![w].todo = S, ![w].copy = c],
         \A o \in S : obs[o].status = "SOFT_OVERDUE"
  PROVE  SoloInv' /\ LifecycleStep
<1> DEFINE j == [job[w] EXCEPT !.pc = pc, !.todo = S, !.copy = c]
<1>1. job[w] \in Jobs /\ job' = [job EXCEPT ![w] = j] /\ InStep(job[w], obs, viol)
  BY DEF SoloInv, TypeOK
<1>3. j.pc = pc /\ j.todo = S /\ j.copy = c /\ j.cur = job[w].cur
  BY <1>1 DEF Jobs
<1> HIDE DEF j
<1>4. job[w].cur = NoOb
  BY <1>1, HandledAt DEF InStep
<1>5. \A o \in S : obs[o].status \in Awaited(pc)
  BY AwaitedAt DEF InPassA, InPassB
<1>6. InStep(j, obs, viol)
  BY <1>3, <1>4, <1>5, JustListed
<1> QED BY <1>1, <1>6, SoloQuiet

LEMMA SoloScan ==
  ASSUME OneWorker, SoloInv, TypeOK', NEW w \in Workers, Scan(w)
  PROVE  SoloInv' /\ LifecycleStep
<1> DEFINE c == job[w].cur
<1>0. TypeOK /\ job[w] \in Jobs /\ InStep(job[w], obs, viol) /\ viol \in [Obs -> ViolationRecords]
  BY DEF SoloInv, TypeOK
<1>1. \A o \in job[w].todo : /\ o \in Obs /\ o # c /\ job[w].copy[o].status = obs[o].status
                             /\ obs[o].status \in Awaited(job[w].pc)
  BY <1>0 DEF InStep, Jobs
<1>2. Handled(job[w].pc) # {} /\ job[w].pc # "add" =>
        /\ c \in Obs /\ obs[c].status \in Handled(job[w].pc)
        /\ job[w].copy[c].status = obs[c].status
        /\ job[w].copy[c] \in Records
        /\ viol[c] \in [soft: Nat, hard: Nat, escalated: BOOLEAN]
  BY <1>0, HeldType DEF InStep, ViolationRecords
<1>3. ASSUME NEW o \in Obs, SendReminder(w, o) PROVE SoloInv' /\ LifecycleStep
  <2> DEFINE r == [job[w].copy[o] EXCEPT !.reminded = TRUE]
             j == [job[w] EXCEPT !.copy[o] = r]
  <2>1. r \in Records /\ r.status = job[w].copy[o].status
    BY <1>0, HeldType DEF Records
  <2>2. /\ job' = [job EXCEPT ![w] = j] /\ Update(o, r) /\ viol' = viol
        /\ job[w].pc = "pass1" /\ o \in job[w].todo
    BY <1>3 DEF SendReminder, At
  <2> HIDE DEF r
  <2>3. /\ \A p \in Obs : j.copy[p] = IF p = o THEN r ELSE job[w].copy[p]
        /\ j.pc = "pass1" /\ j.cur = c /\ j.todo = job[w].todo
    BY <1>0, <2>2 DEF Jobs
  <2> HIDE DEF j
  <2>4. r.status = obs[o].status /\ r.status = "PENDING" /\ c = NoOb
    BY <1>0, <1>1, <2>1, <2>2, AwaitedAt, HandledAt DEF InStep, InPass1
  <2>5. \A p \in Obs : obs'[p].status = IF p = o THEN r.status ELSE obs[p].status
    BY <1>0, <2>1, <2>2, UpdatedStatus
  <2>6. InStep(j, obs', viol')
    <3>1. \A p \in j.todo : /\ p # j.cur /\ j.copy[p].status = obs'[p].status
                            /\ obs'[p].status \in Awaited(j.pc)
      BY <1>1, <2>2, <2>3, <2>4, <2>5
    <3> QED BY <2>3, <2>4, <3>1, HandledAt DEF InStep
  <2>7. MayBecome(o, obs[o].status, r.status)
    BY <2>4 DEF MayBecome, Terminal
  <2> QED BY <2>1, <2>2, <2>6, <2>7, SoloWrite
<1>4. ASSUME NEW o \in Obs, SoftOverdue(w, o) PROVE SoloInv' /\ LifecycleStep
  <2> DEFINE r == [job[w].copy[o] EXCEPT !.status = "SOFT_OVERDUE", !.softAt = job[w].at]
  <2>1. r \in Records /\ r.status = "SOFT_OVERDUE"
    BY <1>0, HeldType DEF Records, ObStatus
  <2>2. /\ Write(w, o, r, "softCheck") /\ viol' = viol
        /\ job[w].pc = "pass1" /\ o \in job[w].todo
    BY <1>4 DEF SoftOverdue, At
  <2> HIDE DEF r
  <2>3. MayBecome(o, obs[o].status, r.status)
    BY <1>1, <2>1, <2>2, AwaitedAt DEF MayBecome, InPass1
  <2> QED BY <2>1, <2>2, <2>3, AwaitedAt, HandledAt, SoloTake DEF InPass1, Steps
<1>5. CASE SoftCheck(w)
  <2>1. ASSUME NEW pc \in {"softReport", "softEntity"}, Goto(w, pc),
               pc = "softReport" => ~ViolationExists(c)
        PROVE  SoloInv' /\ LifecycleStep
    BY <1>5, <2>1, AwaitedAt, HandledAt, SoloGoto DEF SoftCheck, At, InPass1
  <2> QED BY <1>5, <2>1 DEF SoftCheck
<1>6. CASE SoftReport(w)
  <2>1. job[w].pc = "softReport"
    BY <1>6 DEF SoftReport, At
  <2>2. c \in Obs /\ obs[c].status = "SOFT_OVERDUE" /\ viol[c].soft = 0 /\ viol[c].hard = 0
    BY <1>0, <1>2, <2>1, HandledAt DEF InStep
  <2>3. viol' = [viol EXCEPT ![c].soft = 1]
    BY <1>0, <1>6, <2>2 DEF SoftReport
  <2>4. Lifecycle!Raise(c)
    BY <1>6, <2>2, <2>3 DEF SoftReport, Lifecycle!Raise, Lifecycle!RaiseSoft, Lifecycle!Reported
  <2> QED BY <1>6, <2>1, <2>2, <2>4, AwaitedAt, HandledAt, SoloGoto DEF SoftReport, InPass1
<1>7. CASE SoftEntity(w)
  BY <1>7, AwaitedAt, SoloRelease DEF SoftEntity, At, InPass1
<1>8. CASE PassOneDone(w)
  <2> DEFINE S == PassADue(w)
             found == Snapshot(S)
  <2>1. S \in SUBSET Obs /\ \A o \in S : obs[o].status = "SOFT_OVERDUE"
    BY DEF PassADue
  <2>2. /\ job[w].pc \in {"pass1", "passA"} /\ obs' = obs /\ viol' = viol
        /\ job' = [job EXCEPT ![w].pc = "passA", ![w].todo = S, ![w].copy = found]
    BY <1>8 DEF PassOneDone, At
  <2> HIDE DEF S
  <2>3. found = Snapshot(S)
    OBVIOUS
  <2> HIDE DEF found
  <2> QED BY <2>1, <2>2, <2>3, SoloNextPass, Zenon
<1>9. ASSUME NEW o \in Obs, HardOverdue(w, o) PROVE SoloInv' /\ LifecycleStep
  <2> DEFINE r == [job[w].copy[o] EXCEPT !.status = "HARD_OVERDUE",
                     !.hardAt = job[w].at, !.sev = Bumped(@)]
  <2>1. r \in Records /\ r.status = "HARD_OVERDUE"
    BY <1>0, HeldType DEF Records, ObStatus, Bumped, Severities
  <2>2. /\ Write(w, o, r, "hardCheck") /\ viol' = viol
        /\ job[w].pc = "passA" /\ o \in job[w].todo
    BY <1>9 DEF HardOverdue, At
  <2> HIDE DEF r
  <2>3. MayBecome(o, obs[o].status, r.status)
    BY <1>1, <2>1, <2>2, AwaitedAt DEF MayBecome, InPassA
  <2> QED BY <2>1, <2>2, <2>3, AwaitedAt, HandledAt, SoloTake DEF InPassA, Steps
<1>10. CASE HardCheck(w)
  <2>1. ASSUME NEW pc \in {"hardReport", "hardEscalate"}, Goto(w, pc),
               pc = "hardReport" => ~HardViolationExists(c)
        PROVE  SoloInv' /\ LifecycleStep
    BY <1>10, <2>1, AwaitedAt, HandledAt, SoloGoto DEF HardCheck, At, InPassA
  <2> QED BY <1>10, <2>1 DEF HardCheck
<1>11. CASE HardReport(w)
  <2>1. job[w].pc = "hardReport"
    BY <1>11 DEF HardReport, At
  <2>2. c \in Obs /\ obs[c].status = "HARD_OVERDUE" /\ viol[c].hard = 0
    BY <1>0, <1>2, <2>1, HandledAt DEF InStep
  <2>3. viol' = [viol EXCEPT ![c].hard = 1]
    BY <1>0, <1>11, <2>2 DEF HardReport
  <2>4. Lifecycle!Raise(c)
    BY <1>11, <2>2, <2>3 DEF HardReport, Lifecycle!Raise, Lifecycle!RaiseHard
  <2> QED BY <1>11, <2>1, <2>2, <2>4, AwaitedAt, HandledAt, SoloGoto DEF HardReport, InPassA
<1>12. ASSUME NEW o \in Obs, NEW pc \in {"hardMark", "escMark"}, Escalate(w, o, pc),
              viol' = viol, obs[o].status \in Overdue, Awaited(pc) = Awaited(job[w].pc)
       PROVE  SoloInv' /\ LifecycleStep
  <2> DEFINE r == [job[w].copy[o] EXCEPT !.status = "ESCALATED", !.escAt = job[w].at]
  <2>1. r \in Records /\ r.status = "ESCALATED"
    BY <1>0, HeldType DEF Records, ObStatus
  <2>2. Write(w, o, r, pc) /\ ViolationExists(o)
    BY <1>12 DEF Escalate
  <2> HIDE DEF r
  <2>3. MayBecome(o, obs[o].status, r.status)
    BY <1>12, <2>1, <2>2 DEF MayBecome
  <2> QED BY <1>12, <2>1, <2>2, <2>3, HandledAt, SoloTake DEF Steps
<1>13. CASE HardEscalate(w)
  <2>1. job[w].pc = "hardEscalate" /\ Escalate(w, c, "hardMark") /\ viol' = viol
    BY <1>13 DEF HardEscalate, At
  <2>2. c \in Obs /\ obs[c].status \in Overdue
    BY <1>2, <2>1, HandledAt DEF Overdue
  <2>3. Awaited("hardMark") = Awaited(job[w].pc)
    BY <2>1, AwaitedAt DEF InPassA
  <2> QED BY <1>12, <2>1, <2>2, <2>3
<1>14. CASE HardNoEscalation(w)
  BY <1>14, AwaitedAt, HandledAt, SoloGoto DEF HardNoEscalation, At, InPassA
<1>15. ASSUME job[w].pc \in {"hardMark", "escMark"}, MarkEscalated(c), obs' = obs
       PROVE  c \in Obs /\ Lifecycle!MarkEscalated(c)
  <2>1. c \in Obs /\ obs[c].status = "ESCALATED" /\ viol[c].soft + viol[c].hard > 0
    BY <1>0, <1>2, <1>15, HandledAt DEF InStep
  <2> QED BY <1>15, <2>1 DEF MarkEscalated, Lifecycle!MarkEscalated, Lifecycle!Reported
<1>16. CASE HardMark(w)
  BY <1>15, <1>16, AwaitedAt, HandledAt, SoloGoto DEF HardMark, At, InPassA
<1>17. CASE HardEntity(w)
  BY <1>17, AwaitedAt, SoloRelease DEF HardEntity, At, InPassA
<1>18. CASE PassADone(w)
  <2> DEFINE S == PassBDue(w)
             found == Snapshot(S)
  <2>1. S \in SUBSET Obs /\ \A o \in S : obs[o].status = "SOFT_OVERDUE"
    BY DEF PassBDue
  <2>2. /\ job[w].pc \in {"pass1", "passA"} /\ obs' = obs /\ viol' = viol
        /\ job' = [job EXCEPT ![w].pc = "passB", ![w].todo = S, ![w].copy = found]
    BY <1>18 DEF PassADone, At
  <2> HIDE DEF S
  <2>3. found = Snapshot(S)
    OBVIOUS
  <2> HIDE DEF found
  <2> QED BY <2>1, <2>2, <2>3, SoloNextPass, Zenon
<1>19. ASSUME NEW o \in Obs, LateEscalate(w, o) PROVE SoloInv' /\ LifecycleStep
  <2>1. obs[o].status = "SOFT_OVERDUE" /\ job[w].pc = "passB"
    BY <1>1, <1>19, AwaitedAt DEF LateEscalate, At, InPassB
  <2> QED BY <1>12, <1>19, <2>1, AwaitedAt DEF LateEscalate, InPassB, Overdue
<1>20. CASE LateMark(w)
  BY <1>15, <1>20, AwaitedAt, SoloRelease DEF LateMark, At, InPassB
<1>21. CASE ScanDone(w)
  <2> DEFINE j == Idle
  <2>1. j.pc = "idle" /\ j.todo = {} /\ j.cur = NoOb
    BY DEF Idle
  <2>2. job' = [job EXCEPT ![w] = j] /\ obs' = obs /\ viol' = viol
    BY <1>21 DEF ScanDone, Finish
  <2> HIDE DEF j
  <2>3. InStep(j, obs, viol)
    BY <2>1, AtRest
  <2> QED BY <2>2, <2>3, SoloQuiet
<1> QED BY <1>3, <1>4, <1>5, <1>6, <1>7, <1>8, <1>9, <1>10, <1>11, <1>13, <1>14, <1>16,
           <1>17, <1>18, <1>19, <1>20, <1>21 DEF Scan

\* The row after the store's own cancellation.
LEMMA VoidedStatus ==
  ASSUME TypeOK, NEW w \in Workers, NEW o \in Obs, StoreCancel(w, o)
  PROVE  /\ \A p \in Obs : obs'[p].status = IF p = o THEN "CANCELLED" ELSE obs[p].status
         /\ \A p \in Obs \ {o} : obs'[p] = obs[p]
         /\ obs[o].status # "ABSENT" /\ job' = job /\ viol' = viol
<1>1. obs[o] \in Records
  BY DEF TypeOK
<1>2. [obs[o] EXCEPT !.status = "CANCELLED"].status = "CANCELLED"
  BY <1>1 DEF Records
<1> QED BY <1>2 DEF StoreCancel, TypeOK

\* The store's own cancellation finds the only worker between two operations.
LEMMA SoloStoreCancel ==
  ASSUME OneWorker, SoloInv, TypeOK', NEW w \in Workers, NEW o \in Obs, StoreCancel(w, o)
  PROVE  SoloInv' /\ LifecycleStep
<1>1. TypeOK /\ InStep(job[w], obs, viol) /\ job[w].pc = "idle"
      /\ job' = job /\ viol' = viol
  BY DEF SoloInv, StoreCancel, At
<1>2. job[w].todo = {} /\ job[w].cur = NoOb
  BY <1>1, AwaitedAt, HandledAt DEF InStep
<1>3. \A v \in Workers : InStep(job'[v], obs', viol')
  BY <1>1, <1>2, AtRest DEF OneWorker
<1>4. obs[o] \in Records /\ obs[o].status # "ABSENT"
  BY <1>1 DEF TypeOK, StoreCancel
<1>6. /\ \A p \in Obs : obs'[p].status = IF p = o THEN "CANCELLED" ELSE obs[p].status
      /\ \A p \in Obs \ {o} : obs'[p] = obs[p]
  BY <1>1, VoidedStatus
<1>7. LifecycleStep
  <2>1. [Lifecycle!LifecycleNext]_(Lifecycle!lifecycle)
    BY <1>1, <1>4, <1>6, MoveStep
  <2> QED BY <1>6, <2>1 DEF LifecycleStep
<1>8. OneViolationPerStage' /\ NoDuplicatePending'
  BY <1>1, <1>6 DEF SoloInv, OneViolationPerStage, NoDuplicatePending
<1> QED BY <1>3, <1>7, <1>8 DEF SoloInv

LEMMA SoloNext ==
  ASSUME OneWorker, SoloInv, TypeOK', [Next]_vars
  PROVE  SoloInv' /\ LifecycleStep
<1>1. CASE UNCHANGED <<obs, viol, job>>
  <2>1. SoloInv'
    BY <1>1 DEF SoloInv, OneViolationPerStage, NoDuplicatePending
  <2>2. LifecycleStep
    BY <1>1 DEF LifecycleStep, Lifecycle!lifecycle
  <2> QED BY <2>1, <2>2
<1>2. ASSUME NEW w \in Workers, Start(w) \/ Continue(w) PROVE SoloInv' /\ LifecycleStep
  BY <1>2, SoloStart, SoloIngest, SoloScan, SoloDirectWrite DEF Continue
<1> QED BY <1>1, <1>2, SoloStoreCancel
        DEF Next, Tick, EntityChange, RegisterEntity, UpdateEntityStatus, vars

LEMMA SoloInit == Init => SoloInv
<1> SUFFICES ASSUME Init PROVE SoloInv
  OBVIOUS
<1>1. TypeOK
  BY BlankType, IdleType, PolicyAssumption
     DEF Init, TypeOK, ViolationRecords, EntityStatuses, Times, NoTime
<1>2. \A w \in Workers : InStep(job[w], obs, viol)
  <2>1. Idle.pc = "idle" /\ Idle.todo = {} /\ Idle.cur = NoOb
    BY DEF Idle
  <2>2. \A w \in Workers : job[w] = Idle
    BY DEF Init
  <2> QED BY <2>1, <2>2, AtRest
<1>3. OneViolationPerStage /\ NoDuplicatePending
  BY DEF Init, OneViolationPerStage, NoDuplicatePending, Blank
<1> QED BY <1>1, <1>2, <1>3 DEF SoloInv

LEMMA SoloInvariant == ASSUME OneWorker PROVE Spec => []SoloInv
<1>1. SoloInv /\ [Next]_vars => SoloInv'
  BY TypeStep, SoloNext DEF SoloInv
<1> QED BY <1>1, SoloInit, PTL DEF Spec

(* A single worker raises at most one violation of each stage, however often it *)
(* scans: its idempotence check and its report have nothing between them.       *)
THEOREM ScanIsIdempotent ==
  ASSUME OneWorker
  PROVE  Spec => []OneViolationPerStage
<1>1. SoloInv => OneViolationPerStage
  BY DEF SoloInv
<1> QED BY <1>1, SoloInvariant, PTL

(* A single worker keeps one PENDING obligation per deduplicating rule, entity  *)
(* and actor, whoever acts and by whichever path it creates one: no event comes *)
(* between the look for one and the insert (has_pending_obligation).            *)
THEOREM DeduplicationHolds ==
  ASSUME OneWorker
  PROVE  Spec => []NoDuplicatePending
<1>1. SoloInv => NoDuplicatePending
  BY DEF SoloInv
<1> QED BY <1>1, SoloInvariant, PTL

(* A single worker never writes over a FULFILLED, CANCELLED or RESTORED row,    *)
(* but for the store's cancel_obligation, whose UPDATE asks for no status.      *)
THEOREM TerminalStays ==
  ASSUME OneWorker
  PROVE  Spec => TerminalIsFinal
<1>1. SoloInv /\ SoloInv' /\ [Next]_vars =>
        [\A o \in Obs : Terminal(obs[o].status) =>
           obs'[o] = obs[o] \/ \E w \in Workers : StoreCancel(w, o)]_vars
  BY SoloNext DEF SoloInv, LifecycleStep
<1> QED BY <1>1, SoloInvariant, PTL DEF Spec, TerminalIsFinal

(* A single worker's engine, with its store, copies, clock and entities, does   *)
(* to the obligations and their violations what the lifecycle allows, one store *)
(* call at a time.                                                              *)
THEOREM EngineImplementsLifecycle ==
  ASSUME OneWorker
  PROVE  Spec => ImplementsLifecycle
<1>1. Init => Lifecycle!LifecycleInit
  BY DEF Init, Lifecycle!LifecycleInit, Blank
<1>2. SoloInv /\ SoloInv' /\ [Next]_vars => [Lifecycle!LifecycleNext]_(Lifecycle!lifecycle)
  BY SoloNext DEF SoloInv, LifecycleStep
<1> QED BY <1>1, <1>2, SoloInvariant, PTL
        DEF Spec, ImplementsLifecycle, Lifecycle!LifecycleSpec

-------------------------------------------------------------------------------
(* Several workers.  The idempotence check and the report are two store calls,  *)
(* so two scans may both find no violation and both report one; but a worker    *)
(* that starts to look later finds it.                                          *)

\* The workers that found no violation of o and are about to report at pc.
Racing(o, pc) == {w \in Workers : job[w].pc = pc /\ job[w].cur = o}

OneViolationPerWorker ==
  \A o \in Obs : /\ viol[o].soft <= Cardinality(Workers)
                 /\ viol[o].hard <= Cardinality(Workers)

RaceInv ==
  /\ TypeOK
  /\ \A o \in Obs :
       /\ viol[o].soft + Cardinality(Racing(o, "softReport")) <= Cardinality(Workers)
       /\ viol[o].hard + Cardinality(Racing(o, "hardReport")) <= Cardinality(Workers)

LEMMA RacingFinite ==
  ASSUME IsFiniteSet(Workers), NEW o, NEW pc
  PROVE  /\ Cardinality(Racing(o, pc)) \in Nat /\ Cardinality(Workers) \in Nat
         /\ Cardinality(Racing(o, pc)) <= Cardinality(Workers)
         /\ IsFiniteSet(Racing(o, pc))
<1>1. Racing(o, pc) \in SUBSET Workers
  BY DEF Racing
<1> QED BY <1>1, FS_Subset, FS_CardinalityType

\* A step of w: n violations become m.
LEMMA RaceStep ==
  ASSUME IsFiniteSet(Workers), NEW w \in Workers,
         \A v \in Workers \ {w} : job'[v] = job[v],
         NEW o, NEW pc, NEW n \in Nat, NEW m \in Nat,
         n + Cardinality(Racing(o, pc)) <= Cardinality(Workers),
         \/ m = 0
         \/ m = n /\ ~(job'[w].pc = pc /\ job'[w].cur = o)
         \/ m = n + 1 /\ w \in Racing(o, pc) /\ job'[w].pc # pc
  PROVE  m + Cardinality(Racing(o, pc)') <= Cardinality(Workers)
<1> DEFINE R == Racing(o, pc)
           Q == Racing(o, pc)'
<1>1. IsFiniteSet(R) /\ Cardinality(R) \in Nat /\ Cardinality(Workers) \in Nat
  BY RacingFinite
<1>2. Q \in SUBSET Workers
  BY DEF Racing
<1>3. Cardinality(Q) \in Nat /\ Cardinality(Q) <= Cardinality(Workers)
  BY <1>2, FS_Subset, FS_CardinalityType
<1>4. CASE m = 0
  BY <1>1, <1>3, <1>4
<1>5. CASE ~(job'[w].pc = pc /\ job'[w].cur = o)
  <2>1. Q \in SUBSET (R \ {w})
    BY <1>5 DEF Racing
  <2>2. /\ IsFiniteSet(R \ {w})
        /\ Cardinality(R \ {w}) = IF w \in R THEN Cardinality(R) - 1 ELSE Cardinality(R)
    BY <1>1, FS_RemoveElement
  <2> HIDE DEF R, Q
  <2>3. Cardinality(Q) <= Cardinality(R \ {w})
    BY <2>1, <2>2, FS_Subset
  <2>4. CASE w \in R
    <3>1. Cardinality(Q) <= Cardinality(R) - 1
      BY <2>2, <2>3, <2>4
    <3>2. m = 0 \/ m = n \/ m = n + 1
      OBVIOUS
    <3> QED BY <3>1, <3>2, <1>1, <1>3 DEF R, Q
  <2>5. CASE w \notin R
    <3>1. Cardinality(Q) <= Cardinality(R)
      BY <2>2, <2>3, <2>5
    <3>2. m = 0 \/ m = n
      BY <2>5 DEF R
    <3> QED BY <3>1, <3>2, <1>1, <1>3 DEF R, Q
  <2> QED BY <2>4, <2>5
<1> QED BY <1>4, <1>5

\* Where w is after a step of the scan.
LEMMA GotoAt ==
  ASSUME TypeOK, NEW w \in Workers, NEW pc, Goto(w, pc)
  PROVE  job'[w].pc = pc /\ job'[w].cur = job[w].cur
<1>1. job'[w] = [job[w] EXCEPT !.pc = pc] /\ job[w] \in Jobs
  BY DEF Goto, TypeOK
<1> QED BY <1>1 DEF Jobs

LEMMA WriteAt ==
  ASSUME TypeOK, NEW w \in Workers, NEW o, NEW r, NEW pc, Write(w, o, r, pc)
  PROVE  job'[w].pc = pc
<1>1. job[w] \in Jobs
        /\ job'[w] = [job[w] EXCEPT !.pc = pc, !.copy[o] = r, !.cur = o, !.todo = @ \ {o}]
  BY DEF Write, TypeOK
<1> QED BY <1>1 DEF Jobs

LEMMA ReleaseAt ==
  ASSUME TypeOK, NEW w \in Workers, NEW pc, Release(w, pc)
  PROVE  job'[w].pc = pc
<1>1. job[w] \in Jobs /\ job'[w] = Released(w, pc)
  BY ReleaseJob DEF TypeOK
<1> QED BY <1>1 DEF Jobs, Released

\* Only the workers that have just looked report a violation.
Reports(w) == SoftCheck(w) \/ HardCheck(w) \/ SoftReport(w) \/ HardReport(w)

Quiet(w) ==
  /\ job'[w].pc \notin {"softReport", "hardReport"}
  /\ \A o \in Obs : viol'[o].soft = viol[o].soft /\ viol'[o].hard = viol[o].hard

LEMMA StartQuiet ==
  ASSUME TypeOK, NEW w \in Workers, Start(w)
  PROVE  Quiet(w) /\ \A v \in Workers \ {w} : job'[v] = job[v]
<1>1. ASSUME NEW j, job' = [job EXCEPT ![w] = j], viol' = viol,
             j.pc \notin {"softReport", "hardReport"}
      PROVE  Quiet(w) /\ \A v \in Workers \ {w} : job'[v] = job[v]
  BY <1>1 DEF Quiet, TypeOK
<1>2. ASSUME NEW e \in Entities, NEW a \in Actors,
             NEW t \in EventTypes, IngestEvent(w, e, a, t)
      PROVE  Quiet(w) /\ \A v \in Workers \ {w} : job'[v] = job[v]
  <2>1. PICK j : /\ job' = [job EXCEPT ![w] = j]
                 /\ j.pc = "fulfil"
    <3> DEFINE S == {o \in Obs : /\ EntityOf[o] = e /\ IsOpen(obs[o].status)
                                 /\ t \in Pol(o).required}
               c == Snapshot(S)
               j == [Idle EXCEPT !.pc = "fulfil", !.at = now, !.todo = S, !.copy = c,
                                 !.type = t, !.entity = e, !.actor = a]
    <3>1. job' = [job EXCEPT ![w] = j]
      BY <1>2 DEF IngestEvent
    <3> HIDE DEF S, c
    <3>2. j.pc = "fulfil"
      BY DEF Idle
    <3> QED BY <3>1, <3>2, Zenon
  <2>2. viol' = viol
    BY <1>2 DEF IngestEvent
  <2> QED BY <1>1, <2>1, <2>2
<1>3. CASE ScanStart(w)
  <2> DEFINE S == {o \in Obs : obs[o].status = "PENDING"}
             c == Snapshot(S)
             j == [Idle EXCEPT !.pc = "pass1", !.at = now, !.todo = S, !.copy = c]
  <2>1. job' = [job EXCEPT ![w] = j] /\ viol' = viol
    BY <1>3 DEF ScanStart, Begin
  <2> HIDE DEF S, c
  <2>2. j.pc = "pass1"
    BY DEF Idle
  <2> HIDE DEF j
  <2> QED BY <1>1, <2>1, <2>2
<1>4. ASSUME NEW o \in Obs, NEW pc \in {"restore", "close", "cancel"}, Hold(w, o, pc)
      PROVE  Quiet(w) /\ \A v \in Workers \ {w} : job'[v] = job[v]
  <2> DEFINE c == Snapshot({o})
             j == [Idle EXCEPT !.pc = pc, !.at = now, !.cur = o, !.copy = c]
  <2>1. job' = [job EXCEPT ![w] = j] /\ viol' = viol
    BY <1>4 DEF Hold
  <2> HIDE DEF c
  <2>2. j.pc = pc
    BY DEF Idle
  <2> HIDE DEF j
  <2> QED BY <1>1, <2>1, <2>2
<1>5. ASSUME NEW e \in Entities, NEW a \in Actors, NEW k \in Kinds, ToolTrigger(w, e, a, k)
      PROVE  Quiet(w) /\ \A v \in Workers \ {w} : job'[v] = job[v]
  <2>1. PICK o \in Obs : job' = [job EXCEPT ![w] = Adding(o)]
    BY <1>5, ToolTriggerJob
  <2>2. Adding(o).pc = "add" /\ viol' = viol
    BY <1>5 DEF ToolTrigger, Adding, Idle
  <2> QED BY <1>1, <2>1, <2>2
<1> QED BY <1>2, <1>3, <1>4, <1>5 DEF Start, RestoreRequest, CloseRequest, CancelRequest

LEMMA FinishQuiet ==
  ASSUME TypeOK, NEW w \in Workers, Finish(w), viol' = viol
  PROVE  Quiet(w) /\ \A v \in Workers \ {w} : job'[v] = job[v]
BY DEF Finish, Idle, Quiet, TypeOK

LEMMA IngestQuiet ==
  ASSUME TypeOK, NEW w \in Workers, Ingest(w)
  PROVE  Quiet(w) /\ \A v \in Workers \ {w} : job'[v] = job[v]
<1>0. job[w] \in Jobs
  BY DEF TypeOK
<1>1. ASSUME NEW j, job' = [job EXCEPT ![w] = j], viol' = viol,
             j.pc \notin {"softReport", "hardReport"}
      PROVE  Quiet(w) /\ \A v \in Workers \ {w} : job'[v] = job[v]
  BY <1>1 DEF Quiet, TypeOK
<1>2. ASSUME NEW o \in Obs, TryFulfil(w, o)
      PROVE  Quiet(w) /\ \A v \in Workers \ {w} : job'[v] = job[v]
  <2> DEFINE j == [job[w] EXCEPT !.todo = @ \ {o}, !.copy[o] = Blank]
  <2>1. job' = [job EXCEPT ![w] = j] /\ viol' = viol /\ j.pc = "fulfil"
    BY <1>0, <1>2 DEF TryFulfil, At, Jobs
  <2> HIDE DEF j
  <2> QED BY <1>1, <2>1
<1>3. CASE FulfilDone(w)
  <2> DEFINE K == {k \in Kinds : /\ Policy[k].trigger = job[w].type
                                 /\ Policy[k].byRule => ent[job[w].entity].status # "UNKNOWN"}
             j == [job[w] EXCEPT !.pc = "trigger", !.kinds = K]
  <2>1. job' = [job EXCEPT ![w] = j] /\ viol' = viol
    BY <1>3 DEF FulfilDone
  <2> HIDE DEF K
  <2>2. j.pc = "trigger"
    BY <1>0 DEF Jobs
  <2> HIDE DEF j
  <2> QED BY <1>1, <2>1, <2>2
<1>4. ASSUME NEW k \in Kinds, DeduplicateSkip(w, k)
      PROVE  Quiet(w) /\ \A v \in Workers \ {w} : job'[v] = job[v]
  <2> DEFINE j == [job[w] EXCEPT !.kinds = @ \ {k}]
  <2>1. job' = [job EXCEPT ![w] = j] /\ viol' = viol /\ j.pc = "trigger"
    BY <1>0, <1>4 DEF DeduplicateSkip, At, Jobs
  <2> HIDE DEF j
  <2> QED BY <1>1, <2>1
<1>5. ASSUME NEW k \in Kinds, TriggerMatch(w, k)
      PROVE  Quiet(w) /\ \A v \in Workers \ {w} : job'[v] = job[v]
  <2>1. PICK o \in Obs :
          job' = [job EXCEPT ![w].pc = "add", ![w].cur = o, ![w].kinds = @ \ {k}]
    BY <1>5, Zenon DEF TriggerMatch
  <2> DEFINE j == [job[w] EXCEPT !.pc = "add", !.cur = o, !.kinds = @ \ {k}]
  <2>2. job' = [job EXCEPT ![w] = j] /\ viol' = viol /\ j.pc = "add"
    BY <1>0, <1>5, <2>1 DEF TriggerMatch, Jobs
  <2> HIDE DEF j
  <2> QED BY <1>1, <2>2
<1>6. CASE AddObligation(w)
  <2> DEFINE j == [job[w] EXCEPT !.pc = "trigger", !.cur = NoOb]
  <2>1. job' = [job EXCEPT ![w] = j] /\ viol' = viol
    BY <1>6 DEF AddObligation
  <2>2. j.pc = "trigger"
    BY <1>0 DEF Jobs
  <2> HIDE DEF j
  <2> QED BY <1>1, <2>1, <2>2
<1>7. ASSUME NEW k \in Kinds, NoActor(w, k)
      PROVE  Quiet(w) /\ \A v \in Workers \ {w} : job'[v] = job[v]
  <2> DEFINE j == [job[w] EXCEPT !.kinds = @ \ {k}]
  <2>1. job' = [job EXCEPT ![w] = j] /\ viol' = viol /\ j.pc = "trigger"
    BY <1>0, <1>7 DEF NoActor, At, Jobs
  <2> HIDE DEF j
  <2> QED BY <1>1, <2>1
<1> QED BY <1>2, <1>3, <1>4, <1>5, <1>6, <1>7, FinishQuiet DEF Ingest, TriggerDone

LEMMA ScanOthers ==
  ASSUME TypeOK, NEW w \in Workers,
         \/ \E pc : Goto(w, pc) \/ Release(w, pc)
         \/ \E o, r, pc : Write(w, o, r, pc)
  PROVE  \A v \in Workers \ {w} : job'[v] = job[v]
<1>1. ASSUME NEW j, job' = [job EXCEPT ![w] = j]
      PROVE  \A v \in Workers \ {w} : job'[v] = job[v]
  BY <1>1 DEF TypeOK
<1>2. ASSUME NEW pc, Goto(w, pc) PROVE \A v \in Workers \ {w} : job'[v] = job[v]
  BY <1>2 DEF Goto, TypeOK
<1>3. ASSUME NEW pc, Release(w, pc) PROVE \A v \in Workers \ {w} : job'[v] = job[v]
  BY <1>1, <1>3, ReleaseJob
<1>4. ASSUME NEW o, NEW r, NEW pc, Write(w, o, r, pc)
      PROVE  \A v \in Workers \ {w} : job'[v] = job[v]
  <2>1. job' = [job EXCEPT ![w].pc = pc, ![w].copy[o] = r, ![w].cur = o,
                           ![w].todo = @ \ {o}]
    BY <1>4, Zenon DEF Write
  <2>2. \A v \in Workers \ {w} : job'[v] = job[v]
    BY <2>1 DEF TypeOK
  <2> QED BY <2>2
<1> QED BY <1>2, <1>3, <1>4

LEMMA ScanQuiet ==
  ASSUME TypeOK, NEW w \in Workers, Scan(w)
  PROVE  /\ Reports(w) \/ Quiet(w)
         /\ \A v \in Workers \ {w} : job'[v] = job[v]
<1> DEFINE Others == \A v \in Workers \ {w} : job'[v] = job[v]
<1>0. job[w] \in Jobs
  BY DEF TypeOK
<1>1. ASSUME NEW o, NEW r, NEW pc \in Steps \ {"softReport", "hardReport"},
             Write(w, o, r, pc), viol' = viol
      PROVE  Quiet(w) /\ Others
  <2>1. job'[w].pc = pc
    BY <1>1, WriteAt
  <2>2. Others
    BY <1>1, ScanOthers
  <2> QED BY <1>1, <2>1, <2>2 DEF Quiet
<1>2. \A o \in Obs : MarkEscalated(job[w].cur) =>
        viol'[o].soft = viol[o].soft /\ viol'[o].hard = viol[o].hard
  <2> SUFFICES ASSUME NEW o \in Obs, MarkEscalated(job[w].cur)
               PROVE  viol'[o].soft = viol[o].soft /\ viol'[o].hard = viol[o].hard
    OBVIOUS
  <2>1. viol[o] \in [soft: Nat, hard: Nat, escalated: BOOLEAN]
    BY DEF TypeOK, ViolationRecords
  <2>2. viol'[o] = viol[o] \/ viol'[o] = [viol[o] EXCEPT !.escalated = TRUE]
    BY DEF MarkEscalated, TypeOK
  <2> QED BY <2>1, <2>2
<1>3. ASSUME NEW pc \in Steps \ {"softReport", "hardReport"}, Goto(w, pc) \/ Release(w, pc),
             viol' = viol \/ MarkEscalated(job[w].cur)
      PROVE  Quiet(w) /\ Others
  <2>1. job'[w].pc = pc
    BY <1>3, GotoAt, ReleaseAt
  <2>2. Others
    BY <1>3, ScanOthers
  <2> QED BY <1>2, <1>3, <2>1, <2>2 DEF Quiet
<1>4. ASSUME NEW o \in Obs, SendReminder(w, o) PROVE Quiet(w) /\ Others
  <2> DEFINE r == [job[w].copy[o] EXCEPT !.reminded = TRUE]
             j == [job[w] EXCEPT !.copy[o] = r]
  <2>1. job' = [job EXCEPT ![w] = j] /\ viol' = viol /\ job[w].pc = "pass1"
    BY <1>4 DEF SendReminder, At
  <2> HIDE DEF r
  <2>2. j.pc = "pass1"
    BY <1>0, <2>1 DEF Jobs
  <2> HIDE DEF j
  <2> QED BY <2>1, <2>2 DEF Quiet, TypeOK
<1>5. ASSUME NEW S, NEW pc \in {"passA", "passB"}, viol' = viol,
             job' = [job EXCEPT ![w].pc = pc, ![w].todo = S, ![w].copy = Snapshot(S)]
      PROVE  Quiet(w) /\ Others
  <2> DEFINE c == Snapshot(S)
             j == [job[w] EXCEPT !.pc = pc, !.todo = S, !.copy = c]
  <2>1. job' = [job EXCEPT ![w] = j]
    BY <1>5 DEF TypeOK
  <2> HIDE DEF c
  <2>2. j.pc = pc
    BY <1>0 DEF Jobs
  <2> HIDE DEF j
  <2> QED BY <1>5, <2>1, <2>2 DEF Quiet, TypeOK
<1>6. CASE Reports(w)
  <2>1. \E pc : Goto(w, pc)
    BY <1>6 DEF Reports, SoftCheck, HardCheck, SoftReport, HardReport
  <2> QED BY <1>6, <2>1, ScanOthers
<1>7. CASE \E o \in Obs : SoftOverdue(w, o) \/ HardOverdue(w, o) \/ LateEscalate(w, o)
  BY <1>1, <1>7 DEF SoftOverdue, HardOverdue, LateEscalate, Escalate, Steps
<1>8. CASE HardEscalate(w)
  BY <1>1, <1>8 DEF HardEscalate, Escalate, Steps
<1>9. CASE SoftEntity(w) \/ HardEntity(w) \/ HardNoEscalation(w) \/ HardMark(w) \/ LateMark(w)
  BY <1>3, <1>9
     DEF SoftEntity, HardEntity, HardNoEscalation, HardMark, LateMark, Steps
<1>10. CASE PassOneDone(w)
  BY <1>5, <1>10, Zenon DEF PassOneDone
<1>11. CASE PassADone(w)
  BY <1>5, <1>11, Zenon DEF PassADone
<1>12. CASE ScanDone(w)
  BY <1>12, FinishQuiet DEF ScanDone
<1> QED BY <1>4, <1>6, <1>7, <1>8, <1>9, <1>10, <1>11, <1>12 DEF Scan, Reports

\* A soft report is about an obligation that had no violation when w looked, and
\* is written for the one in hand.
LEMMA ReportBound ==
  ASSUME IsFiniteSet(Workers), RaceInv, NEW w \in Workers, Reports(w),
         \A v \in Workers \ {w} : job'[v] = job[v],
         NEW o \in Obs
  PROVE  /\ viol'[o].soft + Cardinality(Racing(o, "softReport")') <= Cardinality(Workers)
         /\ viol'[o].hard + Cardinality(Racing(o, "hardReport")') <= Cardinality(Workers)
<1>0. /\ TypeOK
      /\ viol[o].soft + Cardinality(Racing(o, "softReport")) <= Cardinality(Workers)
      /\ viol[o].hard + Cardinality(Racing(o, "hardReport")) <= Cardinality(Workers)
  BY DEF RaceInv
<1>1. viol[o] \in [soft: Nat, hard: Nat, escalated: BOOLEAN]
  BY <1>0 DEF TypeOK, ViolationRecords
<1>2. viol[o].soft \in Nat /\ viol[o].hard \in Nat
  BY <1>1
\* What each of the four steps does to w and to o's violations.
<1>3. ASSUME NEW pc, Goto(w, pc)
      PROVE  job'[w].pc = pc /\ job'[w].cur = job[w].cur
  BY <1>0, <1>3, GotoAt
<1>4. CASE SoftCheck(w)
  <2>1. viol' = viol
    BY <1>4 DEF SoftCheck
  <2>2. CASE job'[w].pc = "softReport" /\ job'[w].cur = o
    <3>1. ~ViolationExists(o)
      BY <1>3, <1>4, <2>2 DEF SoftCheck
    <3>2. viol[o].soft = 0
      BY <1>2, <3>1 DEF ViolationExists
    <3> QED BY <1>0, <1>2, <2>1, <2>2, <3>2, RaceStep
  <2>3. CASE ~(job'[w].pc = "softReport" /\ job'[w].cur = o)
    <3>1. job'[w].pc # "hardReport"
      BY <1>3, <1>4 DEF SoftCheck
    <3> QED BY <1>0, <1>2, <2>1, <2>3, <3>1, RaceStep
  <2> QED BY <2>2, <2>3
<1>5. CASE HardCheck(w)
  <2>1. viol' = viol
    BY <1>5 DEF HardCheck
  <2>0. job'[w].pc # "softReport"
    BY <1>3, <1>5 DEF HardCheck
  <2>2. CASE job'[w].pc = "hardReport" /\ job'[w].cur = o
    <3>1. ~HardViolationExists(o)
      BY <1>3, <1>5, <2>2 DEF HardCheck
    <3>2. viol[o].hard = 0
      BY <1>2, <3>1 DEF HardViolationExists
    <3> QED BY <1>0, <1>2, <2>0, <2>1, <2>2, <3>2, RaceStep
  <2>3. CASE ~(job'[w].pc = "hardReport" /\ job'[w].cur = o)
    BY <1>0, <1>2, <2>0, <2>1, <2>3, RaceStep
  <2> QED BY <2>2, <2>3
<1>6. CASE SoftReport(w)
  <2>1. job[w].pc = "softReport" /\ job'[w].pc = "softEntity"
    BY <1>3, <1>6 DEF SoftReport, At
  <2>2. viol' = [viol EXCEPT ![job[w].cur].soft = @ + 1]
    BY <1>6 DEF SoftReport
  <2>3. CASE job[w].cur = o
    <3>1. viol'[o] = [viol[o] EXCEPT !.soft = viol[o].soft + 1]
      BY <1>0, <2>2, <2>3 DEF TypeOK
    <3>2. viol'[o].soft = viol[o].soft + 1 /\ viol'[o].hard = viol[o].hard
      BY <1>1, <3>1
    <3>3. w \in Racing(o, "softReport")
      BY <2>1, <2>3 DEF Racing
    <3>4. viol'[o].soft \in Nat /\ viol'[o].hard \in Nat
      BY <1>2, <3>2
    <3>5. viol'[o].soft + Cardinality(Racing(o, "softReport")') <= Cardinality(Workers)
      BY <1>0, <1>2, <2>1, <3>2, <3>3, <3>4, RaceStep
    <3>6. viol'[o].hard + Cardinality(Racing(o, "hardReport")') <= Cardinality(Workers)
      BY <1>0, <1>2, <2>1, <3>2, <3>4, RaceStep
    <3> QED BY <3>5, <3>6
  <2>4. CASE job[w].cur # o
    <3>1. viol'[o] = viol[o]
      BY <1>0, <2>2, <2>4 DEF TypeOK
    <3> QED BY <1>0, <1>2, <2>1, <3>1, RaceStep
  <2> QED BY <2>3, <2>4
<1>7. CASE HardReport(w)
  <2>1. job[w].pc = "hardReport" /\ job'[w].pc = "hardEscalate"
    BY <1>3, <1>7 DEF HardReport, At
  <2>2. viol' = [viol EXCEPT ![job[w].cur].hard = @ + 1]
    BY <1>7 DEF HardReport
  <2>3. CASE job[w].cur = o
    <3>1. viol'[o] = [viol[o] EXCEPT !.hard = viol[o].hard + 1]
      BY <1>0, <2>2, <2>3 DEF TypeOK
    <3>2. viol'[o].hard = viol[o].hard + 1 /\ viol'[o].soft = viol[o].soft
      BY <1>1, <3>1
    <3>3. w \in Racing(o, "hardReport")
      BY <2>1, <2>3 DEF Racing
    <3>4. viol'[o].soft \in Nat /\ viol'[o].hard \in Nat
      BY <1>2, <3>2
    <3>5. viol'[o].hard + Cardinality(Racing(o, "hardReport")') <= Cardinality(Workers)
      BY <1>0, <1>2, <2>1, <3>2, <3>3, <3>4, RaceStep
    <3>6. viol'[o].soft + Cardinality(Racing(o, "softReport")') <= Cardinality(Workers)
      BY <1>0, <1>2, <2>1, <3>2, <3>4, RaceStep
    <3> QED BY <3>5, <3>6
  <2>4. CASE job[w].cur # o
    <3>1. viol'[o] = viol[o]
      BY <1>0, <2>2, <2>4 DEF TypeOK
    <3> QED BY <1>0, <1>2, <2>1, <3>1, RaceStep
  <2> QED BY <2>3, <2>4
<1> QED BY <1>4, <1>5, <1>6, <1>7 DEF Reports

LEMMA QuietBound ==
  ASSUME IsFiniteSet(Workers), RaceInv, NEW w \in Workers, Quiet(w),
         \A v \in Workers \ {w} : job'[v] = job[v],
         NEW o \in Obs
  PROVE  /\ viol'[o].soft + Cardinality(Racing(o, "softReport")') <= Cardinality(Workers)
         /\ viol'[o].hard + Cardinality(Racing(o, "hardReport")') <= Cardinality(Workers)
<1>1. /\ TypeOK
      /\ viol[o].soft + Cardinality(Racing(o, "softReport")) <= Cardinality(Workers)
      /\ viol[o].hard + Cardinality(Racing(o, "hardReport")) <= Cardinality(Workers)
  BY DEF RaceInv
<1>2. viol[o].soft \in Nat /\ viol[o].hard \in Nat
  BY <1>1 DEF TypeOK, ViolationRecords
<1>3. /\ job'[w].pc # "softReport" /\ job'[w].pc # "hardReport"
      /\ viol'[o].soft = viol[o].soft /\ viol'[o].hard = viol[o].hard
  BY DEF Quiet
<1> QED BY <1>1, <1>2, <1>3, RaceStep

LEMMA RaceNext ==
  ASSUME IsFiniteSet(Workers), RaceInv, [Next]_vars
  PROVE  RaceInv'
<1>0. TypeOK /\ TypeOK'
  BY TypeStep DEF RaceInv
<1> DEFINE Bound(o) ==
      /\ viol'[o].soft + Cardinality(Racing(o, "softReport")') <= Cardinality(Workers)
      /\ viol'[o].hard + Cardinality(Racing(o, "hardReport")') <= Cardinality(Workers)
<1> SUFFICES ASSUME NEW o \in Obs PROVE Bound(o)
  BY <1>0 DEF RaceInv
<1>1. CASE UNCHANGED <<viol, job>>
  BY <1>1 DEF RaceInv, Racing
<1>2. ASSUME NEW w \in Workers, Start(w) \/ Continue(w) PROVE Bound(o)
  <2>1. CASE Start(w)
    BY <1>0, <2>1, StartQuiet, QuietBound
  <2>2. CASE Ingest(w)
    BY <1>0, <2>2, IngestQuiet, QuietBound
  <2>3. CASE Scan(w)
    BY <1>0, <2>3, ScanQuiet, QuietBound, ReportBound
  <2>4. CASE DirectWrite(w)
    <3>1. Finish(w) /\ viol' = viol
      BY <2>4 DEF DirectWrite, RestoreObligation, CloseObligation, CancelObligation, Commit
    <3> QED BY <1>0, <3>1, FinishQuiet, QuietBound
  <2> QED BY <1>2, <2>1, <2>2, <2>3, <2>4 DEF Continue
<1>3. CASE Tick \/ EntityChange
  BY <1>1, <1>3 DEF Tick, EntityChange, RegisterEntity, UpdateEntityStatus
<1>4. CASE UNCHANGED vars
  BY <1>1, <1>4 DEF vars
<1>5. ASSUME NEW w \in Workers, NEW p \in Obs, StoreCancel(w, p) PROVE Bound(o)
  BY <1>1, <1>5 DEF StoreCancel
<1> QED BY <1>2, <1>3, <1>4, <1>5 DEF Next

\* Any number of workers may run scans at once on one store: the check of an
\* earlier violation and the report are two steps, so each worker that looked
\* before the first report still writes its own (scan, _record_violation). There
\* are never more violations of a stage than workers.
THEOREM ViolationsPerWorker ==
  ASSUME IsFiniteSet(Workers)
  PROVE  Spec => []OneViolationPerWorker
<1>1. Init => RaceInv
  <2> SUFFICES ASSUME Init PROVE RaceInv
    OBVIOUS
  <2>1. TypeOK
    BY BlankType, IdleType, PolicyAssumption
       DEF Init, TypeOK, ViolationRecords, EntityStatuses, Times, NoTime
  <2>2. ASSUME NEW o \in Obs, NEW pc \in {"softReport", "hardReport"}
        PROVE  Racing(o, pc) = {}
    BY DEF Init, Racing, Idle
  <2>3. Cardinality({}) = 0 /\ Cardinality(Workers) \in Nat
    BY FS_EmptySet, FS_CardinalityType
  <2>4. \A o \in Obs : viol[o].soft = 0 /\ viol[o].hard = 0
    BY DEF Init
  <2> QED BY <2>1, <2>2, <2>3, <2>4 DEF RaceInv
<1>2. RaceInv /\ [Next]_vars => RaceInv'
  BY RaceNext
<1>3. RaceInv => OneViolationPerWorker
  <2> SUFFICES ASSUME RaceInv, NEW o \in Obs
               PROVE  viol[o].soft <= Cardinality(Workers)
                      /\ viol[o].hard <= Cardinality(Workers)
    BY DEF OneViolationPerWorker
  <2>1. viol[o].soft \in Nat /\ viol[o].hard \in Nat
    BY DEF RaceInv, TypeOK, ViolationRecords
  <2>2. /\ viol[o].soft + Cardinality(Racing(o, "softReport")) <= Cardinality(Workers)
        /\ viol[o].hard + Cardinality(Racing(o, "hardReport")) <= Cardinality(Workers)
    BY DEF RaceInv
  <2> QED BY <2>1, <2>2, RacingFinite
<1> QED BY <1>1, <1>2, <1>3, PTL DEF Spec

-------------------------------------------------------------------------------
(* Several workers and the lifecycle.  Each worker does to its copies what the  *)
(* lifecycle allows, so a step that the lifecycle does not allow writes back,   *)
(* or reports on, a row that has changed since it was read.                     *)

\* What every operation in progress knows of its own copies, stale or not.
CopiesOK(j) ==
  /\ \A o \in j.todo : o # j.cur /\ j.copy[o].status \in Awaited(j.pc)
  /\ IF Handled(j.pc) = {} THEN j.cur = NoOb ELSE j.cur \in Obs
  /\ Handled(j.pc) # {} /\ j.pc # "add" => j.copy[j.cur].status \in Handled(j.pc)

Marks == {"hardMark", "escMark"}

CopyInv ==
  /\ TypeOK
  /\ \A w \in Workers : CopiesOK(job[w])
  /\ \A w \in Workers, o \in Obs :
       job[w].copy[o].status # "ABSENT" => obs[o].status # "ABSENT"
  /\ \A w \in Workers : job[w].pc = "add" => obs[job[w].cur].status = "ABSENT"
  /\ \A v, w \in Workers :
       job[v].pc = "add" /\ job[w].pc = "add" /\ job[v].cur = job[w].cur => v = w
  /\ \A w \in Workers : job[w].pc \in Marks => ViolationExists(job[w].cur)

\* w writes o as the lifecycle allows from the status of its copy.
WritesBack(w, o) ==
  /\ job[w].copy[o].status # "ABSENT"
  /\ MayBecome(o, job[w].copy[o].status, obs'[o].status)
  /\ \A p \in Obs \ {o} : obs'[p] = obs[p]
  /\ viol' = viol

\* A step of w, which makes j of its job.
Outcome(w, j) ==
  /\ CopiesOK(j)
  /\ \A o \in Obs : j.copy[o].status # "ABSENT" =>
       job[w].copy[o].status # "ABSENT" \/ obs[o].status # "ABSENT"
  /\ j.pc = "add" => /\ obs' = obs /\ obs[j.cur].status = "ABSENT"
                     /\ \A v \in Workers \ {w} : job[v].pc = "add" => job[v].cur # j.cur
  /\ j.pc \in Marks => ViolationExists(j.cur)
  /\ \/ obs' = obs
     \/ \E o \in Obs : WritesBack(w, o)
     \/ AddObligation(w)

LEMMA OutcomeKeeps ==
  ASSUME CopyInv, TypeOK', NEW w \in Workers, Outcome(w, job'[w]),
         \A v \in Workers \ {w} : job'[v] = job[v],
         \A o \in Obs : ViolationExists(o) => ViolationExists(o)'
  PROVE  CopyInv'
<1> DEFINE c == job[w].cur
<1>0. TypeOK
  BY DEF CopyInv
<1>1. ASSUME AddObligation(w)
      PROVE  /\ c \in Obs /\ job[w].pc = "add" /\ job'[w].pc = "trigger"
             /\ \A p \in Obs : obs'[p].status = IF p = c THEN "PENDING" ELSE obs[p].status
  <2>1. job[w] \in Jobs /\ job[w].pc = "add" /\ c \in Obs
    BY <1>0, <1>1, HandledAt DEF AddObligation, At, TypeOK, CopyInv, CopiesOK
  <2>2. \A p \in Obs : obs'[p].status = IF p = c THEN "PENDING" ELSE obs[p].status
    BY <1>0, <1>1, <2>1 DEF AddObligation, Fresh, Blank, TypeOK
  <2> DEFINE j == [job[w] EXCEPT !.pc = "trigger", !.cur = NoOb]
  <2>3. job'[w] = j /\ j.pc = "trigger"
    BY <1>0, <1>1, <2>1 DEF AddObligation, TypeOK, Jobs
  <2> QED BY <2>1, <2>2, <2>3
<1>2. \A o \in Obs : obs[o].status # "ABSENT" => obs'[o].status # "ABSENT"
  <2>1. ASSUME NEW o \in Obs, WritesBack(w, o), NEW p \in Obs, obs[p].status # "ABSENT"
        PROVE  obs'[p].status # "ABSENT"
    BY <2>1 DEF WritesBack, MayBecome
  <2> QED BY <1>1, <2>1 DEF Outcome
\* A row appears only where the one worker that adds it says so.
<1>3. ASSUME NEW o \in Obs, obs[o].status = "ABSENT", obs'[o].status # "ABSENT"
      PROVE  job[w].pc = "add" /\ c = o /\ job'[w].pc # "add"
  <2>1. ASSUME NEW p \in Obs, WritesBack(w, p) PROVE FALSE
    <3>1. obs[p].status # "ABSENT"
      BY <2>1 DEF WritesBack, CopyInv
    <3> QED BY <1>3, <2>1, <3>1 DEF WritesBack
  <2>2. AddObligation(w)
    BY <1>3, <2>1 DEF Outcome
  <2> QED BY <1>1, <1>3, <2>2
<1>4. \A v \in Workers : CopiesOK(job'[v])
  BY DEF CopyInv, Outcome
<1>5. \A v \in Workers, o \in Obs :
        job'[v].copy[o].status # "ABSENT" => obs'[o].status # "ABSENT"
  BY <1>2 DEF CopyInv, Outcome
<1>6. \A v \in Workers : job'[v].pc = "add" => job'[v].cur \in Obs
  BY <1>4, HandledAt DEF CopiesOK
<1>7. \A v \in Workers : job'[v].pc = "add" => obs'[job'[v].cur].status = "ABSENT"
  <2>1. SUFFICES ASSUME NEW v \in Workers, job'[v].pc = "add"
                 PROVE  obs'[job'[v].cur].status = "ABSENT"
    OBVIOUS
  <2>2. CASE v = w
    BY <2>1, <2>2 DEF Outcome
  <2>3. CASE v # w
    <3>1. job[v].pc = "add" /\ job'[v].cur = job[v].cur /\ job[v].cur \in Obs
          /\ obs[job[v].cur].status = "ABSENT"
      BY <2>1, <2>3, <1>6 DEF CopyInv
    <3>2. job[w].pc = "add" => job[w].cur # job[v].cur
      BY <2>3, <3>1 DEF CopyInv
    <3> QED BY <1>3, <3>1, <3>2
  <2> QED BY <2>2, <2>3
<1>8. \A u, v \in Workers :
        job'[u].pc = "add" /\ job'[v].pc = "add" /\ job'[u].cur = job'[v].cur => u = v
  BY DEF CopyInv, Outcome
<1>9. ASSUME NEW v \in Workers, job'[v].pc \in Marks
      PROVE  viol'[job'[v].cur].soft + viol'[job'[v].cur].hard > 0
  <2>1. PICK o \in Obs : o = job'[v].cur
    BY <1>4, <1>9, HandledAt DEF CopiesOK, Marks
  <2>2. ViolationExists(o)
    BY <1>9, <2>1 DEF CopyInv, Outcome
  <2>3. viol'[o].soft + viol'[o].hard > 0
    BY <2>2 DEF ViolationExists
  <2> QED BY <2>1, <2>3
<1>10. \A v \in Workers : (job[v].pc \in Marks => ViolationExists(job[v].cur))'
  BY <1>9 DEF ViolationExists
<1> QED BY <1>4, <1>5, <1>7, <1>8, <1>10 DEF CopyInv

\* A step that only reads: what matters of the job it leaves.
LEMMA ReadOutcome ==
  ASSUME NEW w \in Workers, NEW j, CopiesOK(j), obs' = obs, j.pc \notin Marks \cup {"add"},
         \A o \in Obs : j.copy[o] \in {Blank, obs[o], job[w].copy[o]}
  PROVE  Outcome(w, j)
BY DEF Outcome, Blank

LEMMA RestOutcome ==
  ASSUME NEW w \in Workers, NEW j, obs' = obs, j.pc \in {"idle", "trigger"}, j.todo = {},
         j.cur = NoOb, \A o \in Obs : j.copy[o] \in {Blank, job[w].copy[o]}
  PROVE  Outcome(w, j)
<1>1. CopiesOK(j)
  BY HandledAt DEF CopiesOK
<1> QED BY <1>1, ReadOutcome DEF Marks

LEMMA ListOutcome ==
  ASSUME NEW w \in Workers, NEW j, NEW S \in SUBSET Obs, obs' = obs, j.todo = S, j.cur = NoOb,
         j.copy = Snapshot(S), j.pc \in {"fulfil", "pass1", "passA", "passB"},
         \A o \in S : obs[o].status \in Awaited(j.pc)
  PROVE  Outcome(w, j)
<1>1. \A o \in Obs : j.copy[o] = IF o \in S THEN obs[o] ELSE Blank
  BY DEF Snapshot
<1>2. CopiesOK(j)
  BY <1>1, HandledAt, PolicyAssumption DEF CopiesOK
<1> QED BY <1>1, <1>2, ReadOutcome DEF Marks

LEMMA GotoOutcome ==
  ASSUME CopyInv, NEW w \in Workers, NEW pc, Goto(w, pc), obs' = obs,
         Awaited(pc) = Awaited(job[w].pc), Handled(job[w].pc) # {},
         Handled(job[w].pc) \subseteq Handled(pc), job[w].pc # "add",
         pc \notin Marks \cup {"add"}
  PROVE  Outcome(w, job'[w])
<1> DEFINE j == [job[w] EXCEPT !.pc = pc]
<1>1. job[w] \in Jobs /\ job'[w] = j /\ CopiesOK(job[w])
  BY DEF CopyInv, TypeOK, Goto
<1>2. j.pc = pc /\ j.todo = job[w].todo /\ j.cur = job[w].cur /\ j.copy = job[w].copy
  BY <1>1 DEF Jobs
<1> HIDE DEF j
<1>3. CopiesOK(j)
  BY <1>1, <1>2 DEF CopiesOK
<1> QED BY <1>1, <1>2, <1>3, ReadOutcome

LEMMA ReleaseOutcome ==
  ASSUME CopyInv, NEW w \in Workers, NEW pc \in {"pass1", "passA", "passB"}, Release(w, pc),
         obs' = obs, Awaited(pc) = Awaited(job[w].pc)
  PROVE  Outcome(w, job'[w])
<1> DEFINE j == Released(w, pc)
<1>1. TypeOK /\ job[w] \in Jobs /\ CopiesOK(job[w])
  BY DEF CopyInv, TypeOK
<1>2. job' = [job EXCEPT ![w] = j]
  BY <1>1, ReleaseJob
<1>3. \A o \in Obs : j.copy[o] = IF o = job[w].cur THEN Blank ELSE job[w].copy[o]
  BY <1>1 DEF Jobs, Released
<1>4. j.pc = pc /\ j.cur = NoOb /\ j.todo = job[w].todo /\ j.todo \subseteq Obs
  BY <1>1 DEF Jobs, Released
<1> HIDE DEF j
<1>5. job'[w] = j
  BY <1>1, <1>2 DEF TypeOK
<1>6. \A o \in j.todo : o # NoOb /\ o # job[w].cur
  BY <1>1, <1>4, PolicyAssumption DEF CopiesOK
<1>7. CopiesOK(j)
  BY <1>1, <1>3, <1>4, <1>6, HandledAt DEF CopiesOK
<1> QED BY <1>3, <1>4, <1>5, <1>7, ReadOutcome DEF Marks

\* The store's row after a write of a copy.
LEMMA WriteOutcome ==
  ASSUME TypeOK, NEW w \in Workers, NEW o \in Obs, NEW r \in Records, Update(o, r),
         viol' = viol, job[w].copy[o].status # "ABSENT",
         MayBecome(o, job[w].copy[o].status, r.status)
  PROVE  WritesBack(w, o)
BY UpdatedStatus DEF WritesBack

LEMMA TakeOutcome ==
  ASSUME CopyInv, NEW w \in Workers, NEW o \in Obs, NEW r \in Records, NEW pc \in Steps,
         Write(w, o, r, pc), viol' = viol, job[w].copy[o].status # "ABSENT",
         MayBecome(o, job[w].copy[o].status, r.status),
         Awaited(pc) = Awaited(job[w].pc), r.status \in Handled(pc), pc # "add",
         pc \in Marks => ViolationExists(o)
  PROVE  Outcome(w, job'[w])
<1> DEFINE j == [job[w] EXCEPT !.pc = pc, !.copy[o] = r, !.cur = o, !.todo = @ \ {o}]
<1>1. TypeOK /\ job[w] \in Jobs /\ CopiesOK(job[w])
  BY DEF CopyInv, TypeOK
<1>2. job' = [job EXCEPT ![w] = j] /\ Update(o, r)
  BY DEF Write
<1>3. /\ j.pc = pc /\ j.cur = o /\ j.todo = job[w].todo \ {o} /\ j.todo \subseteq Obs
      /\ \A p \in Obs : j.copy[p] = IF p = o THEN r ELSE job[w].copy[p]
  BY <1>1 DEF Jobs
<1> HIDE DEF j
<1>4. job'[w] = j
  BY <1>1, <1>2 DEF TypeOK
<1>5. CopiesOK(j)
  BY <1>1, <1>3 DEF CopiesOK
<1>6. WritesBack(w, o)
  BY <1>1, <1>2, WriteOutcome
<1> QED BY <1>3, <1>4, <1>5, <1>6 DEF Outcome

LEMMA StartOutcome ==
  ASSUME CopyInv, NEW w \in Workers, Start(w)
  PROVE  Outcome(w, job'[w])
<1>0. TypeOK
  BY DEF CopyInv
<1>1. ASSUME NEW e \in Entities, NEW a \in Actors,
             NEW t \in EventTypes, IngestEvent(w, e, a, t)
      PROVE  Outcome(w, job'[w])
  <2> DEFINE S == {o \in Obs : /\ EntityOf[o] = e /\ IsOpen(obs[o].status)
                               /\ t \in Pol(o).required}
             c == Snapshot(S)
             j == [Idle EXCEPT !.pc = "fulfil", !.at = now, !.todo = S, !.copy = c,
                               !.type = t, !.entity = e, !.actor = a]
  <2>1. job' = [job EXCEPT ![w] = j] /\ obs' = obs
    BY <1>1 DEF IngestEvent
  <2>2. S \in SUBSET Obs /\ \A o \in S : obs[o].status \in Awaited("fulfil")
    BY AwaitedAt DEF IsOpen, Overdue
  <2> HIDE DEF S
  <2>3. c = Snapshot(S)
    OBVIOUS
  <2> HIDE DEF c
  <2>4. j.pc = "fulfil" /\ j.cur = NoOb /\ j.todo = S /\ j.copy = c
    BY DEF Idle
  <2> HIDE DEF j
  <2>5. Outcome(w, j)
    BY <2>1, <2>2, <2>3, <2>4, ListOutcome
  <2>6. job'[w] = j
    BY <1>0, <2>1 DEF TypeOK
  <2> QED BY <2>5, <2>6
<1>2. CASE ScanStart(w)
  <2> DEFINE S == {o \in Obs : obs[o].status = "PENDING"}
             c == Snapshot(S)
             j == [Idle EXCEPT !.pc = "pass1", !.at = now, !.todo = S, !.copy = c]
  <2>1. job' = [job EXCEPT ![w] = j] /\ obs' = obs
    BY <1>2 DEF ScanStart, Begin
  <2>2. S \in SUBSET Obs /\ \A o \in S : obs[o].status \in Awaited("pass1")
    BY AwaitedAt DEF InPass1
  <2> HIDE DEF S
  <2>3. c = Snapshot(S)
    OBVIOUS
  <2> HIDE DEF c
  <2>4. j.pc = "pass1" /\ j.cur = NoOb /\ j.todo = S /\ j.copy = c
    BY DEF Idle
  <2> HIDE DEF j
  <2>5. Outcome(w, j)
    BY <2>1, <2>2, <2>3, <2>4, ListOutcome
  <2>6. job'[w] = j
    BY <1>0, <2>1 DEF TypeOK
  <2> QED BY <2>5, <2>6
<1>3. ASSUME NEW o \in Obs, NEW pc \in {"restore", "close", "cancel"}, Hold(w, o, pc),
             obs[o].status \in Handled(pc)
      PROVE  Outcome(w, job'[w])
  <2> DEFINE c == Snapshot({o})
             j == [Idle EXCEPT !.pc = pc, !.at = now, !.cur = o, !.copy = c]
  <2>1. job' = [job EXCEPT ![w] = j] /\ obs' = obs
    BY <1>3 DEF Hold
  <2>2. c[o] = obs[o] /\ \A p \in Obs : c[p] \in {Blank, obs[p]}
    BY DEF Snapshot
  <2> HIDE DEF c
  <2>3. j.pc = pc /\ j.cur = o /\ j.todo = {} /\ j.copy = c
    BY DEF Idle
  <2> HIDE DEF j
  <2>4. CopiesOK(j)
    BY <1>3, <2>2, <2>3 DEF CopiesOK
  <2>5. Outcome(w, j)
    BY <2>1, <2>2, <2>3, <2>4, ReadOutcome DEF Marks
  <2>6. job'[w] = j
    BY <1>0, <2>1 DEF TypeOK
  <2> QED BY <2>5, <2>6
<1>4. ASSUME NEW o \in Obs, RestoreRequest(w, o) \/ CloseRequest(w, o) \/ CancelRequest(w, o)
      PROVE  Outcome(w, job'[w])
  BY <1>3, <1>4 DEF RestoreRequest, CloseRequest, CancelRequest, CanRestore, IsOpen,
                    Handled, Overdue
<1>5. ASSUME NEW e \in Entities, NEW a \in Actors, NEW k \in Kinds, ToolTrigger(w, e, a, k)
      PROVE  Outcome(w, job'[w])
  <2>1. PICK o \in Obs : /\ \E b \in Selects(k, a) : ~Duplicates(e, k, b) /\ o \in Free(e, k, b)
                         /\ Unclaimed(o)
                         /\ job' = [job EXCEPT ![w] = Adding(o)]
    BY <1>5, Zenon DEF ToolTrigger, Adding
  <2> DEFINE j == Adding(o)
  <2>2. j.pc = "add" /\ j.cur = o /\ j.todo = {} /\ j.copy = [p \in Obs |-> Blank]
    BY DEF Idle, Adding
  <2> HIDE DEF j
  <2>3. job'[w] = j /\ obs' = obs
    BY <1>0, <1>5, <2>1 DEF TypeOK, ToolTrigger, j
  <2>4. obs[o].status = "ABSENT"
    BY <2>1, NotDuplicated
  <2>5. CopiesOK(j)
    BY <2>2 DEF CopiesOK, Handled
  <2>6. \A v \in Workers \ {w} : job[v].pc = "add" => job[v].cur # o
    BY <2>1 DEF Unclaimed
  <2>7. \A p \in Obs : j.copy[p].status = "ABSENT"
    BY <2>2 DEF Blank
  <2> QED BY <2>2, <2>3, <2>4, <2>5, <2>6, <2>7 DEF Outcome, Marks
<1> QED BY <1>1, <1>2, <1>4, <1>5 DEF Start

LEMMA DirectOutcome ==
  ASSUME CopyInv, NEW w \in Workers, DirectWrite(w)
  PROVE  Outcome(w, job'[w])
<1> DEFINE o == job[w].cur
           r == job[w].copy[o]
<1>0. /\ TypeOK /\ CopiesOK(job[w]) /\ job[w].pc \in {"restore", "close", "cancel"}
  BY DEF CopyInv, DirectWrite, RestoreObligation, CloseObligation, CancelObligation, At
<1>1. o \in Obs /\ r.status \in Handled(job[w].pc) /\ r.status # "ABSENT"
  BY <1>0, HandledAt DEF CopiesOK, Overdue
<1>2. r \in Records /\ job[w].at \in Times
  BY <1>0, <1>1, HeldType
<1>3. ASSUME NEW q \in Records, Commit(w, q), MayBecome(o, r.status, q.status)
      PROVE  Outcome(w, job'[w])
  <2>1. job'[w] = Idle /\ Update(o, q) /\ viol' = viol
    BY <1>0, <1>3 DEF Commit, Finish, TypeOK
  <2>2. WritesBack(w, o)
    BY <1>0, <1>1, <1>3, <2>1, WriteOutcome
  <2>3. Idle.pc = "idle" /\ Idle.todo = {} /\ Idle.cur = NoOb /\ \A p \in Obs : Idle.copy[p] = Blank
    BY DEF Idle
  <2>4. CopiesOK(Idle)
    BY <2>3, HandledAt DEF CopiesOK
  <2>5. \A p \in Obs : Idle.copy[p].status = "ABSENT"
    BY <2>3 DEF Blank
  <2> HIDE DEF o, r
  <2> QED BY <1>1, <2>1, <2>2, <2>3, <2>4, <2>5 DEF Outcome, Marks
<1>4. CASE RestoreObligation(w)
  <2> DEFINE q == [r EXCEPT !.status = "RESTORED", !.restoredAt = job[w].at]
  <2>1. q \in Records /\ q.status = "RESTORED"
    BY <1>2 DEF Records, ObStatus
  <2>2. Commit(w, q) /\ job[w].pc = "restore"
    BY <1>4 DEF RestoreObligation, Held, At
  <2> HIDE DEF q
  <2>3. MayBecome(o, r.status, q.status)
    BY <1>1, <2>1, <2>2 DEF MayBecome, Handled
  <2> QED BY <1>3, <2>1, <2>2, <2>3
<1>5. CASE CloseObligation(w)
  <2> DEFINE q == [r EXCEPT !.status = "FULFILLED", !.by = "closed"]
  <2>1. q \in Records /\ q.status = "FULFILLED"
    BY <1>2 DEF Records, ObStatus, Evidence
  <2>2. Commit(w, q) /\ job[w].pc = "close"
    BY <1>5 DEF CloseObligation, Held, At
  <2> HIDE DEF q
  <2>3. MayBecome(o, r.status, q.status)
    BY <1>1, <2>1, <2>2 DEF MayBecome, Handled
  <2> QED BY <1>3, <2>1, <2>2, <2>3
<1>6. CASE CancelObligation(w)
  <2> DEFINE q == [r EXCEPT !.status = "CANCELLED"]
  <2>1. q \in Records /\ q.status = "CANCELLED"
    BY <1>2 DEF Records, ObStatus
  <2>2. Commit(w, q) /\ job[w].pc = "cancel"
    BY <1>6 DEF CancelObligation, Held, At
  <2> HIDE DEF q
  <2>3. MayBecome(o, r.status, q.status)
    BY <1>1, <2>1, <2>2 DEF MayBecome, Handled
  <2> QED BY <1>3, <2>1, <2>2, <2>3
<1> QED BY <1>4, <1>5, <1>6 DEF DirectWrite

LEMMA IngestOutcome ==
  ASSUME CopyInv, NEW w \in Workers, Ingest(w)
  PROVE  Outcome(w, job'[w])
<1>0. TypeOK /\ job[w] \in Jobs /\ CopiesOK(job[w])
  BY DEF CopyInv, TypeOK
<1>1. ASSUME NEW o \in Obs, TryFulfil(w, o) PROVE Outcome(w, job'[w])
  <2> DEFINE r == [job[w].copy[o] EXCEPT !.status = "FULFILLED", !.by = job[w].type]
             j == [job[w] EXCEPT !.todo = @ \ {o}, !.copy[o] = Blank]
  <2>1. job[w].copy[o] \in Records /\ job[w].type \in Evidence
    BY <1>0, HeldType DEF Jobs, Evidence
  <2>2. r \in Records /\ r.status = "FULFILLED"
    BY <2>1 DEF Records, ObStatus
  <2>3. /\ job' = [job EXCEPT ![w] = j] /\ Update(o, r) /\ viol' = viol
        /\ job[w].pc = "fulfil" /\ o \in job[w].todo
    BY <1>1 DEF TryFulfil, At
  <2>4. /\ \A p \in Obs : j.copy[p] = IF p = o THEN Blank ELSE job[w].copy[p]
        /\ j.pc = "fulfil" /\ j.cur = job[w].cur /\ j.todo = job[w].todo \ {o}
        /\ j.todo \subseteq Obs
    BY <1>0, <2>3 DEF Jobs
  <2> HIDE DEF r, j
  <2>5. job[w].copy[o].status \in {"PENDING"} \cup Overdue
    BY <1>0, <2>3, AwaitedAt DEF CopiesOK
  <2>6. WritesBack(w, o)
    <3>1. MayBecome(o, job[w].copy[o].status, r.status)
      BY <2>2, <2>5 DEF MayBecome
    <3> QED BY <1>0, <2>2, <2>3, <2>5, <3>1, WriteOutcome DEF Overdue
  <2>7. CopiesOK(j)
    BY <1>0, <2>3, <2>4, HandledAt DEF CopiesOK
  <2>8. job'[w] = j
    BY <1>0, <2>3 DEF TypeOK
  <2>9. \A p \in Obs : j.copy[p].status # "ABSENT" => job[w].copy[p].status # "ABSENT"
    BY <2>4 DEF Blank
  <2> QED BY <2>4, <2>6, <2>7, <2>8, <2>9 DEF Outcome, Marks
<1>2. ASSUME NEW j, job' = [job EXCEPT ![w] = j], obs' = obs,
             job[w].pc \in {"fulfil", "trigger"}, j.pc \in {"idle", "trigger"},
             j.todo = {}, j.cur = NoOb, \A p \in Obs : j.copy[p] \in {Blank, job[w].copy[p]}
      PROVE  Outcome(w, job'[w])
  <2>1. Outcome(w, j)
    BY <1>2, RestOutcome
  <2>2. job'[w] = j
    BY <1>0, <1>2 DEF TypeOK
  <2> QED BY <2>1, <2>2
<1>3. job[w].pc \in {"fulfil", "trigger"} => job[w].cur = NoOb
  BY <1>0, HandledAt DEF CopiesOK
<1>4. job[w].pc \in {"trigger", "add"} => job[w].todo = {}
  BY <1>0, AwaitedAt DEF CopiesOK
<1>5. CASE FulfilDone(w)
  <2> DEFINE K == {k \in Kinds : /\ Policy[k].trigger = job[w].type
                                 /\ Policy[k].byRule => ent[job[w].entity].status # "UNKNOWN"}
             j == [job[w] EXCEPT !.pc = "trigger", !.kinds = K]
  <2>1. /\ job' = [job EXCEPT ![w] = j] /\ obs' = obs
        /\ job[w].pc = "fulfil" /\ job[w].todo = {}
    BY <1>5 DEF FulfilDone, At
  <2> HIDE DEF K
  <2>2. j.pc = "trigger" /\ j.todo = job[w].todo /\ j.cur = job[w].cur /\ j.copy = job[w].copy
    BY <1>0 DEF Jobs
  <2> HIDE DEF j
  <2> QED BY <1>2, <1>3, <2>1, <2>2
<1>6. ASSUME NEW k \in Kinds, DeduplicateSkip(w, k) PROVE Outcome(w, job'[w])
  <2> DEFINE j == [job[w] EXCEPT !.kinds = @ \ {k}]
  <2>1. job' = [job EXCEPT ![w] = j] /\ obs' = obs /\ job[w].pc = "trigger"
    BY <1>6 DEF DeduplicateSkip, At
  <2>2. j.pc = job[w].pc /\ j.todo = job[w].todo /\ j.cur = job[w].cur /\ j.copy = job[w].copy
    BY <1>0 DEF Jobs
  <2> HIDE DEF j
  <2> QED BY <1>2, <1>3, <1>4, <2>1, <2>2
<1>7. ASSUME NEW k \in Kinds, TriggerMatch(w, k) PROVE Outcome(w, job'[w])
  <2>1. PICK o \in Obs :
          /\ \E b \in Selects(k, job[w].actor) :
               ~Duplicates(job[w].entity, k, b) /\ o \in Free(job[w].entity, k, b)
          /\ Unclaimed(o)
          /\ job' = [job EXCEPT ![w].pc = "add", ![w].cur = o, ![w].kinds = @ \ {k}]
    BY <1>7, Zenon DEF TriggerMatch
  <2>2. obs[o].status = "ABSENT" /\ \A v \in Workers : job[v].pc = "add" => job[v].cur # o
    BY <2>1, NotDuplicated DEF Unclaimed
  <2> DEFINE j == [job[w] EXCEPT !.pc = "add", !.cur = o, !.kinds = @ \ {k}]
  <2>3. job' = [job EXCEPT ![w] = j] /\ obs' = obs /\ job[w].pc = "trigger"
    BY <1>7, <2>1 DEF TriggerMatch, At
  <2>4. j.pc = "add" /\ j.todo = job[w].todo /\ j.cur = o /\ j.copy = job[w].copy
    BY <1>0 DEF Jobs
  <2> HIDE DEF j
  <2>5. CopiesOK(j)
    BY <1>4, <2>2, <2>3, <2>4, HandledAt DEF CopiesOK
  <2>6. Outcome(w, j)
    BY <2>1, <2>2, <2>3, <2>4, <2>5 DEF Outcome, Marks
  <2>7. job'[w] = j
    BY <1>0, <2>3 DEF TypeOK
  <2> QED BY <2>6, <2>7
<1>8. CASE AddObligation(w)
  <2> DEFINE j == [job[w] EXCEPT !.pc = "trigger", !.cur = NoOb]
  <2>1. job' = [job EXCEPT ![w] = j] /\ job[w].pc = "add"
    BY <1>8 DEF AddObligation, At
  <2>2. j.pc = "trigger" /\ j.todo = job[w].todo /\ j.cur = NoOb /\ j.copy = job[w].copy
    BY <1>0 DEF Jobs
  <2> HIDE DEF j
  <2>3. CopiesOK(j)
    BY <1>4, <2>1, <2>2, HandledAt DEF CopiesOK
  <2>4. job'[w] = j
    BY <1>0, <2>1 DEF TypeOK
  <2> QED BY <1>8, <2>2, <2>3, <2>4 DEF Outcome, Marks
<1>9. CASE TriggerDone(w)
  <2>1. Idle.pc = "idle" /\ Idle.todo = {} /\ Idle.cur = NoOb /\ \A p \in Obs : Idle.copy[p] = Blank
    BY DEF Idle
  <2> QED BY <1>2, <1>9, <2>1 DEF TriggerDone, Finish, At
<1>10. ASSUME NEW k \in Kinds, NoActor(w, k) PROVE Outcome(w, job'[w])
  <2> DEFINE j == [job[w] EXCEPT !.kinds = @ \ {k}]
  <2>1. job' = [job EXCEPT ![w] = j] /\ obs' = obs /\ job[w].pc = "trigger"
    BY <1>10 DEF NoActor, At
  <2>2. j.pc = job[w].pc /\ j.todo = job[w].todo /\ j.cur = job[w].cur /\ j.copy = job[w].copy
    BY <1>0 DEF Jobs
  <2> HIDE DEF j
  <2> QED BY <1>2, <1>3, <1>4, <2>1, <2>2
<1> QED BY <1>1, <1>5, <1>6, <1>7, <1>8, <1>9, <1>10 DEF Ingest

LEMMA ScanOutcome ==
  ASSUME CopyInv, NEW w \in Workers, Scan(w)
  PROVE  Outcome(w, job'[w])
<1> DEFINE c == job[w].cur
<1>0. TypeOK /\ job[w] \in Jobs /\ CopiesOK(job[w])
  BY DEF CopyInv, TypeOK
<1>1. \A o \in job[w].todo : /\ o \in Obs /\ o # c
                             /\ job[w].copy[o].status \in Awaited(job[w].pc)
  BY <1>0 DEF CopiesOK, Jobs
<1>2. Handled(job[w].pc) # {} /\ job[w].pc # "add" =>
        c \in Obs /\ job[w].copy[c].status \in Handled(job[w].pc)
  BY <1>0 DEF CopiesOK
<1>3. ASSUME NEW o \in Obs, SendReminder(w, o) PROVE Outcome(w, job'[w])
  <2> DEFINE r == [job[w].copy[o] EXCEPT !.reminded = TRUE]
             j == [job[w] EXCEPT !.copy[o] = r]
  <2>1. r \in Records /\ r.status = job[w].copy[o].status
    BY <1>0, HeldType DEF Records
  <2>2. /\ job' = [job EXCEPT ![w] = j] /\ Update(o, r) /\ viol' = viol
        /\ job[w].pc = "pass1" /\ o \in job[w].todo
    BY <1>3 DEF SendReminder, At
  <2> HIDE DEF r
  <2>3. /\ \A p \in Obs : j.copy[p] = IF p = o THEN r ELSE job[w].copy[p]
        /\ j.pc = "pass1" /\ j.cur = c /\ j.todo = job[w].todo
    BY <1>0, <2>2 DEF Jobs
  <2> HIDE DEF j
  <2>4. job[w].copy[o].status = "PENDING" /\ c = NoOb
    BY <1>0, <1>1, <2>2, AwaitedAt, HandledAt DEF CopiesOK, InPass1
  <2>5. WritesBack(w, o)
    <3>1. MayBecome(o, job[w].copy[o].status, r.status)
      BY <2>1, <2>4 DEF MayBecome, Terminal
    <3> QED BY <1>0, <2>1, <2>2, <2>4, <3>1, WriteOutcome
  <2>6. CopiesOK(j)
    BY <1>1, <2>1, <2>2, <2>3, <2>4, HandledAt DEF CopiesOK
  <2>7. job'[w] = j
    BY <1>0, <2>2 DEF TypeOK
  <2> QED BY <2>1, <2>3, <2>5, <2>6, <2>7 DEF Outcome, Marks
<1>4. ASSUME NEW o \in Obs, SoftOverdue(w, o) PROVE Outcome(w, job'[w])
  <2> DEFINE r == [job[w].copy[o] EXCEPT !.status = "SOFT_OVERDUE", !.softAt = job[w].at]
  <2>1. r \in Records /\ r.status = "SOFT_OVERDUE"
    BY <1>0, HeldType DEF Records, ObStatus
  <2>2. /\ Write(w, o, r, "softCheck") /\ viol' = viol
        /\ job[w].pc = "pass1" /\ o \in job[w].todo
    BY <1>4 DEF SoftOverdue, At
  <2> HIDE DEF r
  <2>3. job[w].copy[o].status = "PENDING"
    BY <1>1, <2>2, AwaitedAt DEF InPass1
  <2>4. MayBecome(o, job[w].copy[o].status, r.status)
    BY <2>1, <2>3 DEF MayBecome
  <2> QED BY <2>1, <2>2, <2>3, <2>4, AwaitedAt, HandledAt, TakeOutcome DEF InPass1, Steps, Marks
<1>5. ASSUME NEW o \in Obs, HardOverdue(w, o) PROVE Outcome(w, job'[w])
  <2> DEFINE r == [job[w].copy[o] EXCEPT !.status = "HARD_OVERDUE",
                     !.hardAt = job[w].at, !.sev = Bumped(@)]
  <2>1. r \in Records /\ r.status = "HARD_OVERDUE"
    BY <1>0, HeldType DEF Records, ObStatus, Bumped, Severities
  <2>2. /\ Write(w, o, r, "hardCheck") /\ viol' = viol
        /\ job[w].pc = "passA" /\ o \in job[w].todo
    BY <1>5 DEF HardOverdue, At
  <2> HIDE DEF r
  <2>3. job[w].copy[o].status = "SOFT_OVERDUE"
    BY <1>1, <2>2, AwaitedAt DEF InPassA
  <2>4. MayBecome(o, job[w].copy[o].status, r.status)
    BY <2>1, <2>3 DEF MayBecome
  <2> QED BY <2>1, <2>2, <2>3, <2>4, AwaitedAt, HandledAt, TakeOutcome DEF InPassA, Steps, Marks
<1>6. ASSUME NEW o \in Obs, NEW pc \in Marks, Escalate(w, o, pc), viol' = viol,
             job[w].copy[o].status \in Overdue, Awaited(pc) = Awaited(job[w].pc)
      PROVE  Outcome(w, job'[w])
  <2> DEFINE r == [job[w].copy[o] EXCEPT !.status = "ESCALATED", !.escAt = job[w].at]
  <2>1. r \in Records /\ r.status = "ESCALATED"
    BY <1>0, HeldType DEF Records, ObStatus
  <2>2. Write(w, o, r, pc) /\ ViolationExists(o)
    BY <1>6 DEF Escalate
  <2> HIDE DEF r
  <2>3. MayBecome(o, job[w].copy[o].status, r.status)
    BY <1>6, <2>1, <2>2 DEF MayBecome
  <2> QED BY <1>6, <2>1, <2>2, <2>3, HandledAt, TakeOutcome DEF Steps, Marks, Overdue
<1>7. CASE HardEscalate(w)
  <2>1. job[w].pc = "hardEscalate" /\ Escalate(w, c, "hardMark") /\ viol' = viol
    BY <1>7 DEF HardEscalate, At
  <2>2. c \in Obs /\ job[w].copy[c].status \in Overdue
    BY <1>2, <2>1, HandledAt DEF Overdue
  <2>3. Awaited("hardMark") = Awaited(job[w].pc)
    BY <2>1, AwaitedAt DEF InPassA
  <2> QED BY <1>6, <2>1, <2>2, <2>3 DEF Marks
<1>8. ASSUME NEW o \in Obs, LateEscalate(w, o) PROVE Outcome(w, job'[w])
  <2>1. job[w].copy[o].status = "SOFT_OVERDUE" /\ job[w].pc = "passB"
    BY <1>1, <1>8, AwaitedAt DEF LateEscalate, At, InPassB
  <2> QED BY <1>6, <1>8, <2>1, AwaitedAt DEF LateEscalate, InPassB, Overdue, Marks
<1>9. CASE SoftCheck(w) \/ SoftReport(w)
  <2>1. PICK pc \in {"softReport", "softEntity"} : Goto(w, pc)
    BY <1>9 DEF SoftCheck, SoftReport
  <2> QED BY <1>9, <2>1, AwaitedAt, HandledAt, GotoOutcome
          DEF SoftCheck, SoftReport, At, InPass1, Marks
<1>10. CASE HardCheck(w) \/ HardReport(w) \/ HardNoEscalation(w) \/ HardMark(w)
  <2>1. PICK pc \in {"hardReport", "hardEscalate", "hardEntity"} :
          Goto(w, pc) /\ (pc = "hardReport" => job[w].pc = "hardCheck")
                      /\ (pc = "hardEscalate" => job[w].pc \in {"hardCheck", "hardReport"})
    BY <1>10 DEF HardCheck, HardReport, HardNoEscalation, HardMark, At
  <2>2. /\ obs' = obs
        /\ job[w].pc \in {"hardCheck", "hardReport", "hardEscalate", "hardMark"}
    BY <1>10 DEF HardCheck, HardReport, HardNoEscalation, HardMark, At
  <2>3. Awaited(pc) = Awaited(job[w].pc) /\ Handled(job[w].pc) # {}
        /\ Handled(job[w].pc) \subseteq Handled(pc)
    BY <2>1, <2>2, AwaitedAt, HandledAt DEF InPassA
  <2> QED BY <2>1, <2>2, <2>3, GotoOutcome DEF Marks
<1>11. CASE SoftEntity(w) \/ HardEntity(w) \/ LateMark(w)
  <2>1. CASE SoftEntity(w)
    BY <2>1, AwaitedAt, ReleaseOutcome DEF SoftEntity, At, InPass1
  <2>2. CASE HardEntity(w)
    BY <2>2, AwaitedAt, ReleaseOutcome DEF HardEntity, At, InPassA
  <2>3. CASE LateMark(w)
    BY <2>3, AwaitedAt, ReleaseOutcome DEF LateMark, At, InPassB
  <2> QED BY <1>11, <2>1, <2>2, <2>3
<1>12. ASSUME NEW S \in SUBSET Obs, NEW pc \in {"passA", "passB"}, obs' = obs,
              job[w].pc \in {"pass1", "passA"}, NEW found, found = Snapshot(S),
              job' = [job EXCEPT ![w].pc = pc, ![w].todo = S, ![w].copy = found],
              \A o \in S : obs[o].status = "SOFT_OVERDUE"
       PROVE  Outcome(w, job'[w])
  <2> DEFINE j == [job[w] EXCEPT !.pc = pc, !.todo = S, !.copy = found]
  <2>1. job' = [job EXCEPT ![w] = j]
    BY <1>0, <1>12 DEF TypeOK
  <2>2. j.pc = pc /\ j.todo = S /\ j.copy = found /\ j.cur = c
    BY <1>0 DEF Jobs
  <2> HIDE DEF j
  <2>3. c = NoOb
    BY <1>0, <1>12, HandledAt DEF CopiesOK
  <2>4. \A o \in S : obs[o].status \in Awaited(j.pc)
    BY <1>12, <2>2, AwaitedAt DEF InPassA, InPassB
  <2>5. Outcome(w, j)
    BY <1>12, <2>2, <2>3, <2>4, ListOutcome
  <2>6. job'[w] = j
    BY <1>0, <2>1 DEF TypeOK
  <2> QED BY <2>5, <2>6
<1>13. CASE PassOneDone(w)
  <2> DEFINE S == PassADue(w)
             found == Snapshot(S)
  <2>1. S \in SUBSET Obs /\ \A o \in S : obs[o].status = "SOFT_OVERDUE"
    BY DEF PassADue
  <2>2. /\ job[w].pc \in {"pass1", "passA"} /\ obs' = obs
        /\ job' = [job EXCEPT ![w].pc = "passA", ![w].todo = S, ![w].copy = found]
    BY <1>13 DEF PassOneDone, At
  <2> HIDE DEF S
  <2>3. found = Snapshot(S)
    OBVIOUS
  <2> HIDE DEF found
  <2> QED BY <1>12, <2>1, <2>2, <2>3, Zenon
<1>14. CASE PassADone(w)
  <2> DEFINE S == PassBDue(w)
             found == Snapshot(S)
  <2>1. S \in SUBSET Obs /\ \A o \in S : obs[o].status = "SOFT_OVERDUE"
    BY DEF PassBDue
  <2>2. /\ job[w].pc \in {"pass1", "passA"} /\ obs' = obs
        /\ job' = [job EXCEPT ![w].pc = "passB", ![w].todo = S, ![w].copy = found]
    BY <1>14 DEF PassADone, At
  <2> HIDE DEF S
  <2>3. found = Snapshot(S)
    OBVIOUS
  <2> HIDE DEF found
  <2> QED BY <1>12, <2>1, <2>2, <2>3, Zenon
<1>15. CASE ScanDone(w)
  <2>1. job'[w] = Idle /\ obs' = obs
    BY <1>0, <1>15 DEF ScanDone, Finish, TypeOK
  <2>2. Idle.pc = "idle" /\ Idle.todo = {} /\ Idle.cur = NoOb /\ \A p \in Obs : Idle.copy[p] = Blank
    BY DEF Idle
  <2> QED BY <2>1, <2>2, RestOutcome
<1> QED BY <1>3, <1>4, <1>5, <1>7, <1>8, <1>9, <1>10, <1>11, <1>13, <1>14, <1>15 DEF Scan

LEMMA StartReads ==
  ASSUME NEW w \in Workers, Start(w)
  PROVE  obs' = obs /\ viol' = viol
<1>1. ASSUME NEW e \in Entities, NEW a \in Actors,
             \/ \E t \in EventTypes : IngestEvent(w, e, a, t)
             \/ \E k \in Kinds : ToolTrigger(w, e, a, k)
      PROVE  obs' = obs /\ viol' = viol
  BY <1>1, Zenon DEF IngestEvent, ToolTrigger
<1>2. CASE ScanStart(w)
  BY <1>2, Zenon DEF ScanStart
<1>3. ASSUME NEW o \in Obs, RestoreRequest(w, o) \/ CloseRequest(w, o) \/ CancelRequest(w, o)
      PROVE  obs' = obs /\ viol' = viol
  BY <1>3, Zenon DEF RestoreRequest, CloseRequest, CancelRequest, Hold
<1> QED BY <1>1, <1>2, <1>3 DEF Start

\* Only these steps touch the violations.
Judges(w) == SoftReport(w) \/ HardReport(w) \/ HardMark(w) \/ LateMark(w)

LEMMA OthersDoNotJudge ==
  ASSUME NEW w \in Workers, Continue(w), ~Judges(w)
  PROVE  viol' = viol
<1>1. CASE Ingest(w)
  <2>1. ASSUME NEW o \in Obs, TryFulfil(w, o) PROVE viol' = viol
    BY <2>1, Zenon DEF TryFulfil
  <2>2. ASSUME NEW k \in Kinds, DeduplicateSkip(w, k) \/ NoActor(w, k) \/ TriggerMatch(w, k)
        PROVE  viol' = viol
    BY <2>2, Zenon DEF DeduplicateSkip, NoActor, TriggerMatch
  <2>3. CASE FulfilDone(w) \/ AddObligation(w) \/ TriggerDone(w)
    BY <2>3, Zenon DEF FulfilDone, AddObligation, TriggerDone
  <2> QED BY <1>1, <2>1, <2>2, <2>3 DEF Ingest
<1>2. CASE DirectWrite(w)
  BY <1>2 DEF DirectWrite, RestoreObligation, CloseObligation, CancelObligation, Commit
<1>3. CASE Scan(w)
  <2>1. ASSUME NEW o \in Obs, SendReminder(w, o) \/ SoftOverdue(w, o) \/ HardOverdue(w, o)
                              \/ LateEscalate(w, o)
        PROVE  viol' = viol
    BY <2>1, Zenon DEF SendReminder, SoftOverdue, HardOverdue, LateEscalate
  <2>2. CASE SoftCheck(w) \/ SoftEntity(w) \/ PassOneDone(w) \/ HardCheck(w) \/ HardEscalate(w)
    BY <2>2, Zenon DEF SoftCheck, SoftEntity, PassOneDone, HardCheck, HardEscalate
  <2>3. CASE HardNoEscalation(w) \/ HardEntity(w) \/ PassADone(w) \/ ScanDone(w)
    BY <2>3, Zenon DEF HardNoEscalation, HardEntity, PassADone, ScanDone
  <2> QED BY <1>3, <2>1, <2>2, <2>3 DEF Scan, Judges
<1> QED BY <1>1, <1>2, <1>3 DEF Continue

\* A violation is never taken back.
LEMMA ReportsStay ==
  ASSUME TypeOK, NEW w \in Workers, Judges(w), NEW o \in Obs, ViolationExists(o)
  PROVE  ViolationExists(o)'
<1> DEFINE c == job[w].cur
<1>1. /\ viol[o] \in [soft: Nat, hard: Nat, escalated: BOOLEAN]
      /\ viol \in [Obs -> ViolationRecords]
  BY DEF TypeOK, ViolationRecords
<1>2. \/ viol' = [viol EXCEPT ![c].soft = @ + 1]
      \/ viol' = [viol EXCEPT ![c].hard = @ + 1]
      \/ viol' = [viol EXCEPT ![c].escalated = TRUE]
  BY DEF Judges, SoftReport, HardReport, HardMark, LateMark, MarkEscalated
<1> HIDE DEF c
<1>3. CASE c # o
  <2>1. viol'[o] = viol[o]
    BY <1>1, <1>2, <1>3
  <2> QED BY <2>1 DEF ViolationExists
<1>4. CASE c = o
  <2>1. \/ viol'[o] = [viol[o] EXCEPT !.soft = @ + 1]
        \/ viol'[o] = [viol[o] EXCEPT !.hard = @ + 1]
        \/ viol'[o] = [viol[o] EXCEPT !.escalated = TRUE]
    BY <1>1, <1>2, <1>4
  <2>2. viol'[o].soft \in {viol[o].soft, viol[o].soft + 1}
        /\ viol'[o].hard \in {viol[o].hard, viol[o].hard + 1}
    BY <1>1, <2>1
  <2> QED BY <1>1, <2>2 DEF ViolationExists
<1> QED BY <1>3, <1>4

\* A step of one worker: what it makes of its job, and nothing of the others'.
LEMMA WorkerOutcome ==
  ASSUME CopyInv, NEW w \in Workers, Start(w) \/ Continue(w)
  PROVE  Outcome(w, job'[w]) /\ \A v \in Workers \ {w} : job'[v] = job[v]
<1>0. TypeOK
  BY DEF CopyInv
<1>1. CASE Start(w)
  BY <1>0, <1>1, StartOutcome, StartQuiet
<1>2. CASE Ingest(w)
  BY <1>0, <1>2, IngestOutcome, IngestQuiet
<1>3. CASE Scan(w)
  BY <1>0, <1>3, ScanOutcome, ScanQuiet
<1>4. CASE DirectWrite(w)
  <2>1. Finish(w) /\ viol' = viol
    BY <1>4 DEF DirectWrite, RestoreObligation, CloseObligation, CancelObligation, Commit
  <2> QED BY <1>0, <1>4, <2>1, DirectOutcome, FinishQuiet
<1> QED BY <1>1, <1>2, <1>3, <1>4 DEF Continue

LEMMA CopyNext == CopyInv /\ [Next]_vars => CopyInv'
<1> SUFFICES ASSUME CopyInv, [Next]_vars PROVE CopyInv'
  OBVIOUS
<1>0. TypeOK /\ TypeOK'
  BY TypeStep DEF CopyInv
<1>1. CASE UNCHANGED <<obs, viol, job>>
  BY <1>0, <1>1 DEF CopyInv, CopiesOK, ViolationExists
<1>2. ASSUME NEW w \in Workers, Start(w) \/ Continue(w) PROVE CopyInv'
  <2>1. Outcome(w, job'[w]) /\ \A v \in Workers \ {w} : job'[v] = job[v]
    BY <1>2, WorkerOutcome
  <2>2. ASSUME NEW o \in Obs, ViolationExists(o) PROVE ViolationExists(o)'
    <3>1. CASE viol' = viol
      BY <2>2, <3>1 DEF ViolationExists
    <3> QED BY <1>0, <1>2, <2>2, <3>1, StartReads, OthersDoNotJudge, ReportsStay
  <2> QED BY <1>0, <2>1, <2>2, OutcomeKeeps
<1>3. ASSUME NEW w \in Workers, NEW o \in Obs, StoreCancel(w, o) PROVE CopyInv'
  <2>1. /\ \A p \in Obs : obs[p].status # "ABSENT" => obs'[p].status # "ABSENT"
        /\ \A p \in Obs : obs[p].status = "ABSENT" => obs'[p] = obs[p]
        /\ job' = job /\ viol' = viol
    BY <1>0, <1>3, VoidedStatus
  <2>2. \A v \in Workers : job[v].pc = "add" => job[v].cur \in Obs
    BY HandledAt DEF CopyInv, CopiesOK
  <2>3. \A v \in Workers : CopiesOK(job'[v])
    BY <2>1 DEF CopyInv
  <2>4. \A v \in Workers, p \in Obs :
          job'[v].copy[p].status # "ABSENT" => obs'[p].status # "ABSENT"
    BY <2>1 DEF CopyInv
  <2>5. \A v \in Workers : job'[v].pc = "add" => obs'[job'[v].cur].status = "ABSENT"
    BY <2>1, <2>2 DEF CopyInv
  <2>6. \A u, v \in Workers :
          job'[u].pc = "add" /\ job'[v].pc = "add" /\ job'[u].cur = job'[v].cur => u = v
    BY <2>1 DEF CopyInv
  <2>7. \A v \in Workers : (job[v].pc \in Marks => ViolationExists(job[v].cur))'
    BY <2>1 DEF CopyInv, ViolationExists
  <2> QED BY <1>0, <2>3, <2>4, <2>5, <2>6, <2>7 DEF CopyInv
<1> QED BY <1>1, <1>2, <1>3
        DEF Next, Tick, EntityChange, RegisterEntity, UpdateEntityStatus, vars

LEMMA CopyInvariant == Spec => []CopyInv
<1>1. Init => CopyInv
  <2> SUFFICES ASSUME Init PROVE CopyInv
    OBVIOUS
  <2>1. TypeOK
    BY BlankType, IdleType, PolicyAssumption
       DEF Init, TypeOK, ViolationRecords, EntityStatuses, Times, NoTime
  <2>2. \A w \in Workers : /\ job[w].pc = "idle" /\ job[w].todo = {} /\ job[w].cur = NoOb
                           /\ \A o \in Obs : job[w].copy[o].status = "ABSENT"
    BY DEF Init, Idle, Blank
  <2> QED BY <2>1, <2>2, HandledAt DEF CopyInv, CopiesOK, Marks
<1> QED BY <1>1, CopyNext, PTL DEF Spec

-------------------------------------------------------------------------------
\* w's copy of o and the row no longer agree.
Stale(w, o) == job[w].copy[o].status # obs[o].status

\* w reports on a row that has moved on, or what another worker has reported
\* since w looked.
LateReport(w) ==
  LET o == job[w].cur IN
    /\ Judges(w)
    /\ \/ Stale(w, o)
       \/ SoftReport(w) /\ ViolationExists(o)
       \/ HardReport(w) /\ HardViolationExists(o)

InLifecycle == [Lifecycle!LifecycleNext]_(Lifecycle!lifecycle)

Departs ==
  \E w \in Workers :
    /\ Continue(w)
    /\ LateReport(w) \/ \E o \in Obs : Stale(w, o) /\ WritesBack(w, o)

OverwritesOnlyWhenStale ==
  \A o \in Obs : Terminal(obs[o].status) /\ obs'[o] # obs[o] =>
    \E w \in Workers :
      \/ Continue(w) /\ Stale(w, o) /\ WritesBack(w, o)
      \/ StoreCancel(w, o)

(* The engine, with any number of workers, does what the lifecycle allows       *)
(* except where a worker writes back a copy that is no longer the row, or       *)
(* reports what is no longer so.                                                *)
DepartsOnlyWhenStale == [][InLifecycle \/ Departs]_vars

(* Nothing but the write of a copy read before it became so, and the store's    *)
(* own cancellation, changes a FULFILLED, CANCELLED or RESTORED row.            *)
TerminalChangesOnlyWhenStale == [][OverwritesOnlyWhenStale]_vars

LEMMA ReportInLifecycle ==
  ASSUME CopyInv, NEW w \in Workers, Judges(w), ~LateReport(w), obs' = obs
  PROVE  InLifecycle
<1> DEFINE c == job[w].cur
<1>1. /\ job[w] \in Jobs /\ viol \in [Obs -> ViolationRecords] /\ CopiesOK(job[w])
      /\ job[w].pc \in Marks => ViolationExists(c)
  BY DEF CopyInv, TypeOK
<1>2. ASSUME NEW pc, job[w].pc = pc, Handled(pc) # {}, pc # "add"
      PROVE  /\ c \in Obs /\ obs[c].status \in Handled(pc)
             /\ viol[c] \in [soft: Nat, hard: Nat, escalated: BOOLEAN]
  <2>1. c \in Obs /\ job[w].copy[c].status \in Handled(pc)
    BY <1>1, <1>2 DEF CopiesOK
  <2>2. job[w].copy[c].status = obs[c].status
    BY DEF LateReport, Stale
  <2> QED BY <1>1, <2>1, <2>2 DEF ViolationRecords
<1> USE DEF InLifecycle, Lifecycle!LifecycleNext
<1>3. CASE SoftReport(w)
  <2>1. c \in Obs /\ obs[c].status = "SOFT_OVERDUE" /\ viol[c].soft \in Nat /\ viol[c].hard \in Nat
    BY <1>2, <1>3, HandledAt DEF SoftReport, At
  <2>2. viol[c].soft = 0 /\ viol[c].hard = 0
    BY <1>3, <2>1 DEF LateReport, ViolationExists
  <2>3. viol' = [viol EXCEPT ![c].soft = 1]
    BY <1>1, <1>3, <2>1, <2>2 DEF SoftReport
  <2>4. Lifecycle!Raise(c)
    BY <2>1, <2>2, <2>3 DEF Lifecycle!Raise, Lifecycle!RaiseSoft, Lifecycle!Reported
  <2> QED BY <2>1, <2>4
<1>4. CASE HardReport(w)
  <2>1. c \in Obs /\ obs[c].status = "HARD_OVERDUE" /\ viol[c].hard \in Nat
    BY <1>2, <1>4, HandledAt DEF HardReport, At
  <2>2. viol[c].hard = 0
    BY <1>4, <2>1 DEF LateReport, HardViolationExists
  <2>3. viol' = [viol EXCEPT ![c].hard = 1]
    BY <1>1, <1>4, <2>1, <2>2 DEF HardReport
  <2>4. Lifecycle!Raise(c)
    BY <2>1, <2>2, <2>3 DEF Lifecycle!Raise, Lifecycle!RaiseHard
  <2> QED BY <2>1, <2>4
<1>5. CASE HardMark(w) \/ LateMark(w)
  <2>1. job[w].pc \in Marks /\ MarkEscalated(c)
    BY <1>5 DEF HardMark, LateMark, At, Marks
  <2>2. c \in Obs /\ obs[c].status = "ESCALATED" /\ ViolationExists(c)
    BY <1>1, <1>2, <2>1, HandledAt DEF Marks
  <2>3. Lifecycle!MarkEscalated(c)
    BY <2>1, <2>2 DEF MarkEscalated, ViolationExists, Lifecycle!MarkEscalated,
                      Lifecycle!Reported
  <2> QED BY <2>2, <2>3
<1> QED BY <1>3, <1>4, <1>5 DEF Judges

LEMMA WriteInLifecycle ==
  ASSUME CopyInv, NEW w \in Workers, NEW o \in Obs, WritesBack(w, o), ~Stale(w, o)
  PROVE  InLifecycle
<1> DEFINE to == obs'[o].status
<1>1. \A p \in Obs : obs'[p].status = IF p = o THEN to ELSE obs[p].status
  BY DEF WritesBack
<1>2. MayBecome(o, obs[o].status, to) /\ viol' = viol /\ TypeOK
  BY DEF WritesBack, Stale, CopyInv
<1> HIDE DEF to
<1> QED BY <1>1, <1>2, MoveStep DEF InLifecycle

\* An id is added where there is no row.
LEMMA AddInLifecycle ==
  ASSUME CopyInv, NEW w \in Workers, AddObligation(w)
  PROVE  InLifecycle /\ \A p \in Obs : obs'[p] # obs[p] => obs[p].status = "ABSENT"
<1> DEFINE c == job[w].cur
<1>1. TypeOK /\ job[w].pc = "add" /\ c \in Obs /\ obs[c].status = "ABSENT" /\ viol' = viol
  BY HandledAt DEF AddObligation, At, CopyInv, CopiesOK
<1>2. /\ \A p \in Obs : obs'[p].status = IF p = c THEN "PENDING" ELSE obs[p].status
      /\ \A p \in Obs \ {c} : obs'[p] = obs[p]
  BY <1>1 DEF AddObligation, Fresh, Blank, TypeOK
<1> HIDE DEF c
<1> QED BY <1>1, <1>2, MoveStep DEF InLifecycle

LEMMA OverwriteStale ==
  ASSUME CopyInv, NEW w \in Workers, NEW o \in Obs, WritesBack(w, o), Terminal(obs[o].status)
  PROVE  Stale(w, o)
BY DEF WritesBack, MayBecome, Stale, Terminal, Overdue

LEMMA EveryStep ==
  ASSUME CopyInv, [Next]_vars
  PROVE  (InLifecycle \/ Departs) /\ OverwritesOnlyWhenStale
<1>1. CASE obs' = obs /\ viol' = viol
  BY <1>1 DEF InLifecycle, Lifecycle!lifecycle, OverwritesOnlyWhenStale
<1>2. ASSUME NEW w \in Workers, Continue(w)
      PROVE  (InLifecycle \/ Departs) /\ OverwritesOnlyWhenStale
  <2>1. Outcome(w, job'[w])
    BY <1>2, WorkerOutcome
  <2>2. CASE obs' = obs
    <3>1. OverwritesOnlyWhenStale
      BY <2>2 DEF OverwritesOnlyWhenStale
    <3>2. CASE ~Judges(w)
      BY <1>1, <1>2, <2>2, <3>2, OthersDoNotJudge
    <3>3. CASE Judges(w) /\ ~LateReport(w)
      BY <2>2, <3>1, <3>3, ReportInLifecycle
    <3>4. CASE LateReport(w)
      BY <1>2, <3>1, <3>4 DEF Departs
    <3> QED BY <3>2, <3>3, <3>4
  <2>3. ASSUME NEW o \in Obs, WritesBack(w, o)
        PROVE  (InLifecycle \/ Departs) /\ OverwritesOnlyWhenStale
    <3>1. InLifecycle \/ Departs
      BY <1>2, <2>3, WriteInLifecycle DEF Departs
    <3>2. ASSUME NEW p \in Obs, Terminal(obs[p].status), obs'[p] # obs[p]
          PROVE  Stale(w, p) /\ WritesBack(w, p)
      <4>1. p = o
        BY <2>3, <3>2 DEF WritesBack
      <4> QED BY <2>3, <3>2, <4>1, OverwriteStale
    <3> QED BY <1>2, <3>1, <3>2 DEF OverwritesOnlyWhenStale
  <2>4. CASE AddObligation(w)
    BY <2>4, AddInLifecycle DEF OverwritesOnlyWhenStale, Terminal
  <2> QED BY <2>1, <2>2, <2>3, <2>4 DEF Outcome
<1>3. ASSUME NEW w \in Workers, Start(w) PROVE obs' = obs /\ viol' = viol
  BY <1>3, StartReads
<1>4. ASSUME NEW w \in Workers, NEW o \in Obs, StoreCancel(w, o)
      PROVE  (InLifecycle \/ Departs) /\ OverwritesOnlyWhenStale
  <2>1. /\ \A p \in Obs : obs'[p].status = IF p = o THEN "CANCELLED" ELSE obs[p].status
        /\ \A p \in Obs \ {o} : obs'[p] = obs[p]
        /\ obs[o].status # "ABSENT" /\ viol' = viol /\ TypeOK
    BY <1>4, VoidedStatus DEF CopyInv
  <2>2. InLifecycle
    BY <2>1, MoveStep DEF InLifecycle
  <2>3. OverwritesOnlyWhenStale
    BY <1>4, <2>1 DEF OverwritesOnlyWhenStale
  <2> QED BY <2>2, <2>3
<1> QED BY <1>1, <1>2, <1>3, <1>4
        DEF Next, Tick, EntityChange, RegisterEntity, UpdateEntityStatus, vars

(* With any number of workers: a step the lifecycle does not allow is the write *)
(* of a copy that the store has outrun, or a report on one.                     *)
THEOREM DeparturesAreStale == Spec => DepartsOnlyWhenStale
<1>1. CopyInv /\ [Next]_vars => [InLifecycle \/ Departs]_vars
  BY EveryStep
<1> QED BY <1>1, CopyInvariant, PTL DEF Spec, DepartsOnlyWhenStale

(* With any number of workers: a terminal row is lost to a stale copy, or to    *)
(* the store's own cancellation, only.                                          *)
THEOREM TerminalLostOnlyToStale == Spec => TerminalChangesOnlyWhenStale
<1>1. CopyInv /\ [Next]_vars => [OverwritesOnlyWhenStale]_vars
  BY EveryStep
<1> QED BY <1>1, CopyInvariant, PTL DEF Spec, TerminalChangesOnlyWhenStale
===============================================================================
