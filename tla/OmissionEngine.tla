---------------------------- MODULE OmissionEngine ----------------------------
(* The omission engine of ystar/governance: obligations that events create and  *)
(* fulfil, and the aging scan that turns the overdue ones into soft and hard    *)
(* violations and escalations.  The obligations live in a store; every store    *)
(* call is a transaction of its own (omission_store.py), so an operation is a   *)
(* sequence of steps and an action here goes from one store call to the next.   *)
(* A worker is a thread or process that runs engine operations one at a time:   *)
(* the hook's process, the background OmissionScanner thread, a second hook.    *)
(* With one worker no operation ever meets another one half-done.               *)
EXTENDS Integers, FiniteSets

CONSTANTS
  Obs,              \* pool of obligation ids (uuids in the code)
  Entities,         \* tracked entities
  Actors,           \* agents that act, or own and initiate entities
  EventTypes,       \* governance event types
  Kinds,            \* obligation types, one OmissionRule or ObligationTrigger each
  Policy,           \* Kinds -> the rule's timing and escalation policy
  KindOf, EntityOf, \* Obs -> the kind and entity the id is used for
  ActorOf,          \* Obs -> the actor it holds responsible
  NoOb,             \* "no obligation in hand"
  Workers,          \* threads or processes running engine operations
  ActiveWindow,     \* _is_entity_active's window_secs
  PersistSeverity,  \* TRUE: InMemoryOmissionStore, FALSE: the SQLite OmissionStore
  MaxTime           \* bound on the clock

\* A timestamp or a policy field that is None.
NoTime == -1

\* HIGH is both HIGH and CRITICAL, which every check treats alike.
Severities == {"LOW", "MEDIUM", "HIGH"}

\* named: whom the rule or trigger names, {} for the actor of the event.  A rule
\* names the owner or the initiator of the entity, a trigger one fixed agent.
PolicyRecords ==
  [trigger: EventTypes, required: SUBSET EventTypes, dueIn: Nat, grace: Nat,
   hard: Nat, esc: Nat \cup {NoTime}, remind: Nat \cup {NoTime},
   sev: Severities, dedup: BOOLEAN, byRule: BOOLEAN, named: SUBSET Actors]

ASSUME PolicyAssumption ==
  /\ Policy \in [Kinds -> PolicyRecords]
  /\ KindOf \in [Obs -> Kinds]
  /\ EntityOf \in [Obs -> Entities]
  /\ ActorOf \in [Obs -> Actors]
  /\ NoOb \notin Obs
  /\ EventTypes \cap {"closed", "none"} = {}
  /\ ActiveWindow \in Nat
  /\ PersistSeverity \in BOOLEAN
  /\ MaxTime \in Nat

VARIABLES
  now,   \* time.time()
  obs,   \* obligations table
  viol,  \* omission_violations table, per obligation
  ent,   \* entities table
  job    \* each worker's operation in progress and its local copies

vars == <<now, obs, viol, ent, job>>

-------------------------------------------------------------------------------
(* Obligation records (omission_models.py).                                     *)

ObStatus == {"ABSENT", "PENDING", "SOFT_OVERDUE", "HARD_OVERDUE", "FULFILLED",
             "ESCALATED", "CANCELLED", "RESTORED"}

\* Mutant: FULFILLED is missing from the list of closed statuses.
IsOpenUnlisted(s) == s \notin {"ABSENT", "ESCALATED", "CANCELLED", "RESTORED"}

IsOpen(s) == s \in {"PENDING", "SOFT_OVERDUE", "HARD_OVERDUE"}

Terminal(s) == s \in {"FULFILLED", "CANCELLED", "RESTORED"}

Times == Nat \cup {NoTime}

\* fulfilled_by_event_id: by an event of a type, by close_obligation, or None.
Evidence == EventTypes \cup {"closed", "none"}

Records ==
  [status: ObStatus, created: Times, reminded: BOOLEAN, softAt: Times,
   hardAt: Times, escAt: Times, restoredAt: Times, by: Evidence, sev: Severities]

Blank ==
  [status |-> "ABSENT", created |-> NoTime, reminded |-> FALSE, softAt |-> NoTime,
   hardAt |-> NoTime, escAt |-> NoTime, restoredAt |-> NoTime, by |-> "none",
   sev |-> "LOW"]

Fresh(o, t) == [Blank EXCEPT !.status = "PENDING", !.created = t,
                             !.sev = Policy[KindOf[o]].sev]

Pol(o) == Policy[KindOf[o]]

DueAt(o, r) == r.created + Pol(o).dueIn

EffectiveDueAt(o, r) == DueAt(o, r) + Pol(o).grace

IsOverdue(o, r, t) == r.status = "PENDING" /\ t > EffectiveDueAt(o, r)

HardThreshold(o, r) == EffectiveDueAt(o, r) + Pol(o).hard

\* due_at + (due_at - created_at) * restoration_grace_period_multiplier (2.0)
RestorationDeadline(o, r) == DueAt(o, r) + 2 * Pol(o).dueIn

\* Mutant: only the deadline is checked.
CanRestoreAny(o, r, t) == r.status # "ABSENT" /\ t <= RestorationDeadline(o, r)

CanRestore(o, r, t) ==
  /\ r.status \in {"SOFT_OVERDUE", "HARD_OVERDUE", "ESCALATED"}
  /\ t <= RestorationDeadline(o, r)

ShouldRemind(o, r, t) ==
  /\ ~r.reminded
  /\ Pol(o).remind # NoTime
  /\ t >= DueAt(o, r) - Pol(o).remind

\* Mutant: escalate_after_secs is not added to the due date.
ShouldEscalateAtDue(o, r, t) ==
  r.escAt = NoTime /\ Pol(o).esc # NoTime /\ t >= EffectiveDueAt(o, r)

ShouldEscalate(o, r, t) ==
  /\ r.escAt = NoTime
  /\ Pol(o).esc # NoTime
  /\ t >= EffectiveDueAt(o, r) + Pol(o).esc

\* Mutant: the level of a trigger, which Severity does not have.
BumpedToHard(sev) == IF sev = "LOW" THEN "MEDIUM" ELSE "HARD"

Bumped(sev) == IF sev = "LOW" THEN "MEDIUM" ELSE "HIGH"

-------------------------------------------------------------------------------
(* The store, the entities and a worker's job.                                  *)

ViolationRecords == [soft: Nat, hard: Nat, escalated: BOOLEAN]

ViolationExists(o) == viol[o].soft + viol[o].hard > 0

HardViolationExists(o) == viol[o].hard > 0

\* UNKNOWN is an entity without a row, OTHER any status but the two that are read.
EntityStatuses == {"UNKNOWN", "ACTIVE", "EXPIRED", "OTHER"}

\* An entity nobody registered is always active for the gate; one without any
\* event is active when its status says so.
IsEntityActive(e, t) ==
  CASE ent[e].status = "UNKNOWN" -> TRUE
    [] ent[e].status # "UNKNOWN" /\ ent[e].last = NoTime -> ent[e].status = "ACTIVE"
    [] OTHER -> t - ent[e].last <= ActiveWindow

\* update_obligation writes the whole record; the SQLite UPDATE has no severity.
Update(o, r) ==
  obs' = [obs EXCEPT ![o] = IF PersistSeverity THEN r
                            ELSE [r EXCEPT !.sev = obs[o].sev]]

IdsOf(e, k, a) ==
  {o \in Obs : EntityOf[o] = e /\ KindOf[o] = k /\ ActorOf[o] = a}

\* Mutant: the duplicate check looks for overdue obligations.
HasOverdue(e, k, a) == \E o \in IdsOf(e, k, a) : obs[o].status = "SOFT_OVERDUE"

\* has_pending_obligation: another actor's obligation is no duplicate.
HasPending(e, k, a) == \E o \in IdsOf(e, k, a) : obs[o].status = "PENDING"

Duplicates(e, k, a) == Policy[k].dedup /\ HasPending(e, k, a)

Steps == {"idle", "fulfil", "trigger", "add", "pass1", "softCheck", "softReport",
          "softEntity", "passA", "hardCheck", "hardReport", "hardEscalate",
          "hardMark", "hardEntity", "passB", "escMark",
          "restore", "close", "cancel"}

Jobs ==
  [pc: Steps, at: Nat, copy: [Obs -> Records], todo: SUBSET Obs,
   cur: Obs \cup {NoOb}, kinds: SUBSET Kinds,
   type: EventTypes \cup {"none"}, entity: Entities \cup {"none"},
   actor: Actors \cup {"none"}]

Idle ==
  [pc |-> "idle", at |-> 0, copy |-> [o \in Obs |-> Blank], todo |-> {},
   cur |-> NoOb, kinds |-> {}, type |-> "none", entity |-> "none", actor |-> "none"]

\* The rows a SELECT returns, held as local copies until they are visited.
Snapshot(S) == [o \in Obs |-> IF o \in S THEN obs[o] ELSE Blank]

Begin(w, pc, S) ==
  /\ job[w].pc = "idle"
  /\ job' = [job EXCEPT ![w] = [Idle EXCEPT !.pc = pc, !.at = now, !.todo = S,
                                            !.copy = Snapshot(S)]]

Finish(w) == job' = [job EXCEPT ![w] = Idle]

At(w, pc) == job[w].pc = pc

Goto(w, pc) == job' = [job EXCEPT ![w].pc = pc]

\* Write the local copy r of o to the store and go on at pc with o in hand.
Write(w, o, r, pc) ==
  /\ Update(o, r)
  /\ job' = [job EXCEPT ![w].pc = pc, ![w].copy[o] = r, ![w].cur = o,
                        ![w].todo = @ \ {o}]

\* o is done: drop its copy and return to the loop at pc.
Release(w, pc) ==
  job' = [job EXCEPT ![w].pc = pc, ![w].cur = NoOb,
                     ![w].copy[job[w].cur] = Blank]

Init ==
  /\ now = 0
  /\ obs = [o \in Obs |-> Blank]
  /\ viol = [o \in Obs |-> [soft |-> 0, hard |-> 0, escalated |-> FALSE]]
  /\ ent = [e \in Entities |-> [status |-> "UNKNOWN", last |-> NoTime]]
  /\ job = [w \in Workers |-> Idle]

Tick ==
  /\ now < MaxTime
  /\ now' = now + 1
  /\ UNCHANGED <<obs, viol, ent, job>>

-------------------------------------------------------------------------------
(* ingest_event: store the event, fulfil what it fulfils, create what it        *)
(* triggers.                                                                    *)

\* Whom kind k holds responsible when actor a acts.
Selects(k, a) == IF Policy[k].named = {} THEN {a} ELSE Policy[k].named

Free(e, k, a) == {o \in IdsOf(e, k, a) : obs[o].status = "ABSENT"}

Ingesting == {w \in Workers : job[w].pc \in {"fulfil", "trigger", "add"}}

\* Bound: an event is ingested only while the pool has an id for what it creates.
RoomFor(e, k, a) ==
  \A b \in Selects(k, a) : Cardinality(Free(e, k, b)) > Cardinality(Ingesting)

Room(e, a, t) == \A k \in Kinds : Policy[k].trigger = t => RoomFor(e, k, a)

Touch(e) == ent' = IF ent[e].status = "UNKNOWN" THEN ent
                   ELSE [ent EXCEPT ![e].last = now]

IngestEvent(w, e, a, t) ==
  /\ At(w, "idle")
  /\ Room(e, a, t)
  /\ LET S == {o \in Obs : EntityOf[o] = e /\ IsOpen(obs[o].status)
                           /\ t \in Pol(o).required}
     IN job' = [job EXCEPT ![w] =
                  [Idle EXCEPT !.pc = "fulfil", !.at = now, !.todo = S,
                     !.copy = Snapshot(S), !.type = t, !.entity = e, !.actor = a]]
  /\ Touch(e)
  /\ UNCHANGED <<now, obs, viol>>

\* An id of the pool that no worker is about to write.
Unclaimed(o) == \A v \in Workers : job[v].pc = "add" => job[v].cur # o

\* The hook's own path to a trigger, create_obligation_from_trigger: a check for
\* a duplicate, then a tool_trigger event that creates without another check.
ToolTrigger(w, e, a, k) ==
  /\ At(w, "idle")
  /\ ~Policy[k].byRule
  /\ RoomFor(e, k, a)
  /\ \E b \in Selects(k, a), o \in Obs :
       /\ ~Duplicates(e, k, b)
       /\ o \in Free(e, k, b) /\ Unclaimed(o)
       /\ job' = [job EXCEPT ![w] = [Idle EXCEPT !.pc = "add", !.at = now, !.cur = o]]
  /\ Touch(e)
  /\ UNCHANGED <<now, obs, viol>>

\* _try_fulfill writes back the copy it listed, whatever the row is by now.
TryFulfil(w, o) ==
  /\ At(w, "fulfil")
  /\ o \in job[w].todo
  /\ Update(o, [job[w].copy[o] EXCEPT !.status = "FULFILLED", !.by = job[w].type])
  /\ job' = [job EXCEPT ![w].todo = @ \ {o}, ![w].copy[o] = Blank]
  /\ UNCHANGED <<now, viol, ent>>

\* The rules and triggers of this event type; rules need a registered entity.
FulfilDone(w) ==
  /\ At(w, "fulfil")
  /\ job[w].todo = {}
  /\ job' = [job EXCEPT
       ![w].pc = "trigger",
       ![w].kinds = {k \in Kinds :
          /\ Policy[k].trigger = job[w].type
          /\ Policy[k].byRule => ent[job[w].entity].status # "UNKNOWN"}]
  /\ UNCHANGED <<now, obs, viol, ent>>

DeduplicateSkip(w, k) ==
  /\ At(w, "trigger")
  /\ k \in job[w].kinds
  /\ \E b \in Selects(k, job[w].actor) : Duplicates(job[w].entity, k, b)
  /\ job' = [job EXCEPT ![w].kinds = @ \ {k}]
  /\ UNCHANGED <<now, obs, viol, ent>>

\* The entity has no owner or initiator for the rule to hold responsible.
NoActor(w, k) ==
  /\ At(w, "trigger")
  /\ k \in job[w].kinds
  /\ Policy[k].byRule /\ Policy[k].named # {}
  /\ job' = [job EXCEPT ![w].kinds = @ \ {k}]
  /\ UNCHANGED <<now, obs, viol, ent>>

TriggerMatch(w, k) ==
  /\ At(w, "trigger")
  /\ k \in job[w].kinds
  /\ \E b \in Selects(k, job[w].actor), o \in Obs :
       /\ ~Duplicates(job[w].entity, k, b)
       /\ o \in Free(job[w].entity, k, b) /\ Unclaimed(o)
       /\ job' = [job EXCEPT ![w].pc = "add", ![w].cur = o, ![w].kinds = @ \ {k}]
  /\ UNCHANGED <<now, obs, viol, ent>>

AddObligation(w) ==
  /\ At(w, "add")
  /\ obs' = [obs EXCEPT ![job[w].cur] = Fresh(job[w].cur, job[w].at)]
  /\ job' = [job EXCEPT ![w].pc = "trigger", ![w].cur = NoOb]
  /\ UNCHANGED <<now, viol, ent>>

TriggerDone(w) ==
  /\ At(w, "trigger")
  /\ job[w].kinds = {}
  /\ Finish(w)
  /\ UNCHANGED <<now, obs, viol, ent>>

-------------------------------------------------------------------------------
(* scan, first loop: PENDING rows that need a reminder or are overdue.          *)

\* Mutant: rows that were reminded are not looked at again.
ScanStartUnreminded(w) ==
  /\ Begin(w, "pass1", {o \in Obs : obs[o].status = "PENDING" /\ ~obs[o].reminded})
  /\ UNCHANGED <<now, obs, viol, ent>>

ScanStart(w) ==
  /\ Begin(w, "pass1", {o \in Obs : obs[o].status = "PENDING"})
  /\ UNCHANGED <<now, obs, viol, ent>>

SendReminder(w, o) ==
  /\ At(w, "pass1")
  /\ o \in job[w].todo
  /\ ShouldRemind(o, job[w].copy[o], job[w].at)
  /\ LET r == [job[w].copy[o] EXCEPT !.reminded = TRUE]
     IN Update(o, r) /\ job' = [job EXCEPT ![w].copy[o] = r]
  /\ UNCHANGED <<now, viol, ent>>

SoftOverdue(w, o) ==
  /\ At(w, "pass1")
  /\ o \in job[w].todo
  /\ ~ShouldRemind(o, job[w].copy[o], job[w].at)
  /\ IsOverdue(o, job[w].copy[o], job[w].at)
  /\ Write(w, o, [job[w].copy[o] EXCEPT !.status = "SOFT_OVERDUE",
                                        !.softAt = job[w].at], "softCheck")
  /\ UNCHANGED <<now, viol, ent>>

\* Idempotence check and activity gate of the soft violation.
SoftCheck(w) ==
  /\ At(w, "softCheck")
  /\ LET o == job[w].cur IN
       IF ~ViolationExists(o) /\ IsEntityActive(EntityOf[o], job[w].at)
       THEN Goto(w, "softReport") ELSE Goto(w, "softEntity")
  /\ UNCHANGED <<now, obs, viol, ent>>

SoftReport(w) ==
  /\ At(w, "softReport")
  /\ viol' = [viol EXCEPT ![job[w].cur].soft = @ + 1]
  /\ Goto(w, "softEntity")
  /\ UNCHANGED <<now, obs, ent>>

\* A HIGH obligation expires its active entity, which also counts as activity.
UpdateEntityOnViolation(o, r) ==
  LET e == EntityOf[o] IN
  ent' = IF r.sev = "HIGH" /\ ent[e].status = "ACTIVE"
         THEN [ent EXCEPT ![e] = [status |-> "EXPIRED", last |-> now]]
         ELSE ent

SoftEntity(w) ==
  /\ At(w, "softEntity")
  /\ UpdateEntityOnViolation(job[w].cur, job[w].copy[job[w].cur])
  /\ Release(w, "pass1")
  /\ UNCHANGED <<now, obs, viol>>

-------------------------------------------------------------------------------
(* scan, pass A: soft-overdue rows past the hard threshold.                     *)

\* Mutant: rows whose escalation is due are left to pass B.
PassADueLater(w) ==
  {o \in Obs : /\ obs[o].status = "SOFT_OVERDUE"
               /\ Pol(o).hard > 0
               /\ job[w].at >= HardThreshold(o, obs[o])
               /\ ~ShouldEscalate(o, obs[o], job[w].at)}

PassADue(w) ==
  {o \in Obs : /\ obs[o].status = "SOFT_OVERDUE"
               /\ Pol(o).hard > 0
               /\ job[w].at >= HardThreshold(o, obs[o])}

PassOneDone(w) ==
  /\ At(w, "pass1")
  /\ \A o \in job[w].todo : /\ ~ShouldRemind(o, job[w].copy[o], job[w].at)
                            /\ ~IsOverdue(o, job[w].copy[o], job[w].at)
  /\ job' = [job EXCEPT ![w].pc = "passA", ![w].todo = PassADue(w),
                        ![w].copy = Snapshot(PassADue(w))]
  /\ UNCHANGED <<now, obs, viol, ent>>

HardOverdue(w, o) ==
  /\ At(w, "passA")
  /\ o \in job[w].todo
  /\ Write(w, o, [job[w].copy[o] EXCEPT !.status = "HARD_OVERDUE",
                    !.hardAt = job[w].at, !.sev = Bumped(@)], "hardCheck")
  /\ UNCHANGED <<now, viol, ent>>

HardCheck(w) ==
  /\ At(w, "hardCheck")
  /\ LET o == job[w].cur IN
       IF ~HardViolationExists(o) /\ IsEntityActive(EntityOf[o], job[w].at)
       THEN Goto(w, "hardReport") ELSE Goto(w, "hardEscalate")
  /\ UNCHANGED <<now, obs, viol, ent>>

\* Mutant: the hard violation is recorded with the soft overdue type.
HardReportAsSoft(w) ==
  /\ At(w, "hardReport")
  /\ viol' = [viol EXCEPT ![job[w].cur].soft = @ + 1]
  /\ Goto(w, "hardEscalate")
  /\ UNCHANGED <<now, obs, ent>>

HardReport(w) ==
  /\ At(w, "hardReport")
  /\ viol' = [viol EXCEPT ![job[w].cur].hard = @ + 1]
  /\ Goto(w, "hardEscalate")
  /\ UNCHANGED <<now, obs, ent>>

\* Mutant: no look-up of the violation to escalate.
EscalateBlindly(w, o, pc) ==
  /\ ShouldEscalate(o, job[w].copy[o], job[w].at)
  /\ Write(w, o, [job[w].copy[o] EXCEPT !.status = "ESCALATED",
                                        !.escAt = job[w].at], pc)

\* _escalate, on the local copy, for an obligation that has a violation.
Escalate(w, o, pc) ==
  /\ ShouldEscalate(o, job[w].copy[o], job[w].at)
  /\ ViolationExists(o)
  /\ Write(w, o, [job[w].copy[o] EXCEPT !.status = "ESCALATED",
                                        !.escAt = job[w].at], pc)

HardEscalate(w) ==
  /\ At(w, "hardEscalate")
  /\ Escalate(w, job[w].cur, "hardMark")
  /\ UNCHANGED <<now, viol, ent>>

HardNoEscalation(w) ==
  /\ At(w, "hardEscalate")
  /\ ~(ShouldEscalate(job[w].cur, job[w].copy[job[w].cur], job[w].at)
       /\ ViolationExists(job[w].cur))
  /\ Goto(w, "hardEntity")
  /\ UNCHANGED <<now, obs, viol, ent>>

\* update_violation: the escalated flag of the first violation found.
MarkEscalated(o) == viol' = [viol EXCEPT ![o].escalated = TRUE]

HardMark(w) ==
  /\ At(w, "hardMark")
  /\ MarkEscalated(job[w].cur)
  /\ Goto(w, "hardEntity")
  /\ UNCHANGED <<now, obs, ent>>

HardEntity(w) ==
  /\ At(w, "hardEntity")
  /\ UpdateEntityOnViolation(job[w].cur, job[w].copy[job[w].cur])
  /\ Release(w, "passA")
  /\ UNCHANGED <<now, obs, viol>>

-------------------------------------------------------------------------------
(* scan, pass B: soft-overdue rows whose escalation time has come.              *)

\* Mutant: pass B only takes obligations with a hard violation.
PassBDueHard(w) ==
  {o \in Obs : /\ obs[o].status = "SOFT_OVERDUE" /\ HardViolationExists(o)
               /\ ShouldEscalate(o, obs[o], job[w].at)}

PassBDue(w) ==
  {o \in Obs : /\ obs[o].status = "SOFT_OVERDUE"
               /\ ShouldEscalate(o, obs[o], job[w].at)}

PassADone(w) ==
  /\ At(w, "passA")
  /\ job[w].todo = {}
  /\ job' = [job EXCEPT ![w].pc = "passB", ![w].todo = PassBDue(w),
                        ![w].copy = Snapshot(PassBDue(w))]
  /\ UNCHANGED <<now, obs, viol, ent>>

LateEscalate(w, o) ==
  /\ At(w, "passB")
  /\ o \in job[w].todo
  /\ Escalate(w, o, "escMark")
  /\ UNCHANGED <<now, viol, ent>>

LateMark(w) ==
  /\ At(w, "escMark")
  /\ MarkEscalated(job[w].cur)
  /\ Release(w, "passB")
  /\ UNCHANGED <<now, obs, ent>>

ScanDone(w) ==
  /\ At(w, "passB")
  /\ \A o \in job[w].todo : ~ViolationExists(o)
  /\ Finish(w)
  /\ UNCHANGED <<now, obs, viol, ent>>

-------------------------------------------------------------------------------
(* Direct operations: get_obligation, a check on the copy, update_obligation.   *)

Hold(w, o, pc) ==
  /\ At(w, "idle")
  /\ job' = [job EXCEPT ![w] = [Idle EXCEPT !.pc = pc, !.at = now, !.cur = o,
                                            !.copy = Snapshot({o})]]
  /\ UNCHANGED <<now, obs, viol, ent>>

\* Write the held copy back as r and end the operation.
Commit(w, r) ==
  /\ Update(job[w].cur, r)
  /\ Finish(w)
  /\ UNCHANGED <<now, viol, ent>>

Held(w) == job[w].copy[job[w].cur]

RestoreRequest(w, o) == CanRestore(o, obs[o], now) /\ Hold(w, o, "restore")

RestoreObligation(w) ==
  /\ At(w, "restore")
  /\ Commit(w, [Held(w) EXCEPT !.status = "RESTORED", !.restoredAt = job[w].at])

\* Also every call of bulk_auto_close_by_tag_age.
CloseRequest(w, o) ==
  /\ IsOpen(obs[o].status) \/ obs[o].status = "ESCALATED"
  /\ Hold(w, o, "close")

CloseObligation(w) ==
  /\ At(w, "close")
  /\ Commit(w, [Held(w) EXCEPT !.status = "FULFILLED", !.by = "closed"])

\* Also every call of cancel_session_obligations.
CancelRequest(w, o) ==
  /\ obs[o].status \in {"PENDING", "SOFT_OVERDUE"}
  /\ Hold(w, o, "cancel")

CancelObligation(w) ==
  /\ At(w, "cancel")
  /\ Commit(w, [Held(w) EXCEPT !.status = "CANCELLED"])

\* The store's own cancel_obligation: one transaction on the status alone, from
\* whatever status.
StoreCancel(w, o) ==
  /\ At(w, "idle")
  /\ obs[o].status # "ABSENT"
  /\ obs' = [obs EXCEPT ![o].status = "CANCELLED"]
  /\ UNCHANGED <<now, viol, ent, job>>

\* ACTIVE, CREATED or ASSIGNED; the adapters register an entity once.
RegisterEntity(e, s) ==
  /\ ent[e].status = "UNKNOWN"
  /\ ent' = [ent EXCEPT ![e] = [status |-> s, last |-> NoTime]]
  /\ UNCHANGED <<now, obs, viol, job>>

UpdateEntityStatus(e, s) ==
  /\ ent[e].status # "UNKNOWN"
  /\ ent' = [ent EXCEPT ![e] = [status |-> s, last |-> now]]
  /\ UNCHANGED <<now, obs, viol, job>>

-------------------------------------------------------------------------------
Ingest(w) ==
  \/ \E o \in Obs : TryFulfil(w, o)
  \/ FulfilDone(w)
  \/ \E k \in Kinds : DeduplicateSkip(w, k) \/ NoActor(w, k) \/ TriggerMatch(w, k)
  \/ AddObligation(w)
  \/ TriggerDone(w)

Scan(w) ==
  \/ \E o \in Obs : SendReminder(w, o) \/ SoftOverdue(w, o)
  \/ SoftCheck(w) \/ SoftReport(w) \/ SoftEntity(w)
  \/ PassOneDone(w)
  \/ \E o \in Obs : HardOverdue(w, o)
  \/ HardCheck(w) \/ HardReport(w) \/ HardEscalate(w) \/ HardNoEscalation(w)
  \/ HardMark(w) \/ HardEntity(w)
  \/ PassADone(w)
  \/ \E o \in Obs : LateEscalate(w, o)
  \/ LateMark(w)
  \/ ScanDone(w)

DirectWrite(w) ==
  RestoreObligation(w) \/ CloseObligation(w) \/ CancelObligation(w)

\* A step of the operation the worker is running.
Continue(w) == Ingest(w) \/ Scan(w) \/ DirectWrite(w)

Start(w) ==
  \/ \E e \in Entities, a \in Actors :
       \/ \E t \in EventTypes : IngestEvent(w, e, a, t)
       \/ \E k \in Kinds : ToolTrigger(w, e, a, k)
  \/ ScanStart(w)
  \/ \E o \in Obs : RestoreRequest(w, o) \/ CloseRequest(w, o) \/ CancelRequest(w, o)

EntityChange ==
  \E e \in Entities :
    \/ \E s \in {"ACTIVE", "OTHER"} : RegisterEntity(e, s)
    \/ \E s \in EntityStatuses \ {"UNKNOWN"} : UpdateEntityStatus(e, s)

Next ==
  \/ Tick
  \/ EntityChange
  \/ \E w \in Workers : Start(w) \/ Continue(w) \/ \E o \in Obs : StoreCancel(w, o)

\* Every started operation finishes, and the scanner (a thread that scans every
\* scan_interval_secs, or the tick of every tool call) gets its turn.
Fairness ==
  \A w \in Workers : WF_vars(Continue(w)) /\ SF_vars(ScanStart(w))

Spec == Init /\ [][Next]_vars /\ Fairness

-------------------------------------------------------------------------------
(* Properties.                                                                  *)

(* Every row, violation, entity and job has its type.                           *)
TypeOK ==
  /\ now \in Nat
  /\ obs \in [Obs -> Records]
  /\ viol \in [Obs -> ViolationRecords]
  /\ ent \in [Entities -> [status: EntityStatuses, last: Times]]
  /\ job \in [Workers -> Jobs]

(* What a record says of its own past: each stage of the aging ladder is only   *)
(* reached at a time the policy allows and with the stages below it on record,  *)
(* and a closing status carries its evidence (scan, restore_obligation,         *)
(* cancel_obligation, _try_fulfill: the whole record is written each time).     *)
(* The times stay true whatever becomes of the obligation later.                *)
Aged(o, r) == r.softAt > EffectiveDueAt(o, r)

TimesSound(o, r) ==
  /\ r.softAt # NoTime => Aged(o, r)
  /\ r.hardAt # NoTime => r.softAt # NoTime /\ r.hardAt >= HardThreshold(o, r)
  /\ r.escAt # NoTime =>
       r.softAt # NoTime /\ r.escAt >= EffectiveDueAt(o, r) + Pol(o).esc
  /\ r.restoredAt # NoTime =>
       r.softAt # NoTime /\ r.restoredAt <= RestorationDeadline(o, r)

StatusSound(r) ==
  CASE r.status \in {"ABSENT", "PENDING"} ->
         r.softAt = NoTime /\ r.hardAt = NoTime /\ r.escAt = NoTime
    [] r.status = "SOFT_OVERDUE" ->
         r.softAt # NoTime /\ r.hardAt = NoTime /\ r.escAt = NoTime
    [] r.status = "HARD_OVERDUE" -> r.hardAt # NoTime /\ r.escAt = NoTime
    [] r.status = "ESCALATED" -> r.escAt # NoTime
    [] r.status = "FULFILLED" -> r.by # "none"
    [] r.status = "RESTORED" -> r.restoredAt # NoTime
    [] r.status = "CANCELLED" -> TRUE

StageSound(o, r) == TimesSound(o, r) /\ StatusSound(r)

StageEvidence == \A o \in Obs : StageSound(o, obs[o])

(* No obligation is on record as escalated without a violation that says so,    *)
(* but for the scan between _escalate and update_violation.                     *)
EscalationReported ==
  \A o \in Obs : obs[o].escAt # NoTime =>
    /\ ViolationExists(o)
    /\ \/ viol[o].escalated
       \/ \E w \in Workers : job[w].pc \in {"hardMark", "escMark"} /\ job[w].cur = o

(* scan is idempotent: however often it runs, an obligation has at most one     *)
(* violation of each stage.                                                     *)
OneViolationPerStage == \A o \in Obs : viol[o].soft <= 1 /\ viol[o].hard <= 1

(* A deduplicating rule or trigger has at most one PENDING obligation per entity *)
(* and actor, by whichever path it is created (has_pending_obligation is asked  *)
(* for the entity, the type and the actor; another actor gets its own).         *)
NoDuplicatePending ==
  \A o, p \in Obs :
    /\ obs[o].status = "PENDING" /\ obs[p].status = "PENDING"
    /\ KindOf[o] = KindOf[p] /\ EntityOf[o] = EntityOf[p] /\ ActorOf[o] = ActorOf[p]
    /\ Pol(o).dedup
    => o = p

(* A terminal obligation (FULFILLED, CANCELLED, RESTORED) stays as it is, but   *)
(* for the store's cancel_obligation, which asks for no status.                 *)
TerminalIsFinal ==
  [][\A o \in Obs : Terminal(obs[o].status) =>
       obs'[o] = obs[o] \/ \E w \in Workers : StoreCancel(w, o)]_vars

(* The engine detects what was not done: an obligation overdue in the store is  *)
(* moved out of PENDING, by a scan or by what settles it first.                 *)
OverdueDetected ==
  \A o \in Obs : IsOverdue(o, obs[o], now) ~> obs[o].status # "PENDING"

(* An obligation soft overdue past its hard threshold does not stay there.      *)
HardDetected ==
  \A o \in Obs :
    /\ obs[o].status = "SOFT_OVERDUE" /\ Pol(o).hard > 0
    /\ now >= HardThreshold(o, obs[o])
    ~> obs[o].status # "SOFT_OVERDUE"

(* An overdue obligation with a violation on record and its escalation time     *)
(* past is escalated or settled (_escalate, in pass A and in pass B), when its  *)
(* policy does not make it hard overdue first.                                  *)
EscalationPending(o) ==
  /\ obs[o].status \in {"SOFT_OVERDUE", "HARD_OVERDUE"} /\ ViolationExists(o)
  /\ ShouldEscalate(o, obs[o], now)

HardensFirst(o) == Pol(o).hard > 0 /\ Pol(o).hard < Pol(o).esc

EscalatesWhenDue ==
  \A o \in Obs : EscalationPending(o) /\ ~HardensFirst(o) ~> ~EscalationPending(o)

(* The same of every policy, as omission_models.py says of escalate_after_secs: *)
(* after how many seconds the obligation escalates.  Pass B only lists the soft *)
(* overdue, so one that was hardened before its escalation time never does.     *)
EscalatesAsDocumented == \A o \in Obs : EscalationPending(o) ~> ~EscalationPending(o)

(* One worker's engine is the abstract obligation lifecycle.                    *)
Lifecycle == INSTANCE ObligationLifecycle
  WITH status <- [o \in Obs |-> obs[o].status], viol <- viol

ImplementsLifecycle == Lifecycle!LifecycleSpec

=============================================================================
