------------------------------ MODULE HookDaemon ------------------------------
(* The persistent hook process (ystar/_hook_daemon.py): a watcher thread that   *)
(* reloads the policy when AGENTS.md changes, one thread per call, and an idle  *)
(* monitor.  Calls (through the residual loop) and the monitor pull from the    *)
(* action queue of ystar/governance/autonomy_engine.py without a lock.  One     *)
(* agent's queue is modelled; each agent has its own.  Threads are switched at  *)
(* file and database reads and between the bytecodes that share a list.         *)
EXTENDS Integers, Sequences, FiniteSets

CONSTANTS
  Callers,      \* request threads
  Obligations,  \* obligations of the agent
  Today, Week,  \* targets of the priority brief
  MaxEdits,     \* bound: times AGENTS.md is written after the daemon starts
  MaxCalls      \* bound: calls served

IdleThread == "monitor"
Pullers == Callers \cup {IdleThread}
In(list) == {list[i] : i \in DOMAIN list}
Actions == In(Today) \cup Obligations \cup In(Week)

ASSUME DaemonAssumption ==
  /\ Today \in Seq(Actions) /\ Week \in Seq(Actions)
  /\ Obligations \cap (In(Today) \cup In(Week)) = {}
  /\ IsFiniteSet(Obligations)
  /\ MaxEdits \in Nat /\ MaxCalls \in Nat
  /\ IdleThread \notin Callers

VARIABLES
  file,     \* AGENTS.md: its modification time, and whether its text compiles
  policy,   \* the version of AGENTS.md that self.policy was compiled from, 0: None
  watcher,  \* pc, and mtimes["agents_md"], the time it looks at or what it has read
  missed,   \* AGENTS.md was written before the watcher took its first look
  calls,    \* calls begun
  quiet,    \* no call and no pull for IDLE_THRESHOLD_SECONDS
  obligation,  \* state of each obligation in the store
  lists,    \* the lists somebody refers to
  queue,    \* action_queues[agent_id]: the list it refers to
  puller    \* per thread: pc, the list it is building or refers to, what it got

policyVars == <<file, policy, watcher, missed>>
queueVars == <<obligation, lists, queue, puller>>
daemonVars == <<policyVars, calls, quiet, queueVars>>

Lists == Pullers \cup {"first"}  \* as many as can be referred to at once
Resting(got) == [pc |-> "rest", got |-> got]

DaemonInit ==
  /\ file = [mtime |-> 1, compiles |-> TRUE]
  /\ policy = 0
  /\ watcher = [pc |-> "load"]
  /\ missed = FALSE
  /\ calls = 0 /\ quiet = FALSE
  /\ obligation \in [Obligations -> {"absent", "pending"}]
  /\ lists = [l \in Lists |-> <<>>]
  /\ queue = "first"
  /\ puller = [p \in Pullers |-> Resting({})]

-------------------------------------------------------------------------------
(* AGENTS.md and the thread that follows it.                                    *)

\* Somebody saves AGENTS.md, with a text that compiles or not.
Edit ==
  /\ file.mtime <= MaxEdits
  /\ \E ok \in BOOLEAN : file' = [mtime |-> file.mtime + 1, compiles |-> ok]
  /\ UNCHANGED <<policy, watcher, missed, calls, quiet, queueVars>>

\* __init__ loads the policy before it starts the other components and threads.
FirstRead ==
  /\ watcher.pc = "load"
  /\ watcher' = [pc |-> "loaded", text |-> file]
  /\ UNCHANGED <<file, policy, missed, calls, quiet, queueVars>>

\* A load that failed is logged and leaves the policy that was there.
Publish(text) ==
  /\ policy' = IF text.compiles THEN text.mtime ELSE policy
  /\ UNCHANGED <<file, missed, calls, quiet, queueVars>>

FirstPublish ==
  /\ watcher.pc = "loaded"
  /\ Publish(watcher.text)
  /\ watcher' = [pc |-> "start", text |-> watcher.text]

\* The watcher starts with the modification time it finds.
FirstLook ==
  /\ watcher.pc = "start"
  /\ watcher' = [pc |-> "poll", seen |-> file.mtime]
  /\ missed' = (watcher.text # file)
  /\ UNCHANGED <<file, policy, calls, quiet, queueVars>>

Poll ==
  /\ watcher.pc = "poll"
  /\ file.mtime > watcher.seen
  /\ watcher' = [pc |-> "reload", looking |-> file.mtime]
  /\ UNCHANGED <<file, policy, missed, calls, quiet, queueVars>>

Reread ==
  /\ watcher.pc = "reload"
  /\ watcher' = [pc |-> "reread", looking |-> watcher.looking, text |-> file]
  /\ UNCHANGED <<file, policy, missed, calls, quiet, queueVars>>

Republish ==
  /\ watcher.pc = "reread"
  /\ Publish(watcher.text)
  /\ watcher' = [pc |-> "record", looking |-> watcher.looking]

\* Mutant: takes the time again after the load.
RecordTimeAgain ==
  /\ watcher.pc = "record"
  /\ watcher' = [pc |-> "poll", seen |-> file.mtime]
  /\ missed' = FALSE
  /\ UNCHANGED <<file, policy, calls, quiet, queueVars>>

\* The time recorded is the one seen before the load.
Record ==
  /\ watcher.pc = "record"
  /\ watcher' = [pc |-> "poll", seen |-> watcher.looking]
  /\ missed' = FALSE
  /\ UNCHANGED <<file, policy, calls, quiet, queueVars>>

-------------------------------------------------------------------------------
(* The obligation store, which others write, and time.                          *)

Arise(o) ==
  /\ obligation[o] = "absent"
  /\ obligation' = [obligation EXCEPT ![o] = "pending"]
  /\ UNCHANGED <<policyVars, calls, quiet, lists, queue, puller>>

\* Fulfilled, cancelled, or past its deadline: no longer PENDING.
Close(o) ==
  /\ obligation[o] = "pending"
  /\ obligation' = [obligation EXCEPT ![o] = "closed"]
  /\ UNCHANGED <<policyVars, calls, quiet, lists, queue, puller>>

FallQuiet ==
  /\ watcher.pc \notin {"load", "loaded"}
  /\ ~quiet
  /\ quiet' = TRUE
  /\ UNCHANGED <<policyVars, calls, queueVars>>

-------------------------------------------------------------------------------
(* Pulling.                                                                     *)

Goes(p, to) == puller' = [puller EXCEPT ![p] = to]

\* Mutant: recomputes before every pull.
BeginPullRecomputes(p) == Goes(p, [pc |-> "build"])

\* pull_next_action finds an entry in the list it refers to, or recomputes.
BeginPull(p) ==
  Goes(p, IF lists[queue] = <<>> THEN [pc |-> "build"] ELSE [pc |-> "fetch"])

\* A call restarts the idle clock and is checked against the policy; after a
\* tool use whose residual is not closed it pulls an action.
Handle(p) ==
  /\ watcher.pc \notin {"load", "loaded"}
  /\ calls < MaxCalls
  /\ puller[p].pc = "rest"
  /\ calls' = calls + 1
  /\ quiet' = FALSE
  /\ BeginPull(p) \/ UNCHANGED puller
  /\ UNCHANGED <<policyVars, obligation, lists, queue>>

\* The monitor's look, once a minute.
IdlePull ==
  /\ quiet
  /\ puller[IdleThread].pc = "rest"
  /\ BeginPull(IdleThread)
  /\ UNCHANGED <<policyVars, calls, quiet, obligation, lists, queue>>

\* The rows of a set of obligations, in the order the database gives them.
Rows(S) ==
  {rows \in [1..Cardinality(S) -> S] : \A i, j \in DOMAIN rows : rows[i] = rows[j] => i = j}

\* Mutant: lists the obligations whatever their status.
AgendasOfAll(state) ==
  {Today \o rows \o Week : rows \in Rows({o \in Obligations : state[o] # "absent"})}

\* Today's targets, the pending obligations, this week's targets.
Agendas(state) ==
  {Today \o rows \o Week : rows \in Rows({o \in Obligations : state[o] = "pending"})}

Build(p) ==
  /\ puller[p].pc = "build"
  /\ \E agenda \in Agendas(obligation) : Goes(p, [pc |-> "replace", agenda |-> agenda])
  /\ UNCHANGED <<policyVars, calls, quiet, obligation, lists, queue>>

Held == {puller[p].list : p \in {q \in Pullers : puller[q].pc = "pop"}}
ReferredTo == {queue} \cup Held

\* The list l holds entries now; a list that nobody refers to any more is freed.
Filled(l, entries) ==
  [m \in Lists |-> IF m = l THEN entries ELSE IF m \in Held THEN lists[m] ELSE <<>>]

\* A new list takes the queue's place; who holds the old one keeps it.
Replace(p) ==
  /\ puller[p].pc = "replace"
  /\ \E l \in Lists \ ReferredTo :
       lists' = Filled(l, puller[p].agenda) /\ queue' = l
  /\ Goes(p, [pc |-> "fetch"])
  /\ UNCHANGED <<policyVars, calls, quiet, obligation>>

\* The monitor restarts its idle clock when the pull is over.
EndPull(p, got) ==
  /\ Goes(p, Resting(got))
  /\ quiet' = IF p = IdleThread THEN FALSE ELSE quiet

Fetch(p) ==
  /\ puller[p].pc = "fetch"
  /\ IF lists[queue] = <<>>
       THEN EndPull(p, {})
       ELSE Goes(p, [pc |-> "pop", list |-> queue]) /\ UNCHANGED quiet
  /\ UNCHANGED <<policyVars, calls, obligation, lists, queue>>

\* Another thread may have taken the last entry: pop(0) raises, and the caller
\* logs the IndexError.
Pop(p) ==
  /\ puller[p].pc = "pop"
  /\ LET list == lists[puller[p].list] IN
       IF list = <<>>
         THEN EndPull(p, {}) /\ UNCHANGED lists
         ELSE /\ EndPull(p, {Head(list)})
              /\ lists' = [lists EXCEPT ![puller[p].list] = Tail(list)]
  /\ UNCHANGED <<policyVars, calls, obligation, queue>>

Pull(p) == Build(p) \/ Replace(p) \/ Fetch(p) \/ Pop(p)
Watch == FirstRead \/ FirstPublish \/ FirstLook \/ Poll \/ Reread \/ Republish \/ Record

DaemonNext ==
  \/ Edit
  \/ Watch
  \/ \E o \in Obligations : Arise(o) \/ Close(o)
  \/ FallQuiet
  \/ IdlePull
  \/ \E p \in Callers : Handle(p)
  \/ \E p \in Pullers : Pull(p)

DaemonSpec == DaemonInit /\ [][DaemonNext]_daemonVars

\* The main thread starts, the watcher polls every 2 s and the monitor every
\* minute for as long as the process lives, and no started pull waits for
\* anything.  The calls end (MaxCalls), so the idle threshold is reached again
\* and again.
FairSpec ==
  /\ DaemonSpec
  /\ WF_daemonVars(Watch) /\ WF_daemonVars(FallQuiet) /\ WF_daemonVars(IdlePull)
  /\ \A p \in Pullers : WF_daemonVars(Pull(p))

-------------------------------------------------------------------------------
\* No write of AGENTS.md goes unnoticed by the watcher (_start_file_watcher),
\* however writes, looks and loads interleave: when the watcher has recorded the
\* file's modification time, the policy is the one that the file says, unless
\* the file does not compile or was written while the daemon was starting.
NothingMissed ==
  (watcher.pc = "poll" /\ watcher.seen = file.mtime /\ file.compiles /\ ~missed)
    => policy = file.mtime

\* A running daemon takes over every policy that stays in AGENTS.md and compiles,
\* also one that is saved while an older one is being loaded (the watcher's
\* promise: no cache that only a restart empties).
PolicyFollowsFile ==
  \A v \in 2..(MaxEdits + 1) :
    (/\ file = [mtime |-> v, compiles |-> TRUE]
     /\ watcher.pc \in {"poll", "reload", "reread", "record"} /\ ~missed)
      ~> (policy = v \/ file.mtime > v)

\* An obligation that stays pending is handed out as an action sooner or later,
\* behind today's targets and whatever the other threads pull (pull_next_action,
\* recompute_action_queue, the idle monitor).
PendingIsOffered ==
  \A o \in Obligations :
    obligation[o] = "pending"
      ~> (obligation[o] # "pending" \/ \E p \in Pullers : puller[p] = Resting({o}))

Offerable ==
  UNION ({In(lists[l]) : l \in ReferredTo}
         \cup {In(puller[p].agenda) : p \in {q \in Pullers : puller[q].pc = "replace"}})

\* A queue computed before an obligation was closed is used up: from some time
\* on no thread can hand the closed obligation out any more.
ClosedDropsOut ==
  \A o \in Obligations : (obligation[o] = "closed") ~> [](o \notin Offerable)
=============================================================================
