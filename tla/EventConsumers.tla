---------------------------- MODULE EventConsumers ----------------------------
(* The CIEU event table and two processes that follow it by seq_global: the K9  *)
(* routing subscriber (ystar/governance/k9_routing_subscriber.py), which keeps   *)
(* its position in a file, and the brain streamer (cieu_brain_streamer.py),      *)
(* which derives it from the activation log of the brain.  An event gets its     *)
(* seq_global, the time, before its insert is committed, so the table's order    *)
(* need not be that of seq_global.  Any process may stop between two steps.      *)
EXTENDS Integers, FiniteSets

CONSTANTS
  Writers,    \* processes that write events
  Limit,      \* rows the streamer takes at once (500)
  MaxEvents,  \* bound: events written
  MaxTime,    \* bound: ticks of the clock
  MaxStarts   \* bound: times each consumer is started

ASSUME ConsumersAssumption ==
  /\ Limit \in Nat \ {0} /\ MaxEvents \in Nat
  /\ MaxTime \in Nat \ {0} /\ MaxStarts \in Nat

\* A violation is routed to its handler; the payload of a broken one is JSON but
\* no object, and routing it raises.
Kinds == {"violation", "broken"}

VARIABLES
  clock,
  writing,   \* per writer: the event whose insert is not committed, if any
  committed, \* number of rows
  log,       \* the rows
  stateFile, \* last_seq_global in .k9_subscriber_state.json; 0: absent or torn
  k9,        \* the subscriber: pc, last_seq, the violations it has fetched
  routed,    \* per row: times its handler was called
  activity,  \* greatest timestamp in the brain's activation log, 0: none
  streamer,  \* pc, cursor, the cursor it started with, the events fetched
  streamed,  \* per row: times it was projected into the brain
  starts     \* of each consumer

tableVars == <<clock, writing, committed, log>>
k9Vars == <<stateFile, k9, routed>>
streamVars == <<activity, streamer, streamed>>
vars == <<tableVars, k9Vars, streamVars, starts>>

RowIds == 1..MaxEvents
Rows == 1..committed
Down == [pc |-> "down", last |-> 0, since |-> 0, batch |-> {}]
Consumers == {"k9", "streamer"}

Init ==
  /\ clock = 1
  /\ writing = [w \in Writers |-> {}]
  /\ committed = 0
  /\ log = [r \in RowIds |-> [seq |-> 0, kind |-> "violation"]]
  /\ stateFile = 0 /\ activity = 0
  /\ k9 = Down /\ streamer = Down
  /\ routed = [r \in RowIds |-> 0]
  /\ streamed = [r \in RowIds |-> 0]
  /\ starts = [c \in Consumers |-> 0]

-------------------------------------------------------------------------------
(* The table                                                                     *)

Tick ==
  /\ clock < MaxTime
  /\ clock' = clock + 1
  /\ UNCHANGED <<writing, committed, log, k9Vars, streamVars, starts>>

\* _insert_dict takes the time and waits for the write lock.
Stamp(w) ==
  /\ writing[w] = {}
  /\ committed + Cardinality({v \in Writers : writing[v] # {}}) < MaxEvents
  /\ \E kind \in Kinds :
       writing' = [writing EXCEPT ![w] = {[seq |-> clock, kind |-> kind]}]
  /\ UNCHANGED <<clock, committed, log, k9Vars, streamVars, starts>>

Commit(w) ==
  /\ committed < MaxEvents
  /\ \E e \in writing[w] : log' = [log EXCEPT ![committed + 1] = e]
  /\ committed' = committed + 1
  /\ writing' = [writing EXCEPT ![w] = {}]
  /\ UNCHANGED <<clock, k9Vars, streamVars, starts>>

\* Mutant: takes the rows from the position on.
NewRowsFrom(position) == {r \in Rows : log[r].seq >= position}

NewRows(position) == {r \in Rows : log[r].seq > position}

\* Mutant: no ORDER BY.
AnyOf(batch) == batch

\* The rows of a batch that may come first in ORDER BY seq_global.
First(batch) == {r \in batch : \A q \in batch : log[r].seq <= log[q].seq}

-------------------------------------------------------------------------------
(* The K9 routing subscriber                                                     *)

Started(c) ==
  /\ starts[c] < MaxStarts
  /\ starts' = [starts EXCEPT ![c] = @ + 1]

\* get_last_processed_seq: 0 when the file is absent or does not parse.
K9Start ==
  /\ k9.pc = "down"
  /\ Started("k9")
  /\ k9' = [pc |-> "poll", last |-> stateFile, since |-> stateFile, batch |-> {}]
  /\ UNCHANGED <<tableVars, stateFile, routed, streamVars>>

\* Mutant: the position is saved when the batch is fetched.
K9PollSaving ==
  /\ k9.pc = "poll"
  /\ NewRows(k9.last) # {}
  /\ k9' = [k9 EXCEPT !.pc = "work", !.batch = NewRows(k9.last)]
  /\ stateFile' = CHOOSE s \in 1..MaxTime :
                    /\ \E r \in NewRows(k9.last) : log[r].seq = s
                    /\ \A r \in NewRows(k9.last) : log[r].seq <= s
  /\ UNCHANGED <<tableVars, routed, streamVars, starts>>

K9Poll ==
  /\ k9.pc = "poll"
  /\ NewRows(k9.last) # {}
  /\ k9' = [k9 EXCEPT !.pc = "work", !.batch = NewRows(k9.last)]
  /\ UNCHANGED <<tableVars, stateFile, routed, streamVars, starts>>

\* Handlers that fail are logged; a payload that is no object ends the process
\* before the position is saved.
K9Route ==
  /\ k9.pc = "work"
  /\ \E r \in First(k9.batch) :
       IF log[r].kind = "broken"
         THEN k9' = Down /\ UNCHANGED routed
         ELSE /\ routed' = [routed EXCEPT ![r] = @ + 1]
              /\ k9' = [k9 EXCEPT !.batch = @ \ {r}, !.last = log[r].seq,
                                  !.pc = IF k9.batch = {r} THEN "save" ELSE "work"]
  /\ UNCHANGED <<tableVars, stateFile, streamVars, starts>>

\* The position is saved once per batch; write_text empties the file first.
K9Truncate ==
  /\ k9.pc = "save"
  /\ stateFile' = 0
  /\ k9' = [k9 EXCEPT !.pc = "write"]
  /\ UNCHANGED <<tableVars, routed, streamVars, starts>>

K9Write ==
  /\ k9.pc = "write"
  /\ stateFile' = k9.last
  /\ k9' = [k9 EXCEPT !.pc = "poll"]
  /\ UNCHANGED <<tableVars, routed, streamVars, starts>>

K9Crash ==
  /\ k9.pc # "down"
  /\ starts["k9"] < MaxStarts
  /\ k9' = Down
  /\ UNCHANGED <<tableVars, stateFile, routed, streamVars, starts>>

K9 == K9Start \/ K9Poll \/ K9Route \/ K9Truncate \/ K9Write

-------------------------------------------------------------------------------
(* The brain streamer                                                            *)

\* _get_last_ingested_seq: the time of the latest activation, whoever made it.
StreamStart ==
  /\ streamer.pc = "down"
  /\ Started("streamer")
  /\ streamer' = [pc |-> "poll", last |-> activity, since |-> activity, batch |-> {}]
  /\ UNCHANGED <<tableVars, k9Vars, activity, streamed>>

\* The first Limit rows.
Batches(new) ==
  {batch \in SUBSET new :
     /\ batch # {} /\ Cardinality(batch) <= Limit
     /\ batch # new => Cardinality(batch) = Limit
     /\ \A r \in batch, q \in new \ batch : log[r].seq <= log[q].seq}

StreamPoll ==
  /\ streamer.pc = "poll"
  /\ \E batch \in Batches(NewRows(streamer.last)) :
       streamer' = [streamer EXCEPT !.pc = "work", !.batch = batch]
  /\ UNCHANGED <<tableVars, k9Vars, activity, streamed, starts>>

\* process_event inserts activations of the nearest nodes, with the time.
StreamEvent ==
  /\ streamer.pc = "work"
  /\ \E r \in First(streamer.batch) :
       /\ streamed' = [streamed EXCEPT ![r] = @ + 1]
       /\ streamer' = [streamer EXCEPT !.batch = @ \ {r}, !.last = log[r].seq,
                                 !.pc = IF streamer.batch = {r} THEN "poll" ELSE "work"]
  /\ activity' = clock
  /\ UNCHANGED <<tableVars, k9Vars, starts>>

StreamCrash ==
  /\ streamer.pc # "down"
  /\ starts["streamer"] < MaxStarts
  /\ streamer' = Down
  /\ UNCHANGED <<tableVars, k9Vars, activity, streamed, starts>>

\* brain_auto_ingest logs an activation for every file it takes in.
IngestFile ==
  /\ activity' = clock
  /\ UNCHANGED <<tableVars, k9Vars, streamer, streamed, starts>>

-------------------------------------------------------------------------------

Next ==
  \/ Tick
  \/ \E w \in Writers : Stamp(w) \/ Commit(w)
  \/ K9 \/ K9Crash
  \/ StreamStart \/ StreamPoll \/ StreamEvent \/ StreamCrash
  \/ IngestFile

Spec == Init /\ [][Next]_vars

\* governance_boot.sh starts the subscriber when it is not running, and a running
\* one polls twice a second.
FairSpec == Spec /\ WF_vars(K9)

-------------------------------------------------------------------------------
\* A row that was committed in the order of seq_global, and whose seq_global no
\* other row has.
InOrder(r) ==
  \A q \in Rows \ {r} :
    log[q].seq # log[r].seq /\ (q < r => log[q].seq < log[r].seq)

\* No consumer passes over an event: what it has behind it was consumed, except
\* for rows that were committed out of order and, for the streamer, rows before
\* the position that it started at.  Holds over crashes, torn state files and
\* batches cut at the limit.
NothingSkipped ==
  \A r \in Rows : InOrder(r) =>
    /\ log[r].seq <= k9.last => routed[r] > 0
    /\ log[r].seq <= stateFile => routed[r] > 0
    /\ (streamer.since < log[r].seq /\ log[r].seq <= streamer.last) => streamed[r] > 0

\* Repetitions: the subscriber calls the handler of a violation at most once
\* per start (its position may be older than its work), the streamer projects
\* an event at most once ever (the position it resumes at is never older).
RepeatsOnlyAfterStart ==
  \A r \in RowIds : routed[r] <= starts["k9"] /\ streamed[r] <= 1

\* A violation that is committed in order reaches its handler, whatever crashes,
\* unless one that the subscriber cannot parse stands before it.
ViolationsAreRouted ==
  \A r \in RowIds :
    (r \in Rows /\ InOrder(r) /\ log[r].kind = "violation")
      ~> (\/ routed[r] > 0
          \/ ~InOrder(r)
          \/ \E q \in Rows : log[q].kind = "broken" /\ log[q].seq <= log[r].seq)
=============================================================================
