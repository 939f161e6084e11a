------------------------- MODULE EventConsumersProofs -------------------------
(* Proofs about the consumers of the CIEU event table: what they may pass over   *)
(* and how often they may repeat themselves, for any number of writers, events   *)
(* and starts and any limit.                                                     *)
EXTENDS EventConsumers, TLAPS

Events == [seq : Nat \ {0}, kind : Kinds]
Positions == [pc : {"down", "poll", "work", "save", "write"}, last : Nat, since : Nat,
              batch : SUBSET RowIds]

\* The type of the state; no time in it is later than the clock.
Types ==
  /\ clock \in Nat \ {0}
  /\ committed \in 0..MaxEvents
  /\ writing \in [Writers -> {{}} \cup {{e} : e \in Events}]
  /\ log \in [RowIds -> [seq : Nat, kind : Kinds]]
  /\ stateFile \in Nat /\ activity \in Nat
  /\ k9 \in Positions /\ streamer \in Positions
  /\ routed \in [RowIds -> Nat] /\ streamed \in [RowIds -> Nat]
  /\ starts \in [Consumers -> Nat]
  /\ activity <= clock
  /\ \A r \in Rows : log[r].seq # 0 /\ log[r].seq <= clock
  /\ \A w \in Writers : \A e \in writing[w] : e.seq <= clock

\* A position is that of a committed row, or the one that the consumer began at.
AtRow(position, start) ==
  position <= start \/ \E q \in Rows : log[q].seq = position

\* A batch holds every row in order between the position and any of its own rows.
Closed(c) ==
  /\ c.batch \subseteq Rows
  /\ \A q \in c.batch : c.last <= log[q].seq
  /\ \A r \in Rows, q \in c.batch :
       (InOrder(r) /\ c.last < log[r].seq /\ log[r].seq <= log[q].seq) => r \in c.batch

\* Rows in order between the start and the position have been consumed.
Passed(start, position, done) ==
  \A r \in Rows :
    (InOrder(r) /\ start < log[r].seq /\ log[r].seq <= position) => done[r] > 0

K9Sound ==
  /\ Closed(k9)
  /\ AtRow(k9.last, 0) /\ AtRow(stateFile, 0)
  /\ Passed(0, k9.last, routed) /\ Passed(0, stateFile, routed)

StreamSound ==
  /\ Closed(streamer)
  /\ AtRow(streamer.last, streamer.since)
  /\ Passed(streamer.since, streamer.last, streamed)

\* Rows that the subscriber may still route have been routed in earlier starts only.
K9Repeats ==
  /\ \A r \in RowIds : routed[r] <= starts["k9"] /\ (r \notin Rows => routed[r] = 0)
  /\ k9.pc # "down" =>
       /\ starts["k9"] > 0
       /\ \A r \in RowIds :
            (r \notin Rows \/ log[r].seq > k9.last \/ r \in k9.batch)
              => routed[r] < starts["k9"]

\* What was streamed is behind every position that the streamer has or will have.
StreamRepeats ==
  \A r \in RowIds :
    /\ streamed[r] <= 1
    /\ streamed[r] > 0 =>
         /\ r \in Rows /\ log[r].seq <= activity
         /\ streamer.pc # "down" => log[r].seq <= streamer.last /\ r \notin streamer.batch

IInv == Types /\ K9Sound /\ StreamSound /\ K9Repeats /\ StreamRepeats

-------------------------------------------------------------------------------
LEMMA InitInv == Init => IInv
<1> SUFFICES ASSUME Init
             PROVE  IInv
  OBVIOUS
<1>0. MaxEvents \in Nat /\ Rows = {}
  BY ConsumersAssumption DEF Init, Rows
<1>1. /\ Down \in Positions /\ Down.pc = "down" /\ Down.last = 0 /\ Down.since = 0
      /\ Down.batch = {}
  BY DEF Down, Positions
<1>2. Types
  BY <1>0, <1>1 DEF Init, Types, Kinds, RowIds
<1>3. K9Sound /\ StreamSound
  BY <1>0, <1>1 DEF Init, K9Sound, StreamSound, Closed, AtRow, Passed
<1>4. K9Repeats /\ StreamRepeats
  BY <1>0, <1>1 DEF Init, K9Repeats, StreamRepeats, Consumers
<1> QED BY <1>2, <1>3, <1>4 DEF IInv

LEMMA RowsAreIds ==
  ASSUME Types
  PROVE  Rows \subseteq RowIds /\ committed \in Nat /\ MaxEvents \in Nat
BY ConsumersAssumption DEF Types, Rows, RowIds

-------------------------------------------------------------------------------
(* Commits *)

\* A commit adds the row r, whose seq_global is e.seq; rows that were there keep
\* theirs, and being in order is never regained.
LEMMA CommitRow ==
  ASSUME Types, NEW w \in Writers, Commit(w)
  PROVE  \E e \in Events :
           /\ e \in writing[w]
           /\ committed' = committed + 1 /\ committed + 1 \in RowIds
           /\ Rows' = Rows \cup {committed + 1} /\ committed + 1 \notin Rows
           /\ log' = [log EXCEPT ![committed + 1] = e]
           /\ log'[committed + 1] = e
           /\ \A r \in Rows : log'[r] = log[r] /\ (InOrder(r)' => InOrder(r))
           /\ \A new \in Rows' \ Rows : InOrder(new)' => \A q \in Rows : log[q].seq < e.seq
<1>1. PICK e \in writing[w] : log' = [log EXCEPT ![committed + 1] = e]
  BY DEF Commit
<1>2. e \in Events
  BY DEF Types
<1>3. /\ committed' = committed + 1 /\ committed + 1 \in RowIds
      /\ committed \in Nat /\ committed + 1 \notin Rows
  BY RowsAreIds DEF Commit, RowIds, Rows
<1>4. Rows' = Rows \cup {committed + 1}
  BY <1>3 DEF Rows
<1>5. log'[committed + 1] = e /\ \A r \in Rows : log'[r] = log[r]
  BY <1>1, <1>3, RowsAreIds DEF Types
<1>6. ASSUME NEW r \in Rows, InOrder(r)'
      PROVE  InOrder(r)
  BY <1>4, <1>5, <1>6 DEF InOrder
<1>7. ASSUME NEW new \in Rows' \ Rows, InOrder(new)', NEW q \in Rows
      PROVE  log[q].seq < e.seq
  <2>1. new = committed + 1 /\ q \in Rows' \ {new} /\ q < new
    BY <1>3, <1>4 DEF Rows
  <2>2. log'[q].seq < log'[new].seq
    BY <2>1, <1>7 DEF InOrder
  <2> QED BY <2>1, <2>2, <1>5
<1> QED BY <1>1, <1>2, <1>3, <1>4, <1>5, <1>6, <1>7

LEMMA CommitClosed ==
  ASSUME Types, NEW w \in Writers, Commit(w), NEW c \in Positions, c' = c, Closed(c)
  PROVE  Closed(c)'
<1>1. PICK e \in Events :
        /\ Rows' = Rows \cup {committed + 1} /\ log'[committed + 1] = e
        /\ \A r \in Rows : log'[r] = log[r] /\ (InOrder(r)' => InOrder(r))
        /\ \A new \in Rows' \ Rows : InOrder(new)' => \A q \in Rows : log[q].seq < e.seq
  BY CommitRow
<1>2. /\ c.batch \subseteq Rows
      /\ \A q \in c.batch : c.last <= log[q].seq
      /\ \A r \in Rows, q \in c.batch :
           (InOrder(r) /\ c.last < log[r].seq /\ log[r].seq <= log[q].seq) => r \in c.batch
  BY DEF Closed
<1>3. \A q \in c.batch : log'[q] = log[q] /\ log[q].seq \in Nat /\ e.seq \in Nat
  BY <1>1, <1>2, RowsAreIds DEF Types, Events
<1>4. ASSUME NEW r \in Rows', NEW q \in c.batch,
             InOrder(r)', c.last < log'[r].seq, log'[r].seq <= log'[q].seq
      PROVE  r \in c.batch
  <2>1. CASE r \in Rows
    BY <1>1, <1>2, <1>3, <1>4, <2>1
  <2>2. CASE r \notin Rows
    BY <1>1, <1>2, <1>3, <1>4, <2>2
  <2> QED BY <1>1, <2>1, <2>2
<1> QED BY <1>1, <1>2, <1>3, <1>4 DEF Closed

LEMMA CommitPassed ==
  ASSUME Types, NEW w \in Writers, Commit(w), NEW start \in Nat, NEW position \in Nat,
         NEW done, AtRow(position, start), Passed(start, position, done)
  PROVE  /\ \A r \in Rows' :
              (InOrder(r)' /\ start < log'[r].seq /\ log'[r].seq <= position) => done[r] > 0
         /\ position <= start \/ \E q \in Rows' : log'[q].seq = position
<1>1. PICK e \in Events :
        /\ Rows' = Rows \cup {committed + 1} /\ log'[committed + 1] = e
        /\ \A r \in Rows : log'[r] = log[r] /\ (InOrder(r)' => InOrder(r))
        /\ \A new \in Rows' \ Rows : InOrder(new)' => \A q \in Rows : log[q].seq < e.seq
  BY CommitRow
<1>2. position <= start \/ \E q \in Rows' : log'[q].seq = position
  BY <1>1 DEF AtRow
<1>3. ASSUME NEW r \in Rows', InOrder(r)', start < log'[r].seq, log'[r].seq <= position
      PROVE  done[r] > 0
  <2>1. CASE r \in Rows
    BY <1>1, <1>3, <2>1 DEF Passed
  <2>2. CASE r \notin Rows
    <3>1. e.seq \in Nat
      BY DEF Events
    <3>2. ~(position <= start)
      BY <1>1, <1>3, <2>2, <3>1
    <3>3. PICK q \in Rows : log[q].seq = position
      BY <3>2 DEF AtRow
    <3>4. log[q].seq < e.seq
      BY <1>1, <1>3, <2>2
    <3> QED BY <1>1, <1>3, <2>2, <3>1, <3>3, <3>4
  <2> QED BY <1>1, <2>1, <2>2
<1> QED BY <1>2, <1>3

LEMMA CommitInv ==
  ASSUME IInv, NEW w \in Writers, Commit(w)
  PROVE  IInv'
<1> USE DEF IInv
<1>1. PICK e \in Events :
        /\ e \in writing[w]
        /\ committed' = committed + 1 /\ committed + 1 \in RowIds
        /\ Rows' = Rows \cup {committed + 1} /\ committed + 1 \notin Rows
        /\ log' = [log EXCEPT ![committed + 1] = e]
        /\ log'[committed + 1] = e
        /\ \A r \in Rows : log'[r] = log[r]
  BY CommitRow
<1>2. /\ UNCHANGED <<clock, k9Vars, streamVars, starts>>
      /\ writing' = [writing EXCEPT ![w] = {}]
  BY DEF Commit
<1>2a. UNCHANGED <<clock, stateFile, k9, routed, activity, streamer, streamed, starts>>
  BY <1>2 DEF k9Vars, streamVars
<1>3. Types'
  <2>1. committed' \in 0..MaxEvents
    BY <1>1, RowsAreIds DEF RowIds
  <2>2. log' \in [RowIds -> [seq : Nat, kind : Kinds]]
    BY <1>1 DEF Types, Events
  <2>3. writing' \in [Writers -> {{}} \cup {{x} : x \in Events}]
    BY <1>2 DEF Types
  <2>4. e.seq # 0 /\ e.seq <= clock
    BY <1>1 DEF Types, Events
  <2>5. \A r \in Rows' : log'[r].seq # 0 /\ log'[r].seq <= clock
    BY <1>1, <2>4 DEF Types
  <2>6. \A v \in Writers : \A x \in writing'[v] : x.seq <= clock
    BY <1>2 DEF Types
  <2>7. clock' = clock
    BY <1>2a
  <2> QED BY <1>2a, <2>1, <2>2, <2>3, <2>5, <2>6, <2>7 DEF Types, Positions, RowIds
<1>4. k9 \in Positions /\ streamer \in Positions /\ k9.last \in Nat /\ stateFile \in Nat
      /\ streamer.last \in Nat /\ streamer.since \in Nat
  BY DEF Types, Positions
<1>5. K9Sound'
  <2>1. Closed(k9)'
    BY <1>2a, <1>4, CommitClosed DEF K9Sound
  <2>2. AtRow(k9.last, 0)' /\ Passed(0, k9.last, routed)'
    <3>1. 0 \in Nat
      OBVIOUS
    <3> QED BY <1>2a, <1>4, <3>1, CommitPassed DEF K9Sound, AtRow, Passed
  <2>3. AtRow(stateFile, 0)' /\ Passed(0, stateFile, routed)'
    <3>1. 0 \in Nat
      OBVIOUS
    <3> QED BY <1>2a, <1>4, <3>1, CommitPassed DEF K9Sound, AtRow, Passed
  <2> QED BY <2>1, <2>2, <2>3 DEF K9Sound
<1>6. StreamSound'
  <2>1. Closed(streamer)'
    BY <1>2a, <1>4, CommitClosed DEF StreamSound
  <2>2. AtRow(streamer.last, streamer.since)' /\ Passed(streamer.since, streamer.last, streamed)'
    BY <1>2a, <1>4, CommitPassed DEF StreamSound, AtRow, Passed
  <2> QED BY <2>1, <2>2 DEF StreamSound
<1>7. K9Repeats'
  <2>1. ASSUME NEW r \in RowIds
        PROVE  routed[r] <= starts["k9"] /\ (r \notin Rows' => routed[r] = 0)
    BY <1>1 DEF K9Repeats
  <2>2. ASSUME k9.pc # "down", NEW r \in RowIds,
               r \notin Rows' \/ log'[r].seq > k9.last \/ r \in k9.batch
        PROVE  routed[r] < starts["k9"]
    BY <1>1, <2>2 DEF K9Repeats
  <2> QED BY <1>2a, <2>1, <2>2 DEF K9Repeats
<1>8. StreamRepeats'
  BY <1>1, <1>2a DEF StreamRepeats
<1> QED BY <1>3, <1>5, <1>6, <1>7, <1>8

-------------------------------------------------------------------------------
(* The other steps leave the rows alone *)

LEMMA SameTable ==
  ASSUME UNCHANGED <<committed, log>>
  PROVE  Rows' = Rows /\ \A r : InOrder(r)' <=> InOrder(r)
BY DEF Rows, InOrder

LEMMA DownFacts ==
  /\ Down \in Positions /\ Down.pc = "down" /\ Down.last = 0 /\ Down.since = 0
  /\ Down.batch = {}
BY DEF Down, Positions

\* A consumer that has fetched nothing and is where it began has passed nothing.
LEMMA FreshSound ==
  ASSUME Types, NEW p \in Nat, NEW done
  PROVE  /\ AtRow(p, p)
         /\ Passed(p, p, done)
         /\ \A c : c.batch = {} => Closed(c)
<1>1. \A r \in Rows : log[r].seq \in Nat
  BY RowsAreIds DEF Types
<1>2. Passed(p, p, done)
  BY <1>1 DEF Passed
<1>3. AtRow(p, p)
  BY DEF AtRow
<1>4. \A c : c.batch = {} => Closed(c)
  BY DEF Closed
<1> QED BY <1>2, <1>3, <1>4

LEMMA ClockInv ==
  ASSUME IInv, Tick \/ (\E w \in Writers : Stamp(w)) \/ IngestFile
  PROVE  IInv'
<1> USE DEF IInv
<1>1. UNCHANGED <<committed, log, stateFile, k9, routed, streamer, streamed, starts>>
  BY DEF Tick, Stamp, IngestFile, k9Vars, streamVars, tableVars
<1>2. Rows' = Rows /\ \A r : InOrder(r)' <=> InOrder(r)
  BY <1>1, SameTable
<1>3. /\ clock' \in Nat \ {0} /\ clock <= clock' /\ activity' \in Nat
      /\ activity <= activity' /\ activity' <= clock'
  <2>1. /\ clock' = clock \/ clock' = clock + 1
        /\ activity' = activity \/ (activity' = clock /\ clock' = clock)
    BY DEF Tick, Stamp, IngestFile, streamVars, tableVars
  <2>2. clock \in Nat \ {0} /\ activity \in Nat /\ activity <= clock
    BY DEF Types
  <2> QED BY <2>1, <2>2
<1>4. /\ writing' \in [Writers -> {{}} \cup {{e} : e \in Events}]
      /\ \A w \in Writers : \A e \in writing'[w] : e.seq <= clock'
  <2>1. CASE writing' = writing
    BY <1>3, <2>1 DEF Types, Events
  <2>2. ASSUME NEW w \in Writers, Stamp(w)
        PROVE  <1>4
    <3>1. PICK kind \in Kinds : writing' = [writing EXCEPT ![w] = {[seq |-> clock, kind |-> kind]}]
      BY <2>2 DEF Stamp
    <3>2. PICK new : new = [seq |-> clock, kind |-> kind]
      OBVIOUS
    <3>3. new \in Events /\ new.seq = clock /\ clock' = clock /\ clock \in Nat
      BY <2>2, <3>2 DEF Stamp, Events, Types
    <3>4. writing' = [writing EXCEPT ![w] = {new}]
      BY <3>1, <3>2
    <3>5. writing' \in [Writers -> {{}} \cup {{e} : e \in Events}]
      BY <3>3, <3>4 DEF Types
    <3>6. \A v \in Writers : \A e \in writing'[v] : e.seq <= clock'
      BY <3>3, <3>4 DEF Types
    <3> QED BY <3>5, <3>6
  <2> QED BY <2>1, <2>2 DEF Tick, IngestFile, tableVars
<1>5. \A r \in Rows : log[r].seq \in Nat
  BY RowsAreIds DEF Types
<1>6. Types'
  <2>1. \A r \in Rows' : log'[r].seq # 0 /\ log'[r].seq <= clock'
    BY <1>1, <1>2, <1>3, <1>5 DEF Types
  <2>2. log' \in [RowIds -> [seq : Nat, kind : Kinds]] /\ starts' \in [Consumers -> Nat]
    BY <1>1 DEF Types
  <2>3. k9' \in Positions /\ streamer' \in Positions
    BY <1>1 DEF Types
  <2> QED BY <1>1, <1>3, <1>4, <2>1, <2>2, <2>3 DEF Types
<1>7. K9Sound' /\ StreamSound'
  BY <1>1, <1>2 DEF K9Sound, StreamSound, Closed, AtRow, Passed
<1>8. K9Repeats'
  BY <1>1, <1>2 DEF K9Repeats
<1>9. StreamRepeats'
  BY <1>1, <1>2, <1>3, <1>5 DEF StreamRepeats, Types
<1> QED BY <1>6, <1>7, <1>8, <1>9

-------------------------------------------------------------------------------
(* Steps of the subscriber leave the streamer's part alone, and conversely       *)

LEMMA K9Frame ==
  ASSUME IInv, UNCHANGED <<tableVars, streamVars>>,
         stateFile' \in Nat, k9' \in Positions, routed' \in [RowIds -> Nat],
         starts' \in [Consumers -> Nat]
  PROVE  Types' /\ StreamSound' /\ StreamRepeats'
<1>1. UNCHANGED <<clock, writing, committed, log, activity, streamer, streamed>>
  BY DEF tableVars, streamVars
<1>2. Rows' = Rows /\ \A r : InOrder(r)' <=> InOrder(r)
  BY <1>1, SameTable
<1>3. Types'
  BY <1>1, <1>2 DEF IInv, Types
<1>4. StreamSound'
  BY <1>1, <1>2 DEF IInv, StreamSound, Closed, AtRow, Passed
<1>5. StreamRepeats'
  BY <1>1, <1>2 DEF IInv, StreamRepeats
<1> QED BY <1>3, <1>4, <1>5

LEMMA StreamFrame ==
  ASSUME IInv, UNCHANGED <<tableVars, k9Vars>>,
         activity' \in Nat, activity' <= clock, streamer' \in Positions,
         streamed' \in [RowIds -> Nat],
         starts' \in [Consumers -> Nat], starts'["k9"] = starts["k9"]
  PROVE  Types' /\ K9Sound' /\ K9Repeats'
<1>1. UNCHANGED <<clock, writing, committed, log, stateFile, k9, routed>>
  BY DEF tableVars, k9Vars
<1>2. Rows' = Rows /\ \A r : InOrder(r)' <=> InOrder(r)
  BY <1>1, SameTable
<1>3. Types'
  BY <1>1, <1>2 DEF IInv, Types
<1>4. K9Sound'
  BY <1>1, <1>2 DEF IInv, K9Sound, Closed, AtRow, Passed
<1>5. K9Repeats'
  BY <1>1, <1>2 DEF IInv, K9Repeats
<1> QED BY <1>3, <1>4, <1>5

-------------------------------------------------------------------------------
(* The subscriber                                                                *)

LEMMA K9StartInv ==
  ASSUME IInv, K9Start
  PROVE  IInv'
<1> USE DEF IInv
<1>1. /\ UNCHANGED <<tableVars, stateFile, routed, streamVars>>
      /\ starts' = [starts EXCEPT !["k9"] = @ + 1]
      /\ k9' = [pc |-> "poll", last |-> stateFile, since |-> stateFile, batch |-> {}]
  BY DEF K9Start, Started
<1>2. /\ stateFile \in Nat /\ k9' \in Positions /\ starts' \in [Consumers -> Nat]
      /\ starts'["k9"] = starts["k9"] + 1 /\ starts["k9"] \in Nat
      /\ k9'.pc = "poll" /\ k9'.last = stateFile /\ k9'.batch = {}
  BY <1>1 DEF Types, Positions, Consumers
<1>3. UNCHANGED <<committed, log>>
  BY <1>1 DEF tableVars
<1>4. Rows' = Rows /\ \A r : InOrder(r)' <=> InOrder(r)
  BY <1>3, SameTable
<1>5. Types' /\ StreamSound' /\ StreamRepeats'
  BY <1>1, <1>2, K9Frame DEF Types
<1>6. K9Sound'
  BY <1>1, <1>2, <1>3, <1>4 DEF K9Sound, Closed, AtRow, Passed
<1>7. \A r \in RowIds : routed[r] \in Nat
  BY DEF Types
<1>8. K9Repeats'
  BY <1>1, <1>2, <1>4, <1>7 DEF K9Repeats
<1> QED BY <1>5, <1>6, <1>8

LEMMA K9StopInv ==
  ASSUME IInv, k9' = Down, UNCHANGED <<tableVars, stateFile, routed, streamVars, starts>>
  PROVE  IInv'
<1> USE DEF IInv
<1>1. /\ stateFile \in Nat /\ k9' \in Positions /\ k9'.pc = "down" /\ k9'.last = 0
      /\ k9'.batch = {}
  BY DownFacts DEF Types
<1>2. UNCHANGED <<committed, log, stateFile, routed, starts>>
  BY DEF tableVars
<1>3. Rows' = Rows /\ \A r : InOrder(r)' <=> InOrder(r)
  BY <1>2, SameTable
<1>4. Types' /\ StreamSound' /\ StreamRepeats'
  BY <1>1, <1>2, K9Frame DEF Types
<1>5. Passed(0, 0, routed)
  BY FreshSound
<1>6. K9Sound'
  BY <1>1, <1>2, <1>3, <1>5 DEF K9Sound, Closed, AtRow, Passed
<1>7. K9Repeats'
  BY <1>1, <1>2, <1>3 DEF K9Repeats
<1> QED BY <1>4, <1>6, <1>7

\* The batch is every row behind the position.
LEMMA K9PollInv ==
  ASSUME IInv, K9Poll
  PROVE  IInv'
<1> USE DEF IInv
<1>1. /\ UNCHANGED <<tableVars, stateFile, routed, streamVars, starts>>
      /\ k9.pc = "poll"
      /\ k9' = [k9 EXCEPT !.pc = "work", !.batch = NewRows(k9.last)]
  BY DEF K9Poll
<1>2. UNCHANGED <<committed, log, stateFile, routed, starts>>
  BY <1>1 DEF tableVars
<1>3. Rows' = Rows /\ \A r : InOrder(r)' <=> InOrder(r)
  BY <1>2, SameTable
<1>4. NewRows(k9.last) \subseteq Rows
  BY DEF NewRows
<1>5. /\ k9' \in Positions /\ k9'.pc = "work" /\ k9'.last = k9.last
      /\ k9'.batch = NewRows(k9.last) /\ k9.last \in Nat
  BY <1>1, <1>4, RowsAreIds DEF Types, Positions
<1>6. \A r \in Rows : log[r].seq \in Nat
  BY RowsAreIds DEF Types
<1>7. Types' /\ StreamSound' /\ StreamRepeats'
  BY <1>1, <1>2, <1>5, K9Frame DEF Types
<1>8. Closed(k9)'
  BY <1>2, <1>3, <1>4, <1>5, <1>6 DEF Closed, NewRows
<1>9. K9Sound'
  BY <1>2, <1>3, <1>5, <1>8 DEF K9Sound, AtRow, Passed
<1>10. K9Repeats'
  BY <1>1, <1>2, <1>3, <1>5, <1>6 DEF K9Repeats, NewRows
<1> QED BY <1>7, <1>9, <1>10

\* Saving the position: the file is empty for a moment, then holds the position.
LEMMA K9SaveInv ==
  ASSUME IInv, K9Truncate \/ K9Write
  PROVE  IInv'
<1> USE DEF IInv
<1>1. /\ UNCHANGED <<tableVars, routed, streamVars, starts>>
      /\ k9.pc # "down" /\ stateFile' \in {0, k9.last}
      /\ \E pc \in {"write", "poll"} : k9' = [k9 EXCEPT !.pc = pc]
  BY DEF K9Truncate, K9Write
<1>2. UNCHANGED <<committed, log, routed, starts>>
  BY <1>1 DEF tableVars
<1>3. Rows' = Rows /\ \A r : InOrder(r)' <=> InOrder(r)
  BY <1>2, SameTable
<1>4. /\ k9' \in Positions /\ k9'.pc # "down" /\ k9'.last = k9.last
      /\ k9'.batch = k9.batch /\ stateFile' \in Nat
  BY <1>1 DEF Types, Positions
<1>5. Types' /\ StreamSound' /\ StreamRepeats'
  BY <1>1, <1>2, <1>4, K9Frame DEF Types
<1>6. Passed(0, 0, routed) /\ AtRow(0, 0)
  BY FreshSound
<1>7. Closed(k9)'
  BY <1>2, <1>3, <1>4 DEF K9Sound, Closed
<1>8. (AtRow(k9.last, 0) /\ Passed(0, k9.last, routed))'
  BY <1>2, <1>3, <1>4 DEF K9Sound, AtRow, Passed
<1>9. (AtRow(stateFile, 0) /\ Passed(0, stateFile, routed))'
  <2>1. CASE stateFile' = 0
    BY <1>2, <1>3, <1>6, <2>1 DEF AtRow, Passed
  <2>2. CASE stateFile' = k9.last
    BY <1>2, <1>3, <2>2 DEF K9Sound, AtRow, Passed
  <2> QED BY <1>1, <2>1, <2>2
<1>10. K9Sound'
  BY <1>7, <1>8, <1>9 DEF K9Sound
<1>11. K9Repeats'
  BY <1>1, <1>2, <1>3, <1>4 DEF K9Repeats
<1> QED BY <1>5, <1>10, <1>11

\* A row in order at or before the first of the batch, and behind the position, is
\* that first one.
LEMMA FirstIsNext ==
  ASSUME Types, NEW c, Closed(c), NEW q \in First(c.batch), c.last \in Nat,
         NEW r \in Rows, InOrder(r), c.last < log[r].seq, log[r].seq <= log[q].seq
  PROVE  r = q
<1>1. q \in c.batch /\ r \in c.batch /\ q \in Rows
  BY DEF First, Closed
<1>2. log[q].seq \in Nat /\ log[r].seq \in Nat
  BY <1>1, RowsAreIds DEF Types
<1>3. log[q].seq = log[r].seq
  BY <1>1, <1>2 DEF First
<1> QED BY <1>1, <1>3 DEF InOrder

\* The position moves to the first row of the batch, which leaves the batch.
LEMMA StepClosed ==
  ASSUME Types, NEW c, Closed(c), c.last \in Nat, NEW q \in First(c.batch),
         NEW d, d.batch = c.batch \ {q}, d.last = log[q].seq
  PROVE  Closed(d)
<1>1. c.batch \subseteq Rows /\ q \in c.batch
  BY DEF Closed, First
<1>2. \A r \in Rows : log[r].seq \in Nat
  BY RowsAreIds DEF Types
<1>3. \A r \in d.batch : d.last <= log[r].seq
  BY DEF First
<1>4. ASSUME NEW r \in Rows, NEW p \in d.batch,
             InOrder(r), d.last < log[r].seq, log[r].seq <= log[p].seq
      PROVE  r \in d.batch
  <2>1. c.last <= log[q].seq
    BY <1>1 DEF Closed
  <2>2. c.last < log[r].seq
    BY <1>1, <1>2, <1>4, <2>1
  <2>3. r \in c.batch
    BY <1>4, <2>2 DEF Closed
  <2>4. r # q
    BY <1>2, <1>4
  <2> QED BY <2>3, <2>4
<1> QED BY <1>1, <1>3, <1>4 DEF Closed

LEMMA StepPassed ==
  ASSUME Types, NEW c, Closed(c), c.last \in Nat, NEW start \in Nat,
         NEW q \in First(c.batch),
         NEW done \in [RowIds -> Nat], Passed(start, c.last, done)
  PROVE  /\ q \in Rows /\ q \in c.batch /\ log[q].seq \in Nat /\ c.last <= log[q].seq
         /\ AtRow(log[q].seq, start)
         /\ Passed(start, log[q].seq, [done EXCEPT ![q] = @ + 1])
<1>1. /\ q \in Rows /\ q \in c.batch /\ log[q].seq \in Nat /\ c.last <= log[q].seq
      /\ q \in RowIds
  BY RowsAreIds DEF Closed, First, Types
<1>2. AtRow(log[q].seq, start)
  BY <1>1 DEF AtRow
<1>3. ASSUME NEW r \in Rows, InOrder(r), start < log[r].seq, log[r].seq <= log[q].seq
      PROVE  [done EXCEPT ![q] = @ + 1][r] > 0
  <2>0. r \in RowIds /\ log[r].seq \in Nat /\ done[r] \in Nat
    BY RowsAreIds DEF Types
  <2>1. CASE log[r].seq <= c.last
    <3>1. done[r] > 0
      BY <1>3, <2>1 DEF Passed
    <3> QED BY <1>1, <2>0, <3>1
  <2>2. CASE c.last < log[r].seq
    <3>1. r = q
      BY <1>3, <2>2, FirstIsNext
    <3> QED BY <1>1, <2>0, <3>1
  <2> QED BY <2>0, <2>1, <2>2
<1> QED BY <1>1, <1>2, <1>3 DEF Passed

LEMMA K9RouteInv ==
  ASSUME IInv, K9Route
  PROVE  IInv'
<1> USE DEF IInv
<1>1. PICK q \in First(k9.batch) :
        IF log[q].kind = "broken"
          THEN k9' = Down /\ UNCHANGED routed
          ELSE /\ routed' = [routed EXCEPT ![q] = @ + 1]
               /\ k9' = [k9 EXCEPT !.batch = @ \ {q}, !.last = log[q].seq,
                                   !.pc = IF k9.batch = {q} THEN "save" ELSE "work"]
  BY DEF K9Route
<1>2. k9.pc = "work" /\ UNCHANGED <<tableVars, stateFile, streamVars, starts>>
  BY DEF K9Route
<1>3. CASE log[q].kind = "broken"
  BY <1>1, <1>2, <1>3, K9StopInv
<1>4. CASE log[q].kind # "broken"
  <2>1. UNCHANGED <<committed, log, stateFile, starts>>
    BY <1>2 DEF tableVars
  <2>2. Rows' = Rows /\ \A r : InOrder(r)' <=> InOrder(r)
    BY <2>1, SameTable
  <2>3. k9 \in Positions /\ k9.last \in Nat /\ Closed(k9) /\ 0 \in Nat
        /\ routed \in [RowIds -> Nat] /\ Passed(0, k9.last, routed)
    BY DEF Types, Positions, K9Sound
  <2>4. /\ q \in Rows /\ q \in k9.batch /\ log[q].seq \in Nat /\ k9.last <= log[q].seq
        /\ AtRow(log[q].seq, 0)
        /\ Passed(0, log[q].seq, [routed EXCEPT ![q] = @ + 1])
    BY <2>3, StepPassed
  <2>5. PICK d : d = k9'
    OBVIOUS
  <2>6. /\ d \in Positions /\ d.batch = k9.batch \ {q} /\ d.last = log[q].seq
        /\ d.pc \in {"save", "work"} /\ d.pc # "down"
    <3>1. PICK pc \in {"save", "work"} :
            d = [k9 EXCEPT !.batch = @ \ {q}, !.last = log[q].seq, !.pc = pc]
      BY <1>1, <1>4, <2>5
    <3>2. k9.batch \ {q} \in SUBSET RowIds
      BY <2>3 DEF Positions
    <3> QED BY <2>3, <2>4, <3>1, <3>2 DEF Positions
  <2>7. Closed(d)
    BY <2>3, <2>6, StepClosed
  <2>8. routed' = [routed EXCEPT ![q] = @ + 1] /\ routed' \in [RowIds -> Nat] /\ q \in RowIds
    BY <1>1, <1>4, <2>3, <2>4, RowsAreIds
  <2>9. \A r \in RowIds : /\ routed[r] \in Nat /\ routed'[r] \in Nat /\ routed[r] <= routed'[r]
                          /\ r # q => routed'[r] = routed[r]
    BY <2>3, <2>8
  <2>10. Types' /\ StreamSound' /\ StreamRepeats'
    BY <1>2, <2>1, <2>5, <2>6, <2>8, K9Frame DEF Types
  <2>11. Closed(k9)'
    BY <2>1, <2>2, <2>5, <2>7 DEF Closed
  <2>12. (AtRow(k9.last, 0) /\ Passed(0, k9.last, routed))'
    BY <2>1, <2>2, <2>4, <2>5, <2>6, <2>8 DEF AtRow, Passed
  <2>13. (AtRow(stateFile, 0) /\ Passed(0, stateFile, routed))'
    BY <2>1, <2>2, <2>9, RowsAreIds DEF K9Sound, AtRow, Passed
  <2>14. K9Sound'
    BY <2>11, <2>12, <2>13 DEF K9Sound
  <2>15. starts["k9"] \in Nat /\ routed[q] < starts["k9"]
    BY <1>2, <2>4, <2>8 DEF Types, Consumers, K9Repeats
  <2>16. \A r \in RowIds : routed'[r] <= starts["k9"] /\ (r \notin Rows => routed'[r] = 0)
    BY <2>4, <2>8, <2>9, <2>15, <2>3 DEF K9Repeats
  <2>17. ASSUME NEW r \in RowIds, r \notin Rows \/ log[r].seq > d.last \/ r \in d.batch
         PROVE  routed'[r] < starts["k9"]
    <3>1. r # q
      BY <2>4, <2>6, <2>17
    <3>2. CASE r \notin Rows
      BY <3>1, <3>2, <1>2, <2>9 DEF K9Repeats
    <3>3. CASE r \in Rows /\ log[r].seq > d.last
      <4>1. log[r].seq > k9.last
        BY <3>3, <2>3, <2>4, <2>6, RowsAreIds DEF Types
      <4> QED BY <3>1, <4>1, <1>2, <2>9 DEF K9Repeats
    <3>4. CASE r \in d.batch
      BY <3>1, <3>4, <1>2, <2>6, <2>9 DEF K9Repeats
    <3> QED BY <2>17, <3>2, <3>3, <3>4
  <2>18. K9Repeats'
    <3>1. starts["k9"] > 0
      BY <1>2 DEF K9Repeats
    <3>2. \A r \in RowIds : (r \notin Rows' \/ log'[r].seq > k9'.last \/ r \in k9'.batch)
                              => routed'[r] < starts'["k9"]
      BY <2>1, <2>2, <2>5, <2>17
    <3> QED BY <2>1, <2>2, <2>16, <3>1, <3>2 DEF K9Repeats
  <2> QED BY <2>10, <2>14, <2>18
<1> QED BY <1>3, <1>4

-------------------------------------------------------------------------------
(* The streamer                                                                  *)

LEMMA StreamStartInv ==
  ASSUME IInv, StreamStart
  PROVE  IInv'
<1> USE DEF IInv
<1>1. /\ UNCHANGED <<tableVars, k9Vars, activity, streamed>>
      /\ starts' = [starts EXCEPT !["streamer"] = @ + 1]
      /\ streamer' = [pc |-> "poll", last |-> activity, since |-> activity, batch |-> {}]
  BY DEF StreamStart, Started
<1>2. /\ activity \in Nat /\ streamer' \in Positions /\ starts' \in [Consumers -> Nat]
      /\ starts'["k9"] = starts["k9"] /\ streamer'.pc = "poll"
      /\ streamer'.last = activity /\ streamer'.since = activity /\ streamer'.batch = {}
  BY <1>1 DEF Types, Positions, Consumers
<1>3. UNCHANGED <<committed, log>>
  BY <1>1 DEF tableVars
<1>4. Rows' = Rows /\ \A r : InOrder(r)' <=> InOrder(r)
  BY <1>3, SameTable
<1>5. Types' /\ K9Sound' /\ K9Repeats'
  BY <1>1, <1>2, StreamFrame DEF Types
<1>6. Passed(activity, activity, streamed) /\ AtRow(activity, activity)
  BY <1>2, FreshSound
<1>7. StreamSound'
  BY <1>1, <1>2, <1>3, <1>4, <1>6 DEF StreamSound, Closed, AtRow, Passed
<1>8. StreamRepeats'
  BY <1>1, <1>2, <1>3, <1>4 DEF StreamRepeats
<1> QED BY <1>5, <1>7, <1>8

LEMMA StreamCrashInv ==
  ASSUME IInv, StreamCrash
  PROVE  IInv'
<1> USE DEF IInv
<1>1. streamer' = Down /\ UNCHANGED <<tableVars, k9Vars, activity, streamed, starts>>
  BY DEF StreamCrash
<1>2. /\ streamer' \in Positions /\ streamer'.pc = "down" /\ streamer'.last = 0
      /\ streamer'.since = 0 /\ streamer'.batch = {}
  BY <1>1, DownFacts
<1>3. UNCHANGED <<committed, log>>
  BY <1>1 DEF tableVars
<1>4. Rows' = Rows /\ \A r : InOrder(r)' <=> InOrder(r)
  BY <1>3, SameTable
<1>5. Types' /\ K9Sound' /\ K9Repeats'
  BY <1>1, <1>2, StreamFrame DEF Types
<1>6. Passed(0, 0, streamed) /\ AtRow(0, 0)
  BY FreshSound
<1>7. StreamSound'
  BY <1>1, <1>2, <1>3, <1>4, <1>6 DEF StreamSound, Closed, AtRow, Passed
<1>8. StreamRepeats'
  BY <1>1, <1>2, <1>3, <1>4 DEF StreamRepeats
<1> QED BY <1>5, <1>7, <1>8

\* A batch cut at the limit leaves out only rows that are not before any of its own.
LEMMA StreamPollInv ==
  ASSUME IInv, StreamPoll
  PROVE  IInv'
<1> USE DEF IInv
<1>1. PICK batch \in Batches(NewRows(streamer.last)) :
        streamer' = [streamer EXCEPT !.pc = "work", !.batch = batch]
  BY DEF StreamPoll
<1>2. streamer.pc = "poll" /\ UNCHANGED <<tableVars, k9Vars, activity, streamed, starts>>
  BY DEF StreamPoll
<1>3. UNCHANGED <<committed, log, activity, streamed, starts>>
  BY <1>2 DEF tableVars
<1>4. Rows' = Rows /\ \A r : InOrder(r)' <=> InOrder(r)
  BY <1>3, SameTable
<1>5. /\ batch \subseteq NewRows(streamer.last)
      /\ \A r \in batch, q \in NewRows(streamer.last) \ batch : log[r].seq <= log[q].seq
  BY <1>1 DEF Batches
<1>6. /\ streamer' \in Positions /\ streamer'.pc = "work" /\ streamer'.batch = batch
      /\ streamer'.last = streamer.last /\ streamer'.since = streamer.since
      /\ streamer.last \in Nat
  BY <1>1, <1>5, RowsAreIds DEF Types, Positions, NewRows
<1>7. Types' /\ K9Sound' /\ K9Repeats'
  BY <1>2, <1>3, <1>6, StreamFrame DEF Types
<1>8. \A r \in Rows : log[r].seq \in Nat
  BY RowsAreIds DEF Types
<1>9. ASSUME NEW r \in Rows, NEW q \in batch,
             InOrder(r), streamer.last < log[r].seq, log[r].seq <= log[q].seq
      PROVE  r \in batch
  <2> SUFFICES ASSUME r \notin batch
               PROVE  FALSE
    OBVIOUS
  <2>1. r \in NewRows(streamer.last) /\ q \in Rows
    BY <1>5, <1>6, <1>8, <1>9 DEF NewRows
  <2>2. log[q].seq <= log[r].seq
    BY <1>5, <2>1
  <2>3. log[q].seq = log[r].seq /\ q # r
    BY <1>8, <1>9, <2>1, <2>2
  <2> QED BY <1>9, <2>1, <2>3 DEF InOrder
<1>10. Closed(streamer)'
  <2>1. batch \subseteq Rows /\ \A q \in batch : streamer.last <= log[q].seq
    BY <1>5, <1>6, <1>8 DEF NewRows
  <2> QED BY <1>3, <1>4, <1>6, <1>9, <2>1 DEF Closed
<1>11. StreamSound'
  BY <1>3, <1>4, <1>6, <1>10 DEF StreamSound, AtRow, Passed
<1>12. \A r \in RowIds : streamed[r] > 0 => r \notin batch /\ r \in Rows
                                            /\ log[r].seq <= streamer.last
  <2>1. ASSUME NEW r \in RowIds, streamed[r] > 0
        PROVE  r \notin batch /\ r \in Rows /\ log[r].seq <= streamer.last
    <3>1. r \in Rows /\ log[r].seq <= streamer.last
      BY <1>2, <2>1 DEF StreamRepeats
    <3>2. r \notin NewRows(streamer.last)
      BY <1>6, <1>8, <3>1 DEF NewRows
    <3> QED BY <1>5, <3>1, <3>2
  <2> QED BY <2>1
<1>13. StreamRepeats'
  BY <1>3, <1>4, <1>6, <1>12 DEF StreamRepeats
<1> QED BY <1>7, <1>11, <1>13

LEMMA StreamEventInv ==
  ASSUME IInv, StreamEvent
  PROVE  IInv'
<1> USE DEF IInv
<1>1. PICK q \in First(streamer.batch) :
        /\ streamed' = [streamed EXCEPT ![q] = @ + 1]
        /\ streamer' = [streamer EXCEPT !.batch = @ \ {q}, !.last = log[q].seq,
                                  !.pc = IF streamer.batch = {q} THEN "poll" ELSE "work"]
  BY DEF StreamEvent
<1>2. streamer.pc = "work" /\ activity' = clock /\ UNCHANGED <<tableVars, k9Vars, starts>>
  BY DEF StreamEvent
<1>3. UNCHANGED <<clock, committed, log, starts>>
  BY <1>2 DEF tableVars
<1>4. Rows' = Rows /\ \A r : InOrder(r)' <=> InOrder(r)
  BY <1>3, SameTable
<1>5. /\ streamer \in Positions /\ streamer.last \in Nat /\ streamer.since \in Nat
      /\ Closed(streamer) /\ streamed \in [RowIds -> Nat]
      /\ Passed(streamer.since, streamer.last, streamed)
      /\ clock \in Nat /\ activity \in Nat /\ activity <= clock
  BY DEF Types, Positions, StreamSound
<1>6. /\ q \in Rows /\ q \in streamer.batch /\ log[q].seq \in Nat
      /\ streamer.last <= log[q].seq
      /\ AtRow(log[q].seq, streamer.since)
      /\ Passed(streamer.since, log[q].seq, [streamed EXCEPT ![q] = @ + 1])
  BY <1>5, StepPassed
<1>7. PICK d : d = streamer'
  OBVIOUS
<1>8. /\ d \in Positions /\ d.batch = streamer.batch \ {q} /\ d.last = log[q].seq
      /\ d.since = streamer.since /\ d.pc # "down"
  <2>1. PICK pc \in {"poll", "work"} :
          d = [streamer EXCEPT !.batch = @ \ {q}, !.last = log[q].seq, !.pc = pc]
    BY <1>1, <1>7
  <2>2. streamer.batch \ {q} \in SUBSET RowIds
    BY <1>5 DEF Positions
  <2> QED BY <1>5, <1>6, <2>1, <2>2 DEF Positions
<1>9. Closed(d)
  BY <1>5, <1>8, StepClosed
<1>10. q \in RowIds /\ streamed' \in [RowIds -> Nat]
       /\ streamed'[q] = streamed[q] + 1
       /\ \A r \in RowIds : r # q => streamed'[r] = streamed[r]
  BY <1>1, <1>5, <1>6, RowsAreIds
<1>11. Types' /\ K9Sound' /\ K9Repeats'
  <2>1. /\ UNCHANGED <<tableVars, k9Vars>> /\ starts' \in [Consumers -> Nat]
        /\ starts'["k9"] = starts["k9"]
    BY <1>2 DEF Types
  <2>2. /\ activity' \in Nat /\ activity' <= clock /\ streamer' \in Positions
        /\ streamed' \in [RowIds -> Nat]
    BY <1>2, <1>5, <1>7, <1>8, <1>10
  <2> QED BY <2>1, <2>2, StreamFrame
<1>12. Closed(streamer)'
  BY <1>3, <1>4, <1>7, <1>9 DEF Closed
<1>13. (AtRow(streamer.last, streamer.since)
         /\ Passed(streamer.since, streamer.last, streamed))'
  BY <1>1, <1>3, <1>4, <1>6, <1>7, <1>8 DEF AtRow, Passed
<1>14. StreamSound'
  BY <1>12, <1>13 DEF StreamSound
<1>15. streamed[q] = 0
  <2>1. ~(streamed[q] > 0)
    BY <1>2, <1>6, <1>10 DEF StreamRepeats
  <2> QED BY <2>1, <1>5, <1>10
<1>16. ASSUME NEW r \in RowIds
       PROVE  /\ streamed'[r] <= 1
              /\ streamed'[r] > 0 => /\ r \in Rows /\ log[r].seq <= clock
                                     /\ log[r].seq <= d.last /\ r \notin d.batch
  <2>0. \A p \in Rows : log[p].seq \in Nat /\ log[p].seq <= clock
    BY RowsAreIds DEF Types
  <2>1. CASE r = q
    BY <1>6, <1>8, <1>10, <1>15, <2>0, <2>1
  <2>2. CASE r # q
    <3>1. streamed'[r] = streamed[r] /\ streamed[r] <= 1
      BY <1>10, <2>2 DEF StreamRepeats
    <3>2. ASSUME streamed[r] > 0
          PROVE  r \in Rows /\ log[r].seq <= streamer.last /\ r \notin streamer.batch
      BY <1>2, <3>2 DEF StreamRepeats
    <3> QED BY <1>5, <1>6, <1>8, <2>0, <3>1, <3>2
  <2> QED BY <2>1, <2>2
<1>17. StreamRepeats'
  BY <1>2, <1>3, <1>4, <1>7, <1>16 DEF StreamRepeats
<1> QED BY <1>11, <1>14, <1>17

-------------------------------------------------------------------------------

LEMMA NextInv ==
  ASSUME IInv, [Next]_vars
  PROVE  IInv'
<1>1. ASSUME Tick \/ (\E w \in Writers : Stamp(w)) \/ IngestFile
      PROVE  IInv'
  BY <1>1, ClockInv
<1>2. ASSUME NEW w \in Writers, Commit(w)
      PROVE  IInv'
  BY <1>2, CommitInv
<1>3. ASSUME K9 \/ K9Crash
      PROVE  IInv'
  <2>1. CASE K9Start
    BY <2>1, K9StartInv
  <2>2. CASE K9Poll
    BY <2>2, K9PollInv
  <2>3. CASE K9Route
    BY <2>3, K9RouteInv
  <2>4. CASE K9Truncate \/ K9Write
    BY <2>4, K9SaveInv
  <2>5. CASE K9Crash
    BY <2>5, K9StopInv DEF K9Crash
  <2> QED BY <1>3, <2>1, <2>2, <2>3, <2>4, <2>5 DEF K9
<1>4. ASSUME StreamStart \/ StreamPoll \/ StreamEvent \/ StreamCrash
      PROVE  IInv'
  BY <1>4, StreamStartInv, StreamPollInv, StreamEventInv, StreamCrashInv
<1>5. CASE UNCHANGED vars
  <2>1. UNCHANGED <<clock, writing, committed, log, stateFile, k9, routed, activity,
                    streamer, streamed, starts>>
    BY <1>5 DEF vars, tableVars, k9Vars, streamVars
  <2>2. Rows' = Rows /\ \A r : InOrder(r)' <=> InOrder(r)
    BY <2>1, SameTable
  <2> QED BY <2>1, <2>2 DEF IInv, Types, K9Sound, StreamSound, Closed, AtRow, Passed,
                            K9Repeats, StreamRepeats
<1> QED BY <1>1, <1>2, <1>3, <1>4, <1>5 DEF Next

LEMMA Invariance == Spec => []IInv
BY InitInv, NextInv, PTL DEF Spec

\* Whatever crashes and however often, neither consumer passes over an event that
\* was committed in the order of seq_global (run_subscriber, fetch_new_violations,
\* _fetch_new_cieu_events).
THEOREM NothingIsSkipped == Spec => []NothingSkipped
<1>1. IInv => NothingSkipped
  <2>1. ASSUME IInv, NEW r \in Rows, InOrder(r)
        PROVE  /\ log[r].seq <= k9.last => routed[r] > 0
               /\ log[r].seq <= stateFile => routed[r] > 0
               /\ (streamer.since < log[r].seq /\ log[r].seq <= streamer.last)
                    => streamed[r] > 0
    <3>1. 0 < log[r].seq
      BY <2>1, RowsAreIds DEF IInv, Types
    <3> QED BY <2>1, <3>1 DEF IInv, K9Sound, StreamSound, Passed
  <2> QED BY <2>1 DEF NothingSkipped
<1> QED BY <1>1, Invariance, PTL

\* A handler is called for a violation at most once per start of the subscriber, and
\* an event is projected at most once ever (save_last_processed_seq once per batch,
\* _get_last_ingested_seq from the activations).
THEOREM RepeatsBounded == Spec => []RepeatsOnlyAfterStart
<1>1. IInv => RepeatsOnlyAfterStart
  BY DEF IInv, K9Repeats, StreamRepeats, RepeatsOnlyAfterStart
<1> QED BY <1>1, Invariance, PTL
=============================================================================
