---------------------------- MODULE GrantChainProofs ----------------------------
(* What GrantChain promises of a spawn, for any number of workers, and of the     *)
(* grant file when workers do not write at the same time.                         *)
EXTENDS GrantChain, TLAPS

Times == 1..MaxTime
Burns == {{}} \cup {{g} : g \in Grants}

Jobs ==
  {Idle}
  \cup [pc : {"consume", "allowed"}, id : Grants, at : Marks]
  \cup [pc : {"retry"}, target : Targets]
  \cup [pc : {"open", "dump", "replace"}, list : Lists, burns : Burns, at : Marks,
        to : {"tmp", "file", "nowhere"}]

\* What a list says of its grants is what happened to them.
Sound(list) ==
  /\ list \in Lists
  /\ \A g \in DOMAIN list :
       /\ 0 < issued[g] /\ list[g].expires = issued[g] + TTL
       /\ list[g].used \subseteq marked[g]

SoundText(text) == text = Torn \/ Sound(text)

InTime(g, at) == \A t \in at : 0 < issued[g] /\ issued[g] <= t /\ t < issued[g] + TTL

Warranted(g, at) ==
  \A t \in at :
    /\ 0 < issued[g] /\ issued[g] <= t
    /\ t < issued[g] + TTL \/ \E m \in marked[g] : m <= t /\ t - m < Window

SoundJob(j) ==
  /\ j \in Jobs
  /\ j.pc = "consume" => InTime(j.id, j.at)
  /\ j.pc = "allowed" => Warranted(j.id, j.at)
  /\ j.pc \in {"open", "dump", "replace"} =>
       /\ Sound(j.list)
       /\ \A g \in j.burns : InTime(g, j.at)
       /\ j.at # {} => j.burns # {}

HistoryOK ==
  /\ clock \in Times
  /\ issued \in [Grants -> 0..MaxTime] /\ marked \in [Grants -> SUBSET Times]
  /\ \A g \in Grants : issued[g] <= clock /\ \A m \in marked[g] : m <= clock

\* The strengthening: every list is sound, in a file or in the hands of a worker,
\* however old it is, and so is what each worker has looked up.
IInv ==
  /\ HistoryOK
  /\ SoundText(file) /\ \A text \in tmp : SoundText(text)
  /\ \A w \in Workers : SoundJob(job[w])
  /\ job = [w \in Workers |-> job[w]]

\* The past only grows.
Later ==
  /\ \A g \in Grants : 0 < issued[g] => issued'[g] = issued[g]
  /\ \A g \in Grants : marked[g] \subseteq marked'[g]

-------------------------------------------------------------------------------
(* Lists *)

LEMMA Constants ==
  /\ TTL \in Nat \ {0} /\ Window \in Nat \ {0} /\ MaxTime \in Nat \ {0}
  /\ Torn \notin Lists /\ NoGrants \in Lists /\ DOMAIN NoGrants = {}
<1>1. NoGrants \in [{} -> Entry]
  BY DEF NoGrants
<1> QED BY <1>1, GrantAssumption DEF Lists, NoGrants

LEMMA ListFacts ==
  ASSUME NEW list \in Lists
  PROVE  /\ DOMAIN list \subseteq Grants
         /\ \A g \in DOMAIN list :
              /\ list[g] \in Entry
              /\ list[g].expires \in 1..(MaxTime + TTL) /\ list[g].used \in Marks
         /\ list \in [DOMAIN list -> Entry]
<1>1. PICK S \in SUBSET Grants : list \in [S -> Entry]
  BY DEF Lists
<1> QED BY <1>1 DEF Entry

LEMMA EmptyIsSound == Sound(NoGrants)
BY Constants DEF Sound

LEMMA StaysSound ==
  ASSUME Later, NEW list, Sound(list)
  PROVE  Sound(list)'
<1>1. DOMAIN list \subseteq Grants
  BY ListFacts DEF Sound
<1> QED BY <1>1 DEF Sound, Later

LEMMA ReadIsSound ==
  ASSUME SoundText(file)
  PROVE  Sound(ReadGrants)
BY EmptyIsSound DEF SoundText, ReadGrants

\* A list that is sound stays so with a grant that is put into it.
LEMMA PutIsSound ==
  ASSUME NEW list, Sound(list), Later, NEW g \in Grants, NEW e \in Entry,
         0 < issued'[g], e.expires = issued'[g] + TTL, e.used \subseteq marked'[g]
  PROVE  Sound(Put(list, g, e))'
<1> DEFINE p == Put(list, g, e)
<1>1. list \in Lists /\ DOMAIN list \subseteq Grants
  BY ListFacts DEF Sound
<1>2. DOMAIN p = DOMAIN list \cup {g} /\ p[g] = e
  BY DEF Put
<1>3. \A h \in DOMAIN list \ {g} : p[h] = list[h]
  BY DEF Put
<1>4. p \in [DOMAIN list \cup {g} -> Entry]
  BY <1>1, ListFacts DEF Put
<1>5. p \in Lists
  BY <1>1, <1>4 DEF Lists
<1>6. \A h \in DOMAIN list \ {g} : /\ 0 < issued'[h]
                                    /\ list[h].expires = issued'[h] + TTL
                                    /\ list[h].used \subseteq marked'[h]
  BY StaysSound DEF Sound
<1> HIDE DEF p
<1>7. Sound(p)'
  BY <1>2, <1>3, <1>5, <1>6 DEF Sound
<1> QED BY <1>7 DEF p

\* The entry of a grant that is marked now.
LEMMA UsedEntry ==
  ASSUME HistoryOK, SoundText(file), NEW g \in Listed, Later, clock \in marked'[g]
  PROVE  /\ g \in Grants /\ Used(g) \in Entry
         /\ 0 < issued'[g] /\ Used(g).expires = issued'[g] + TTL
         /\ Used(g).used = {clock}
<1>1. Sound(ReadGrants) /\ ReadGrants \in Lists
  BY ReadIsSound DEF Sound
<1>2. g \in Grants /\ ReadGrants[g] \in Entry
  BY <1>1, ListFacts DEF Listed
<1>3. /\ Used(g) \in Entry /\ Used(g).used = {clock}
      /\ Used(g).expires = ReadGrants[g].expires
  BY <1>2 DEF Used, Entry, Marks, HistoryOK, Times
<1>4. 0 < issued[g] /\ ReadGrants[g].expires = issued[g] + TTL
  BY <1>1 DEF Sound, Listed
<1> QED BY <1>2, <1>3, <1>4 DEF Later

-------------------------------------------------------------------------------
(* Jobs *)

LEMMA JobFacts ==
  ASSUME NEW j \in Jobs
  PROVE  /\ j.pc \in {"consume", "allowed"} => j.id \in Grants /\ j.at \in Marks
         /\ j.pc = "retry" => j.target \in Targets
         /\ j.pc \in {"open", "dump", "replace"} =>
              /\ j.list \in Lists /\ j.burns \in Burns /\ j.at \in Marks
              /\ j.to \in {"tmp", "file", "nowhere"}
BY DEF Jobs, Idle

LEMMA StaysSoundJob ==
  ASSUME Later, NEW j, SoundJob(j)
  PROVE  SoundJob(j)'
<1>1. j \in Jobs
  BY DEF SoundJob
<1>2. ASSUME NEW g \in Grants, NEW at, InTime(g, at)
      PROVE  InTime(g, at)'
  BY <1>2 DEF InTime, Later
<1>3. CASE j.pc = "consume"
  BY <1>1, <1>2, <1>3, JobFacts DEF SoundJob
<1>4. CASE j.pc = "allowed"
  <2>1. j.id \in Grants /\ Warranted(j.id, j.at)
    BY <1>1, <1>4, JobFacts DEF SoundJob
  <2>2. Warranted(j.id, j.at)'
    BY <2>1 DEF Warranted, Later
  <2> QED BY <1>1, <1>4, <2>2 DEF SoundJob
<1>5. CASE j.pc \in {"open", "dump", "replace"}
  <2>1. Sound(j.list)' /\ j.burns \in Burns
    BY <1>1, <1>5, StaysSound, JobFacts DEF SoundJob
  <2>2. \A g \in j.burns : InTime(g, j.at)'
    BY <1>2, <1>5, <2>1 DEF SoundJob, Burns
  <2> QED BY <1>1, <1>5, <2>1, <2>2 DEF SoundJob
<1> QED BY <1>1, <1>3, <1>4, <1>5 DEF SoundJob

LEMMA IdleIsSound == SoundJob(Idle)
BY DEF SoundJob, Idle, Jobs

\* A writer that goes on.
LEMMA StepIsSound ==
  ASSUME NEW j, SoundJob(j), j.pc \in {"open", "dump", "replace"},
         NEW pc \in {"open", "dump", "replace"}, NEW to \in {"tmp", "file", "nowhere"}
  PROVE  SoundJob(Step(j, pc, to))
<1>1. j \in Jobs /\ j.list \in Lists /\ j.burns \in Burns /\ j.at \in Marks
  BY JobFacts DEF SoundJob
<1> DEFINE k == Step(j, pc, to)
<1>2. k \in Jobs
  BY <1>1 DEF Step, Writer, Jobs
<1>3. k.pc = pc /\ k.list = j.list /\ k.burns = j.burns /\ k.at = j.at
  BY DEF Step, Writer
<1> HIDE DEF k
<1>4. SoundJob(k)
  BY <1>2, <1>3 DEF SoundJob
<1> QED BY <1>4 DEF k

LEMMA RenamedIsSound ==
  ASSUME NEW j, SoundJob(j)
  PROVE  SoundJob(Renamed(j))
BY StepIsSound DEF Renamed

\* A worker that has read a list and is about to write one.
LEMMA WritesIsSound ==
  ASSUME NEW list, Sound(list), NEW burns \in Burns, NEW at \in Marks,
         \A g \in burns : InTime(g, at), at # {} => burns # {}
  PROVE  SoundJob(Writes(list, burns, at))
<1> DEFINE k == Writes(list, burns, at)
<1>1. k \in Jobs
  BY DEF Writes, Writer, Jobs, Sound
<1>2. k.pc = "open" /\ k.list = list /\ k.burns = burns /\ k.at = at
  BY DEF Writes, Writer
<1> HIDE DEF k
<1>3. SoundJob(k)
  BY <1>1, <1>2 DEF SoundJob
<1> QED BY <1>3 DEF k

LEMMA AllowedIsSound ==
  ASSUME NEW g \in Grants, NEW at \in Marks, Warranted(g, at)
  PROVE  SoundJob(Allowed(g, at))
BY DEF SoundJob, Allowed, Jobs

LEMMA InTimeIsWarranted ==
  ASSUME NEW g, NEW at, InTime(g, at)
  PROVE  Warranted(g, at)
BY DEF InTime, Warranted

-------------------------------------------------------------------------------
(* Steps *)

LEMMA FilesStaySound ==
  ASSUME IInv, Later, UNCHANGED <<file, tmp>>
  PROVE  SoundText(file)' /\ \A text \in tmp' : SoundText(text)'
<1>1. \A text : SoundText(text) => SoundText(text)'
  BY StaysSound DEF SoundText
<1>2. SoundText(file) /\ \A text \in tmp : SoundText(text)
  BY DEF IInv
<1>3. SoundText(file)' = (file' = Torn \/ Sound(file)')
  BY DEF SoundText
<1>4. SoundText(file)'
  BY <1>2, StaysSound DEF SoundText, Sound, Later
<1> QED BY <1>1, <1>2, <1>4

LEMMA GoesKeeps ==
  ASSUME IInv, Later, HistoryOK', NEW w \in Workers, NEW j, SoundJob(j)', Goes(w, j),
         SoundText(file)', \A text \in tmp' : SoundText(text)'
  PROVE  IInv'
<1>1. \A v \in Workers : job'[v] = IF v = w THEN j ELSE job[v]
  BY DEF IInv, Goes
<1>2. \A v \in Workers : SoundJob(job[v])
  BY DEF IInv
<1>3. ASSUME NEW v \in Workers
      PROVE  SoundJob(job[v])'
  <2>1. CASE v = w
    BY <1>1, <2>1 DEF SoundJob, Sound, InTime, Warranted
  <2>2. CASE v # w
    BY <1>1, <1>2, <2>2, StaysSoundJob DEF SoundJob, Sound, InTime, Warranted
  <2> QED BY <2>1, <2>2
<1>4. job' = [v \in Workers |-> job'[v]]
  BY DEF IInv, Goes
<1> QED BY <1>3, <1>4 DEF IInv

LEMMA SameHistory ==
  ASSUME IInv, UNCHANGED <<clock, history>>
  PROVE  Later /\ HistoryOK'
BY DEF IInv, HistoryOK, Later, history

\* A step that leaves files and history alone and takes a worker to a sound job.
LEMMA QuietStep ==
  ASSUME IInv, UNCHANGED <<clock, file, tmp, history>>, NEW w \in Workers, NEW j,
         SoundJob(j), Goes(w, j)
  PROVE  IInv'
<1>1. Later /\ HistoryOK'
  BY SameHistory
<1> QED BY <1>1, FilesStaySound, StaysSoundJob, GoesKeeps

LEMMA TickStep ==
  ASSUME IInv, Tick
  PROVE  IInv'
<1>1. /\ clock' = clock + 1 /\ clock < MaxTime
      /\ UNCHANGED <<file, tmp, job, issued, marked>>
  BY DEF Tick, history
<1>2. Later /\ HistoryOK'
  BY <1>1, Constants DEF IInv, HistoryOK, Later, Times
<1>3. SoundText(file)' /\ \A text \in tmp' : SoundText(text)'
  BY <1>1, <1>2, FilesStaySound
<1>4. \A w \in Workers : SoundJob(job[w])'
  BY <1>1 DEF IInv, SoundJob, Sound, InTime, Warranted
<1> QED BY <1>1, <1>2, <1>3, <1>4 DEF IInv

\* A step in which a worker reads the file, and the history grows.
LEMMA ReadingStep ==
  ASSUME IInv, Later, HistoryOK', UNCHANGED <<file, tmp>>, NEW w \in Workers,
         NEW list, Sound(list)', NEW burns \in Burns, NEW at \in Marks,
         \A g \in burns : InTime(g, at), at # {} => burns # {},
         Starts(w, list, burns, at)
  PROVE  IInv'
<1>1. \A g \in burns : InTime(g, at)'
  BY DEF InTime, Later, Burns
<1>2. SoundJob(Writes(list, burns, at))'
  <2> DEFINE k == Writes(list, burns, at)
  <2>1. k \in Jobs
    BY DEF Writes, Writer, Jobs, Sound
  <2>2. k.pc = "open" /\ k.list = list /\ k.burns = burns /\ k.at = at
    BY DEF Writes, Writer
  <2> HIDE DEF k
  <2>3. SoundJob(k)'
    BY <1>1, <2>1, <2>2 DEF SoundJob
  <2> QED BY <2>3 DEF k
<1> DEFINE j == Writes(list, burns, at)
<1>3. SoundJob(j)' /\ Goes(w, j)
  BY <1>2 DEF Starts
<1> HIDE DEF j
<1> QED BY <1>3, FilesStaySound, GoesKeeps

LEMMA IssueStep ==
  ASSUME IInv, NEW w \in Workers, NEW g \in Grants, IssueGrant(w, g)
  PROVE  IInv'
<1>1. PICK list, e : list = ReadGrants /\ e = [expires |-> clock + TTL, used |-> {}]
  OBVIOUS
<1>2. /\ issued[g] = 0 /\ issued' = [issued EXCEPT ![g] = clock]
      /\ Starts(w, Put(list, g, e), {}, {})
      /\ UNCHANGED <<clock, file, tmp, marked>>
  BY <1>1 DEF IssueGrant
<1>3. Later /\ HistoryOK' /\ issued'[g] = clock /\ clock \in Times
  BY <1>2 DEF IInv, HistoryOK, Later, Times
<1>4. e \in Entry /\ e.expires = clock + TTL /\ e.used = {} /\ 0 < clock
  BY <1>1, <1>3, Constants DEF Entry, Marks, Times
<1>5. Sound(list)
  BY <1>1, ReadIsSound DEF IInv
<1>6. Sound(Put(list, g, e))'
  BY <1>3, <1>4, <1>5, PutIsSound
<1> QED BY <1>2, <1>3, <1>6, ReadingStep DEF Burns, Marks

LEMMA ConsumeStep ==
  ASSUME IInv, NEW w \in Workers, ConsumeGrant(w)
  PROVE  IInv'
<1>1. PICK g, at : g = job[w].id /\ at = job[w].at
  OBVIOUS
<1>2. /\ SoundJob(job[w]) /\ job[w].pc = "consume" /\ g \in Grants /\ at \in Marks
      /\ InTime(g, at)
  BY <1>1, JobFacts DEF IInv, SoundJob, ConsumeGrant
<1>3. CASE CanBurn(g)
  <2>1. PICK list, e : list = ReadGrants /\ e = Used(g)
    OBVIOUS
  <2>2. /\ marked' = [marked EXCEPT ![g] = @ \cup {clock}]
        /\ Starts(w, Put(list, g, e), {g}, at)
        /\ UNCHANGED <<clock, file, tmp, issued, burnt>>
    BY <1>1, <1>3, <2>1 DEF ConsumeGrant
  <2>3. Later /\ HistoryOK' /\ clock \in marked'[g]
    BY <1>2, <2>2 DEF IInv, HistoryOK, Later, Times
  <2>4. /\ e \in Entry /\ 0 < issued'[g] /\ e.expires = issued'[g] + TTL
        /\ e.used \subseteq marked'[g]
    BY <1>3, <2>1, <2>3, UsedEntry DEF IInv, CanBurn
  <2>5. Sound(list)
    BY <2>1, ReadIsSound DEF IInv
  <2>6. Sound(Put(list, g, e))'
    BY <1>2, <2>3, <2>4, <2>5, PutIsSound
  <2> QED BY <1>2, <2>2, <2>3, <2>6, ReadingStep DEF Burns
<1>4. CASE ~CanBurn(g)
  <2>1. /\ Goes(w, Done(g, at)) /\ UNCHANGED <<clock, file, tmp, history>>
    BY <1>1, <1>4 DEF ConsumeGrant, history
  <2>2. SoundJob(Done(g, at))
    BY <1>2, IdleIsSound, AllowedIsSound, InTimeIsWarranted DEF Done
  <2> QED BY <2>1, <2>2, QuietStep
<1> QED BY <1>3, <1>4

LEMMA ExpireStep ==
  ASSUME IInv, NEW w \in Workers, ExpireStaleGrants(w)
  PROVE  IInv'
<1> DEFINE swept == [g \in Listed |-> IF g \in Stale THEN Used(g) ELSE ReadGrants[g]]
<1>1. PICK list : list = swept
  OBVIOUS
<1>2. /\ marked' = [g \in Grants |-> IF g \in Stale THEN marked[g] \cup {clock}
                                      ELSE marked[g]]
      /\ Starts(w, list, {}, {})
      /\ UNCHANGED <<clock, file, tmp, issued, burnt>>
  BY <1>1 DEF ExpireStaleGrants
<1>3. Later /\ HistoryOK'
  BY <1>2 DEF IInv, HistoryOK, Later, Times
<1>4. Sound(ReadGrants) /\ ReadGrants \in Lists /\ Listed \subseteq Grants
  BY ReadIsSound, ListFacts DEF IInv, Sound, Listed
<1>5. ASSUME NEW g \in Listed
      PROVE  /\ list[g] \in Entry
             /\ 0 < issued'[g] /\ list[g].expires = issued'[g] + TTL
             /\ list[g].used \subseteq marked'[g]
  <2>1. CASE g \in Stale
    <3>1. clock \in marked'[g]
      BY <1>2, <1>4, <2>1
    <3> QED BY <1>1, <1>3, <2>1, <3>1, UsedEntry DEF IInv
  <2>2. CASE g \notin Stale
    <3>1. list[g] = ReadGrants[g] /\ ReadGrants[g] \in Entry
      BY <1>1, <1>4, <2>2, ListFacts DEF Listed
    <3>2. /\ 0 < issued[g] /\ list[g].expires = issued[g] + TTL
          /\ list[g].used \subseteq marked[g]
      BY <1>4, <3>1 DEF Sound, Listed
    <3> QED BY <1>3, <1>4, <3>1, <3>2 DEF Later
  <2> QED BY <2>1, <2>2
<1>6. DOMAIN list = Listed /\ list \in [Listed -> Entry]
  BY <1>1, <1>5
<1>7. list \in Lists
  BY <1>4, <1>6 DEF Lists
<1>8. Sound(list)'
  BY <1>5, <1>6, <1>7 DEF Sound
<1> QED BY <1>2, <1>3, <1>8, ReadingStep DEF Burns, Marks

LEMMA CheckStep ==
  ASSUME IInv, NEW w \in Workers, NEW target \in Targets, CheckGrant(w, target)
  PROVE  IInv'
<1>1. UNCHANGED <<clock, file, tmp, history>>
  BY DEF CheckGrant
<1>2. PICK at : at = {clock}
  OBVIOUS
<1>3. at \in Marks /\ \A t \in at : t = clock /\ t \in Int
  BY <1>2 DEF IInv, HistoryOK, Times, Marks
<1>4. ASSUME NEW g \in Valid(target), Goes(w, [pc |-> "consume", id |-> g, at |-> at])
      PROVE  IInv'
  <2>1. Sound(ReadGrants) /\ g \in Listed /\ ~Expired(g)
    BY <1>4, ReadIsSound DEF IInv, Valid
  <2>2. /\ g \in Grants /\ ReadGrants[g].expires \in Int
        /\ 0 < issued[g] /\ ReadGrants[g].expires = issued[g] + TTL
    BY <2>1, ListFacts, Constants DEF Sound, Listed
  <2>3. InTime(g, at)
    BY <1>3, <2>1, <2>2 DEF InTime, Expired, IInv, HistoryOK, Times
  <2>4. SoundJob([pc |-> "consume", id |-> g, at |-> at])
    BY <1>3, <2>2, <2>3 DEF SoundJob, Jobs
  <2> QED BY <1>1, <1>4, <2>4, QuietStep
<1>5. ASSUME Goes(w, [pc |-> "retry", target |-> target])
      PROVE  IInv'
  <2>1. SoundJob([pc |-> "retry", target |-> target])
    BY DEF SoundJob, Jobs
  <2> QED BY <1>1, <1>5, <2>1, QuietStep
<1> QED BY <1>2, <1>4, <1>5 DEF CheckGrant

LEMMA CommandStep ==
  ASSUME IInv, NEW w \in Workers, NEW g \in Grants, ConsumeCommand(w, g)
  PROVE  IInv'
<1> DEFINE j == [pc |-> "consume", id |-> g, at |-> {}]
<1>1. SoundJob(j)
  BY DEF SoundJob, Jobs, Marks, InTime
<1> QED BY <1>1, QuietStep DEF ConsumeCommand

LEMMA RetryStep ==
  ASSUME IInv, NEW w \in Workers, FindRecentlyConsumed(w)
  PROVE  IInv'
<1>1. UNCHANGED <<clock, file, tmp, history>>
  BY DEF FindRecentlyConsumed
<1>2. PICK at : at = {clock}
  OBVIOUS
<1>3. at \in Marks
  BY <1>2 DEF IInv, HistoryOK, Times, Marks
<1>4. ASSUME NEW g \in Recent(job[w].target), Goes(w, Allowed(g, at))
      PROVE  IInv'
  <2>1. /\ Sound(ReadGrants) /\ g \in Listed
        /\ \E m \in ReadGrants[g].used : clock - m < Window
    BY <1>4, ReadIsSound DEF IInv, Recent
  <2>2. g \in Grants /\ 0 < issued[g] /\ ReadGrants[g].used \subseteq marked[g]
    BY <2>1, ListFacts DEF Sound, Listed
  <2>3. issued[g] <= clock /\ \E m \in marked[g] : m <= clock /\ clock - m < Window
    BY <2>1, <2>2 DEF IInv, HistoryOK
  <2>4. Warranted(g, at)
    BY <1>2, <2>2, <2>3 DEF Warranted
  <2> QED BY <1>1, <1>3, <1>4, <2>2, <2>4, AllowedIsSound, QuietStep
<1>5. ASSUME Goes(w, Idle)
      PROVE  IInv'
  BY <1>1, <1>5, IdleIsSound, QuietStep
<1> QED BY <1>2, <1>4, <1>5 DEF FindRecentlyConsumed

LEMMA OpenStep ==
  ASSUME IInv, NEW w \in Workers, Open(w)
  PROVE  IInv'
<1>1. PICK k : k = Step(job[w], "dump", "tmp")
  OBVIOUS
<1>2. SoundJob(k)
  BY <1>1, StepIsSound DEF IInv, Open
<1>3. Later /\ HistoryOK' /\ SoundJob(k)'
  BY <1>2, SameHistory, StaysSoundJob DEF Open
<1>4. \A text \in tmp' : SoundText(text)'
  BY <1>3, EmptyIsSound, StaysSound DEF Open, SoundText
<1>5. SoundText(file)'
  BY <1>3, StaysSound DEF IInv, Open, SoundText, Sound, Later
<1> QED BY <1>1, <1>3, <1>4, <1>5, GoesKeeps DEF Open

LEMMA DumpStep ==
  ASSUME IInv, NEW w \in Workers, Dump(w)
  PROVE  IInv'
<1>1. PICK k, list : k = Step(job[w], "replace", job[w].to) /\ list = job[w].list
  OBVIOUS
<1>2. SoundJob(job[w]) /\ job[w].pc = "dump" /\ UNCHANGED <<clock, history>> /\ Goes(w, k)
  BY <1>1 DEF IInv, Dump
<1>3. SoundJob(k) /\ Sound(list)
  BY <1>1, <1>2, StepIsSound, JobFacts DEF SoundJob
<1>4. Later /\ HistoryOK' /\ SoundJob(k)' /\ Sound(list)'
  BY <1>2, <1>3, SameHistory, StaysSoundJob, StaysSound
<1>5. \A old : \A text \in Over(old, list) : SoundText(text)'
  BY <1>4 DEF Over, SoundText
<1>6. /\ \A text \in tmp' : text \in tmp \/ \E old : text \in Over(old, list)
      /\ file' = file \/ file' \in Over(file, list)
  BY <1>1 DEF Dump
<1>7. \A text : SoundText(text) => SoundText(text)'
  BY <1>4, StaysSound DEF SoundText
<1>8. \A text \in tmp' : SoundText(text)'
  BY <1>5, <1>6, <1>7 DEF IInv
<1>9. SoundText(file)'
  <2>1. PICK text : text = file'
    OBVIOUS
  <2>2. SoundText(text)'
    BY <1>5, <1>6, <1>7, <2>1 DEF IInv
  <2> QED BY <2>1, <2>2 DEF SoundText, Sound
<1> QED BY <1>2, <1>4, <1>8, <1>9, GoesKeeps

LEMMA ReplaceStep ==
  ASSUME IInv, NEW w \in Workers, Replace(w)
  PROVE  IInv'
<1>1. Later /\ HistoryOK' /\ UNCHANGED <<clock, issued, marked>>
  BY DEF Replace, IInv, HistoryOK, Later
<1>2. \A j : SoundJob(j) => SoundJob(j)'
  BY <1>1, StaysSoundJob
<1>3. SoundJob(After(job[w]))
  <2> DEFINE j == job[w]
  <2>1. SoundJob(j) /\ j.pc = "replace" /\ j \in Jobs
    BY DEF IInv, Replace, SoundJob
  <2>2. j.burns \in Burns /\ j.at \in Marks /\ (\A g \in j.burns : InTime(g, j.at))
        /\ (j.at # {} => j.burns # {})
    BY <2>1, JobFacts DEF SoundJob
  <2>3. CASE j.at = {}
    BY <2>3, IdleIsSound DEF After
  <2>4. CASE j.at # {}
    <3>1. PICK g \in Grants : j.burns = {g}
      BY <2>2, <2>4 DEF Burns
    <3>2. After(j) = Allowed(g, j.at)
      BY <2>4, <3>1 DEF After
    <3>3. Warranted(g, j.at)
      BY <2>2, <3>1, InTimeIsWarranted
    <3> QED BY <2>2, <3>2, <3>3, AllowedIsSound
  <2> QED BY <2>3, <2>4
<1>4. \A v \in Workers : job'[v] = IF v = w THEN After(job[w]) ELSE Renamed(job[v])
  BY DEF Replace
<1>5. \A v \in Workers : SoundJob(job'[v])
  BY <1>3, <1>4, RenamedIsSound DEF IInv
<1>6. \A v \in Workers : SoundJob(job[v])'
  BY <1>1, <1>5 DEF SoundJob, Sound, InTime, Warranted
<1>7. SoundText(file)' /\ tmp' = {}
  BY <1>1 DEF IInv, Replace, SoundText, Sound
<1>8. job' = [v \in Workers |-> job'[v]]
  BY DEF Replace
<1> QED BY <1>1, <1>6, <1>7, <1>8 DEF IInv

LEMMA NextIInv == IInv /\ [Next]_vars => IInv'
<1> SUFFICES ASSUME IInv, [Next]_vars
             PROVE  IInv'
  OBVIOUS
<1>1. CASE UNCHANGED vars
  BY <1>1 DEF vars, history, IInv, HistoryOK, SoundText, SoundJob, Sound, InTime, Warranted
<1>2. CASE Tick
  BY <1>2, TickStep
<1>3. ASSUME NEW w \in Workers, Work(w)
      PROVE  IInv'
  <2>1. CASE ReplaceFails(w) \/ Crash(w)
    BY <2>1, IdleIsSound, QuietStep DEF ReplaceFails, Crash
  <2>2. CASE \E g \in Grants : IssueGrant(w, g) \/ ConsumeCommand(w, g)
    BY <2>2, IssueStep, CommandStep
  <2>3. CASE \E target \in Targets : CheckGrant(w, target)
    BY <2>3, CheckStep
  <2>4. CASE ConsumeGrant(w) \/ FindRecentlyConsumed(w) \/ ExpireStaleGrants(w)
    BY <2>4, ConsumeStep, RetryStep, ExpireStep
  <2>5. CASE Open(w) \/ Dump(w) \/ Replace(w)
    BY <2>5, OpenStep, DumpStep, ReplaceStep
  <2> QED BY <1>3, <2>1, <2>2, <2>3, <2>4, <2>5 DEF Work
<1> QED BY <1>1, <1>2, <1>3 DEF Next

LEMMA InitIInv == Init => IInv
<1> SUFFICES ASSUME Init
             PROVE  IInv
  OBVIOUS
<1>1. HistoryOK
  BY Constants DEF Init, HistoryOK, Times
<1>2. SoundText(file)
  BY EmptyIsSound DEF Init, SoundText
<1>3. \A w \in Workers : SoundJob(job[w])
  BY IdleIsSound DEF Init
<1> QED BY <1>1, <1>2, <1>3 DEF Init, IInv

LEMMA IInvHolds == Spec => []IInv
BY InitIInv, NextIInv, PTL DEF Spec

\* However the lists of any number of workers overwrite and tear each other, a
\* spawn is allowed only by a grant that had not expired when it was looked up or
\* was marked consumed within the window (AllowedIsWarranted).
THEOREM SpawnsAreWarranted == Spec => []AllowedIsWarranted
<1>1. IInv => AllowedIsWarranted
  BY DEF IInv, SoundJob, Warranted, AllowedIsWarranted
<1> QED BY <1>1, IInvHolds, PTL

-------------------------------------------------------------------------------
(* Workers that do not write at once *)

\* A list from which nothing in the file is missing.
Keeps(list) ==
  \A g \in Listed : g \in DOMAIN list /\ ReadGrants[g].used \subseteq list[g].used

\* As long as no two workers wrote at once, the one that writes has the list of
\* the present file in its hands, and the temporary file for itself; what was
\* burnt is marked in the file.
Alone == ~raced =>
  /\ file # Torn
  /\ \A v, w \in Workers : job[v].pc \in Writing /\ job[w].pc \in Writing => v = w
  /\ \A g \in burnt : g \in Listed /\ ~Unused(g)
  /\ \A w \in Workers : job[w].pc \in Writing =>
       LET j == job[w]
       IN /\ j.to = "tmp" /\ Keeps(j.list)
          /\ \A g \in j.burns : g \notin burnt /\ g \in DOMAIN j.list /\ j.list[g].used # {}
          /\ j.pc = "dump" => tmp = {NoGrants}
          /\ j.pc = "replace" => tmp = {j.list}

\* A worker goes on to j, alone unless j writes nothing.
LEMMA AloneGoes ==
  ASSUME IInv, Alone, NEW w \in Workers, NEW j, Goes(w, j),
         UNCHANGED <<file, burnt>>, raced => raced',
         ~raced' => \/ ~OthersWrite(w)
                    \/ j.pc \notin Writing /\ tmp' = tmp,
         ~raced' /\ j.pc \in Writing =>
           /\ j.to = "tmp" /\ Keeps(j.list)
           /\ \A g \in j.burns : g \notin burnt /\ g \in DOMAIN j.list
                                 /\ j.list[g].used # {}
           /\ j.pc = "dump" => tmp' = {NoGrants}
           /\ j.pc = "replace" => tmp' = {j.list}
  PROVE  Alone'
<1> SUFFICES ASSUME ~raced'
             PROVE  Alone'
  BY DEF Alone
<1>1. job'[w] = j /\ \A v \in Workers \ {w} : job'[v] = job[v]
  BY DEF IInv, Goes
<1>2. ReadGrants' = ReadGrants /\ Listed' = Listed
  BY DEF ReadGrants, Listed
<1>3. file' # Torn /\ \A g \in burnt' : g \in Listed' /\ ~Unused(g)'
  BY <1>2 DEF Alone, Unused
<1>4. \A u, v \in Workers : job'[u].pc \in Writing /\ job'[v].pc \in Writing => u = v
  BY <1>1 DEF Alone, OthersWrite
<1>5. ASSUME NEW v \in Workers, job'[v].pc \in Writing
      PROVE  /\ job'[v].to = "tmp" /\ Keeps(job[v].list)'
             /\ \A g \in job'[v].burns : g \notin burnt' /\ g \in DOMAIN job'[v].list
                                         /\ job'[v].list[g].used # {}
             /\ job'[v].pc = "dump" => tmp' = {NoGrants}
             /\ job'[v].pc = "replace" => tmp' = {job'[v].list}
  <2>1. CASE v = w
    BY <1>1, <1>2, <1>5, <2>1 DEF Keeps
  <2>2. CASE v # w
    <3>1. job'[v] = job[v] /\ tmp' = tmp
      BY <1>1, <1>5, <2>2 DEF OthersWrite
    <3> QED BY <1>2, <1>5, <3>1 DEF Alone, Keeps
  <2> QED BY <2>1, <2>2
<1> QED BY <1>3, <1>4, <1>5 DEF Alone

LEMMA WritesFields ==
  ASSUME NEW list, NEW burns, NEW at
  PROVE  LET j == Writes(list, burns, at)
         IN j.pc = "open" /\ j.list = list /\ j.burns = burns /\ j.to = "tmp"
BY DEF Writes, Writer

LEMMA StepFields ==
  ASSUME NEW j, NEW pc, NEW to
  PROVE  LET k == Step(j, pc, to)
         IN k.pc = pc /\ k.list = j.list /\ k.burns = j.burns /\ k.to = to
BY DEF Step, Writer

LEMMA UsedFields ==
  ASSUME IInv, NEW g \in Listed
  PROVE  Used(g).used = {clock} /\ g \in Grants
<1>1. Sound(ReadGrants)
  BY ReadIsSound DEF IInv
<1>2. g \in Grants /\ ReadGrants[g] \in Entry
  BY <1>1, ListFacts DEF Sound, Listed
<1> QED BY <1>2 DEF Used, Entry

\* The operations up to the write.
LEMMA AloneReads ==
  ASSUME IInv, Alone, NEW w \in Workers, NEW list, NEW burns, NEW at,
         Starts(w, list, burns, at), UNCHANGED <<file, burnt>>, ~raced => Keeps(list),
         ~raced => \A g \in burns : g \notin burnt /\ g \in DOMAIN list /\ list[g].used # {}
  PROVE  Alone'
<1> DEFINE j == Writes(list, burns, at)
<1>1. j.pc = "open" /\ j.list = list /\ j.burns = burns /\ j.to = "tmp"
  BY WritesFields
<1>2. Goes(w, j) /\ raced' = (raced \/ OthersWrite(w))
  BY DEF Starts
<1> HIDE DEF j
<1>3. raced => raced'
  BY <1>2
<1>4. ~raced' => ~raced /\ ~OthersWrite(w)
  BY <1>2
<1> QED BY <1>1, <1>2, <1>3, <1>4, AloneGoes

LEMMA AloneIssues ==
  ASSUME IInv, Alone, NEW w \in Workers, NEW g \in Grants, IssueGrant(w, g)
  PROVE  Alone'
<1>1. PICK list : list = Put(ReadGrants, g, [expires |-> clock + TTL, used |-> {}])
  OBVIOUS
<1>2. g \notin Listed
  BY ReadIsSound DEF IInv, Sound, Listed, IssueGrant
<1>3. Keeps(list)
  BY <1>1, <1>2 DEF Keeps, Put, Listed
<1> QED BY <1>1, <1>3, AloneReads DEF IssueGrant

LEMMA AloneConsumes ==
  ASSUME IInv, Alone, NEW w \in Workers, ConsumeGrant(w)
  PROVE  Alone'
<1>1. PICK g : g = job[w].id
  OBVIOUS
<1>2. CASE CanBurn(g)
  <2>1. PICK list : list = Put(ReadGrants, g, Used(g))
    OBVIOUS
  <2>2. g \in Listed /\ Unused(g) /\ Used(g).used = {clock}
    BY <1>2, UsedFields DEF CanBurn
  <2>3. Keeps(list) /\ g \in DOMAIN list /\ list[g].used # {}
    BY <2>1, <2>2 DEF Keeps, Put, Listed, Unused
  <2>4. ~raced => g \notin burnt
    BY <2>2 DEF Alone
  <2>5. /\ Starts(w, list, {g}, job[w].at) /\ UNCHANGED <<file, burnt>>
    BY <1>1, <1>2, <2>1 DEF ConsumeGrant
  <2> QED BY <2>3, <2>4, <2>5, AloneReads
<1>3. CASE ~CanBurn(g)
  <2>1. PICK j : j = Done(g, job[w].at)
    OBVIOUS
  <2>2. Goes(w, j) /\ UNCHANGED <<file, tmp, burnt, raced>> /\ j.pc \notin Writing
    BY <1>1, <1>3, <2>1 DEF ConsumeGrant, Done, Idle, Allowed, Writing
  <2> QED BY <2>2, AloneGoes
<1> QED BY <1>2, <1>3

LEMMA AloneExpires ==
  ASSUME IInv, Alone, NEW w \in Workers, ExpireStaleGrants(w)
  PROVE  Alone'
<1>1. PICK list :
        list = [g \in Listed |-> IF g \in Stale THEN Used(g) ELSE ReadGrants[g]]
  OBVIOUS
<1>2. Keeps(list)
  BY <1>1 DEF Keeps, Stale, Unused
<1> QED BY <1>1, <1>2, AloneReads DEF ExpireStaleGrants

LEMMA AloneWrites ==
  ASSUME IInv, Alone, NEW w \in Workers, Open(w) \/ Dump(w)
  PROVE  Alone' /\ (~raced' => file' = file)
<1> SUFFICES ASSUME ~raced'
             PROVE  Alone' /\ file' = file
  BY DEF Alone
<1>1. /\ UNCHANGED <<burnt, raced>>
      /\ job[w].pc \in Writing
  BY DEF Open, Dump, history, Writing
<1>2. /\ ~OthersWrite(w) /\ job[w].to = "tmp" /\ Keeps(job[w].list)
      /\ \A g \in job[w].burns : g \notin burnt /\ g \in DOMAIN job[w].list
                                 /\ job[w].list[g].used # {}
      /\ job[w].pc = "dump" => tmp = {NoGrants}
  BY <1>1 DEF Alone, OthersWrite
<1>3. CASE Open(w)
  <2>1. PICK k : k = Step(job[w], "dump", "tmp")
    OBVIOUS
  <2>2. /\ k.pc = "dump" /\ k.list = job[w].list /\ k.burns = job[w].burns
        /\ k.to = "tmp"
    BY <2>1, StepFields
  <2>3. Goes(w, k) /\ UNCHANGED <<file, burnt>> /\ tmp' = {NoGrants}
    BY <1>3, <2>1 DEF Open, history
  <2> QED BY <1>1, <1>2, <2>2, <2>3, AloneGoes
<1>4. CASE Dump(w)
  <2>1. PICK k : k = Step(job[w], "replace", job[w].to)
    OBVIOUS
  <2>2. /\ k.pc = "replace" /\ k.list = job[w].list /\ k.burns = job[w].burns
        /\ k.to = "tmp"
    BY <1>2, <2>1, StepFields
  <2>3. Goes(w, k) /\ UNCHANGED <<file, burnt>>
    BY <1>2, <1>4, <2>1 DEF Dump, history
  <2>4. tmp = {NoGrants}
    BY <1>2, <1>4 DEF Dump
  <2>5. tmp' = {k.list}
    BY <1>2, <1>4, <2>2, <2>4 DEF Dump, Over
  <2> QED BY <1>1, <1>2, <2>2, <2>3, <2>5, AloneGoes
<1> QED BY <1>3, <1>4

LEMMA AloneReplaces ==
  ASSUME IInv, Alone, ~raced, NEW w \in Workers, Replace(w)
  PROVE  /\ Alone' /\ job[w].burns \cap burnt = {}
         /\ \A g \in Listed : g \in Listed' /\ ReadGrants[g].used \subseteq ReadGrants'[g].used
<1>1. PICK list : list = job[w].list
  OBVIOUS
<1>2. /\ Keeps(list) /\ tmp = {list}
      /\ \A g \in job[w].burns : g \notin burnt /\ g \in DOMAIN list /\ list[g].used # {}
  BY <1>1 DEF Alone, Replace, Writing
<1>3. list \in Lists
  BY <1>1, JobFacts DEF IInv, SoundJob, Replace
<1>4. file' = list /\ file' # Torn /\ burnt' = burnt \cup job[w].burns
  BY <1>2, <1>3, Constants DEF Replace
<1>5. ReadGrants' = list /\ Listed' = DOMAIN list
  BY <1>4 DEF ReadGrants, Listed
<1>6. \A g \in Listed : g \in Listed' /\ ReadGrants[g].used \subseteq ReadGrants'[g].used
  BY <1>2, <1>5 DEF Keeps
<1>7. \A v \in Workers : job'[v].pc \notin Writing
  <2>1. After(job[w]).pc \notin Writing
    BY DEF After, Idle, Allowed, Writing
  <2>2. ASSUME NEW v \in Workers, v # w
        PROVE  Renamed(job[v]) = job[v] /\ job[v].pc \notin Writing
    BY <2>2 DEF Alone, Replace, Renamed, Writing
  <2> QED BY <2>1, <2>2 DEF Replace
<1>8. \A g \in burnt' : g \in Listed' /\ ~Unused(g)'
  <2>1. ASSUME NEW g \in burnt
        PROVE  g \in Listed' /\ ~Unused(g)'
    BY <1>6 DEF Alone, Unused
  <2>2. ASSUME NEW g \in job[w].burns
        PROVE  g \in Listed' /\ ~Unused(g)'
    BY <1>2, <1>5 DEF Unused
  <2> QED BY <1>4, <2>1, <2>2
<1>9. Alone'
  BY <1>4, <1>7, <1>8 DEF Alone
<1> QED BY <1>2, <1>6, <1>9

\* Every other step leaves the files alone.
LEMMA AloneRests ==
  ASSUME IInv, Alone, NEW w \in Workers, NEW j, Goes(w, j), j.pc \notin Writing,
         UNCHANGED <<file, tmp, burnt, raced>>
  PROVE  Alone'
BY AloneGoes

Grows ==
  ~raced' => \A g \in Listed : g \in Listed' /\ ReadGrants[g].used \subseteq ReadGrants'[g].used

LEMMA SameGrows ==
  ASSUME ~raced' => file' = file
  PROVE  Grows
BY DEF Grows, Listed, ReadGrants

LEMMA AloneNext ==
  IInv /\ Alone /\ [Next]_vars =>
    /\ Alone' /\ Grows
    /\ \A w \in Workers : Replace(w) /\ ~raced => job[w].burns \cap burnt = {}
<1> SUFFICES ASSUME IInv, Alone, [Next]_vars
             PROVE  Alone' /\ Grows
  BY AloneReplaces
<1>1. CASE UNCHANGED <<file, tmp, job, burnt, raced>>
  <2>1. Listed' = Listed /\ ReadGrants' = ReadGrants
    BY <1>1 DEF Listed, ReadGrants
  <2> QED BY <1>1, <2>1, SameGrows DEF Alone, Keeps, Unused
<1>2. ASSUME NEW w \in Workers, Work(w)
      PROVE  Alone' /\ Grows
  <2>1. CASE Replace(w)
    <3>1. raced' = raced
      BY <2>1 DEF Replace
    <3>2. CASE raced
      BY <3>1, <3>2 DEF Alone, Grows
    <3>3. CASE ~raced
      BY <2>1, <3>3, AloneReplaces DEF Grows
    <3> QED BY <3>2, <3>3
  <2>2. CASE Open(w) \/ Dump(w)
    BY <2>2, AloneWrites, SameGrows
  <2>3. CASE ConsumeGrant(w) \/ ExpireStaleGrants(w)
    <3>1. file' = file
      BY <2>3 DEF ConsumeGrant, ExpireStaleGrants
    <3> QED BY <2>3, <3>1, AloneConsumes, AloneExpires, SameGrows
  <2>4. ASSUME NEW g \in Grants, IssueGrant(w, g)
        PROVE  Alone' /\ Grows
    <3>1. file' = file
      BY <2>4 DEF IssueGrant
    <3> QED BY <2>4, <3>1, AloneIssues, SameGrows
  <2>5. CASE ReplaceFails(w) \/ Crash(w)
    BY <2>5, AloneRests, SameGrows DEF ReplaceFails, Crash, history, Idle, Writing
  <2>6. ASSUME NEW g \in Grants, ConsumeCommand(w, g)
        PROVE  Alone' /\ Grows
    <3>1. UNCHANGED <<file, tmp, burnt, raced>>
      BY <2>6 DEF ConsumeCommand, history
    <3>2. PICK j : j = [pc |-> "consume", id |-> g, at |-> {}]
      OBVIOUS
    <3>3. Goes(w, j) /\ j.pc \notin Writing
      BY <2>6, <3>2 DEF ConsumeCommand, Writing
    <3> QED BY <3>1, <3>3, AloneRests, SameGrows
  <2>7. ASSUME NEW target \in Targets, CheckGrant(w, target)
        PROVE  Alone' /\ Grows
    <3>1. UNCHANGED <<file, tmp, burnt, raced>>
      BY <2>7 DEF CheckGrant, history
    <3>2. ASSUME NEW g \in Valid(target), Goes(w, [pc |-> "consume", id |-> g, at |-> {clock}])
          PROVE  Alone' /\ Grows
      <4>1. PICK j : j = [pc |-> "consume", id |-> g, at |-> {clock}]
        OBVIOUS
      <4>2. Goes(w, j) /\ j.pc \notin Writing
        BY <3>2, <4>1 DEF Writing
      <4> QED BY <3>1, <4>2, AloneRests, SameGrows
    <3>3. ASSUME Goes(w, [pc |-> "retry", target |-> target])
          PROVE  Alone' /\ Grows
      <4>1. PICK j : j = [pc |-> "retry", target |-> target]
        OBVIOUS
      <4>2. Goes(w, j) /\ j.pc \notin Writing
        BY <3>3, <4>1 DEF Writing
      <4> QED BY <3>1, <4>2, AloneRests, SameGrows
    <3> QED BY <2>7, <3>2, <3>3 DEF CheckGrant
  <2>8. CASE FindRecentlyConsumed(w)
    <3>1. UNCHANGED <<file, tmp, burnt, raced>>
      BY <2>8 DEF FindRecentlyConsumed, history
    <3>2. ASSUME NEW g \in Recent(job[w].target), Goes(w, Allowed(g, {clock}))
          PROVE  Alone' /\ Grows
      <4>1. PICK j : j = Allowed(g, {clock})
        OBVIOUS
      <4>2. Goes(w, j) /\ j.pc \notin Writing
        BY <3>2, <4>1 DEF Allowed, Writing
      <4> QED BY <3>1, <4>2, AloneRests, SameGrows
    <3>3. ASSUME Goes(w, Idle)
          PROVE  Alone' /\ Grows
      BY <3>1, <3>3, AloneRests, SameGrows DEF Idle, Writing
    <3> QED BY <2>8, <3>2, <3>3 DEF FindRecentlyConsumed
  <2> QED BY <1>2, <2>1, <2>2, <2>3, <2>4, <2>5, <2>6, <2>7, <2>8 DEF Work
<1>3. CASE Tick \/ UNCHANGED vars
  BY <1>1, <1>3 DEF Tick, history, vars
<1> QED BY <1>2, <1>3 DEF Next

LEMMA AloneInit == Init => Alone
BY Constants DEF Init, Alone, Idle, Writing

LEMMA AloneHolds == Spec => []Alone
<1>1. IInv /\ Alone /\ [Next]_vars => Alone'
  BY AloneNext
<1> QED BY <1>1, AloneInit, IInvHolds, PTL DEF Spec

\* Any number of workers that never write at once lose nothing, wherever they
\* crash (NothingLost).
THEOREM NothingIsLost == Spec => NothingLost
<1>1. IInv /\ Alone /\ [Next]_vars => Grows
  BY AloneNext
<1>2. IInv /\ Alone /\ [Next]_vars =>
        [~raced' => \A g \in Listed :
           g \in Listed' /\ ReadGrants[g].used \subseteq ReadGrants'[g].used]_vars
  BY <1>1 DEF Grows
<1> QED BY <1>2, IInvHolds, AloneHolds, PTL DEF Spec, NothingLost

\* Any number of workers that never write at once burn a grant once (ConsumedOnce).
THEOREM BurntOnce == Spec => ConsumedOnce
<1>1. IInv /\ Alone /\ [Next]_vars =>
        [\A w \in Workers : Replace(w) /\ ~raced => job[w].burns \cap burnt = {}]_vars
  BY AloneNext
<1> QED BY <1>1, IInvHolds, AloneHolds, PTL DEF Spec, ConsumedOnce
===============================================================================
