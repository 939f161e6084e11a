---------------------------- MODULE CIEUSealProofs ----------------------------
(* Theorems of CIEUSeal, for any sets of events, sessions and sealers.           *)
EXTENDS CIEUSeal, WellFoundedInduction, TLAPS

(* Some row is the latest: what ORDER BY sealed_at DESC LIMIT 1 needs, and what *)
(* makes LatestRoot the root of a row.                                          *)
Bounded == \A s \in Sessions : seals[s].at <= MaxSeals

JobsBounded == clock <= MaxSeals /\ \A p \in Sealers : job[p].at <= MaxSeals

LEMMA LatestRootType ==
  ASSUME TypeOK, Bounded
  PROVE  LatestRoot \in SUBSET Events
<1> DEFINE rows == {s \in Sessions : seals[s].at > 0}
           ages == {MaxSeals - seals[s].at : s \in rows}
           latest(x) == \A y \in rows : seals[y].at <= seals[x].at
<1>1. CASE rows = {}
  BY <1>1 DEF LatestRoot, NoRoot
<1>2. CASE rows # {}
  <2>1. ages \subseteq Nat /\ ages # {}
    <3>1. \A s \in rows : MaxSeals - seals[s].at \in Nat
      <4> SUFFICES ASSUME NEW s \in rows PROVE MaxSeals - seals[s].at \in Nat
        OBVIOUS
      <4>1. seals[s].at \in Nat /\ seals[s].at <= MaxSeals
        BY DEF TypeOK, Bounded
      <4> QED BY <4>1, SealAssumption
    <3> QED BY <1>2, <3>1
  <2>2. PICK a \in ages : \A b \in ages : <<b, a>> \notin OpToRel(<, Nat)
    <3> HIDE DEF ages
    <3> QED BY <2>1, NatLessThanWellFounded, WFMin
  <2>3. \A b \in ages : ~(b < a)
    BY <2>1, <2>2 DEF OpToRel
  <2>4. \E x \in rows : latest(x)
    <3>1. PICK x \in rows : a = MaxSeals - seals[x].at
      OBVIOUS
    <3>2. \A y \in rows : ~(MaxSeals - seals[y].at < MaxSeals - seals[x].at)
      BY <2>3, <3>1
    <3> QED BY <3>2, SealAssumption DEF TypeOK
  <2>5. (CHOOSE x \in rows : latest(x)) \in rows
    BY <2>4
  <2> QED BY <1>2, <2>5 DEF LatestRoot, TypeOK
<1> QED BY <1>1, <1>2

LEMMA SessionOfRootIsSession ==
  ASSUME NEW s \in Sessions, NEW root, root # {}, root \subseteq EventsOf(s)
  PROVE  SessionOfRoot(root) = s
BY DEF SessionOfRoot, EventsOf

(* A seal in progress commits to events of one session.                         *)
OneSession ==
  \A p \in Sealers : job[p].pc # "idle" =>
    /\ job[p].root # {}
    /\ \E s \in Sessions : job[p].root \subseteq EventsOf(s)

TypeInv == TypeOK /\ Bounded /\ JobsBounded /\ OneSession

LEMMA TypeInvInit == Init => TypeInv
BY SealAssumption
   DEF Init, TypeInv, TypeOK, Bounded, JobsBounded, OneSession, NoSeal, NoRoot, Idle

LEMMA TypeInvStep == TypeInv /\ [Next]_vars => TypeInv'
<1> SUFFICES ASSUME TypeInv, [Next]_vars PROVE TypeInv'
  OBVIOUS
<1> USE SealAssumption DEF TypeInv, TypeOK, Bounded, JobsBounded, OneSession
<1>1. ASSUME NEW e \in Events, WriteEvent(e) PROVE TypeInv'
  BY <1>1 DEF WriteEvent, EventsOf
<1>2. ASSUME NEW p \in Sealers, NEW s \in Sessions, SealRead(p, s) PROVE TypeInv'
  BY <1>2 DEF SealRead, EventsOf, NoRoot
<1>3. ASSUME NEW p \in Sealers, SealLink(p) PROVE TypeInv'
  <2>1. LatestRoot \in SUBSET Events
    BY LatestRootType
  <2> DEFINE root == LatestRoot
  <2>2. /\ job' = [job EXCEPT ![p] = [job[p] EXCEPT !.pc = "commit", !.prev = root]]
        /\ job[p].pc = "link"
        /\ UNCHANGED <<log, flagged, seals, clock, results>>
    BY <1>3 DEF SealLink
  <2>3. root \in SUBSET Events
    BY <2>1
  <2> HIDE DEF root
  <2>4. job' \in [Sealers -> [pc: {"idle", "link", "commit"}, at: Nat,
                              root: SUBSET Events, prev: SUBSET Events]]
    BY <2>2, <2>3
  <2>5. \A q \in Sealers : /\ job'[q].root = job[q].root /\ job'[q].at = job[q].at
                           /\ job'[q].pc # "idle" => job[q].pc # "idle"
    BY <2>2
  <2> QED BY <2>2, <2>4, <2>5 DEF EventsOf
<1>4. ASSUME NEW p \in Sealers, SealCommit(p) PROVE TypeInv'
  <2>1. PICK s \in Sessions : job[p].root # {} /\ job[p].root \subseteq EventsOf(s)
    BY <1>4 DEF SealCommit
  <2>2. SessionOfRoot(job[p].root) = s
    BY <2>1, SessionOfRootIsSession
  <2> DEFINE seal == [at |-> job[p].at, root |-> job[p].root, prev |-> job[p].prev]
  <2>3. /\ seals' = [seals EXCEPT ![s] = seal]
        /\ flagged' = flagged \cup EventsOf(s)
        /\ results' = Append(results, [session |-> s, root |-> seal.root, prev |-> seal.prev])
        /\ job' = [job EXCEPT ![p] = Idle]
        /\ log' = log /\ clock' = clock
    BY <1>4, <2>2 DEF SealCommit
  <2>4. results' \in Seq([session: Sessions, root: SUBSET Events, prev: SUBSET Events])
    BY <2>3
  <2> QED BY <2>3, <2>4 DEF EventsOf, Idle, NoRoot
<1>5. ASSUME NEW p \in Sealers, SealCrash(p) PROVE TypeInv'
  BY <1>5 DEF SealCrash, EventsOf, Idle, NoRoot
<1>6. CASE UNCHANGED vars
  BY <1>6 DEF vars, EventsOf
<1> QED BY <1>1, <1>2, <1>3, <1>4, <1>5, <1>6 DEF Next

(* The tables, jobs and results keep their types, the link to the latest row    *)
(* included.                                                                    *)
THEOREM TypeCorrect == Spec => []TypeOK
<1>1. TypeInv => TypeOK
  BY DEF TypeInv
<1> QED BY <1>1, TypeInvInit, TypeInvStep, PTL DEF Spec

-------------------------------------------------------------------------------
(* Any number of sealers: verification fails only on events added after a seal. *)

FlagInv == TypeInv /\ CommittedAreFlagged

LEMMA FlagInvStep == FlagInv /\ [Next]_vars => FlagInv'
<1> SUFFICES ASSUME FlagInv, [Next]_vars PROVE CommittedAreFlagged'
  BY TypeInvStep DEF FlagInv
<1> USE DEF FlagInv, CommittedAreFlagged
<1>1. CASE \E p \in Sealers : SealCommit(p)
  <2>1. PICK p \in Sealers : SealCommit(p)
    BY <1>1
  <2>2. PICK s \in Sessions : job[p].root # {} /\ job[p].root \subseteq EventsOf(s)
    BY <2>1 DEF SealCommit, TypeInv, OneSession
  <2>3. SessionOfRoot(job[p].root) = s
    BY <2>2, SessionOfRootIsSession
  <2>4. /\ flagged' = flagged \cup EventsOf(s)
        /\ log' = log
        /\ \A t \in Sessions :
             seals'[t].root = IF t = s THEN job[p].root ELSE seals[t].root
    BY <2>1, <2>3 DEF SealCommit, TypeInv, TypeOK
  <2> QED BY <2>2, <2>4 DEF EventsOf
<1>2. CASE UNCHANGED <<seals, flagged>> /\ log \subseteq log'
  BY <1>2 DEF EventsOf
<1> QED BY <1>1, <1>2
    DEF Next, WriteEvent, SealRead, SealLink, SealCrash, vars

(* However writers and sealers interleave and wherever a sealer dies, a seal    *)
(* commits to flagged events of its own session only.                           *)
THEOREM SealsOnlyItsEvents == Spec => []CommittedAreFlagged
<1>1. Init => FlagInv
  BY TypeInvInit DEF Init, FlagInv, CommittedAreFlagged, NoSeal, NoRoot
<1>2. FlagInv => CommittedAreFlagged
  BY DEF FlagInv
<1> QED BY <1>1, <1>2, FlagInvStep, PTL DEF Spec

-------------------------------------------------------------------------------
(* One sealer.  The latest row is the last seal taken: its root is what the     *)
(* next seal links to, and it is the only row with the greatest sealed_at,      *)
(* because the clock advances with every seal_session.                          *)

OneSealer == \A p, q \in Sealers : p = q

LastRoot == IF results = <<>> THEN NoRoot ELSE results[Len(results)].root

IsLatest(s) ==
  /\ seals[s].at > 0
  /\ seals[s].root = LastRoot
  /\ \A t \in Sessions \ {s} : seals[t].at < seals[s].at

LastIsLatest ==
  /\ results = <<>> => \A s \in Sessions : seals[s].at = 0
  /\ results # <<>> => \E s \in Sessions : IsLatest(s)

SealsInPast ==
  /\ \A s \in Sessions : seals[s].at <= clock
  /\ \A p \in Sealers : job[p].pc # "idle" =>
       \A s \in Sessions : seals[s].at < job[p].at /\ job[p].at <= clock

LinkIsLast == \A p \in Sealers : job[p].pc = "commit" => job[p].prev = LastRoot

ReadCoversSeal ==
  \A p \in Sealers, s \in Sessions :
    job[p].pc # "idle" /\ job[p].root \subseteq EventsOf(s) => seals[s].root \subseteq job[p].root

ChainInv ==
  FlagInv /\ LastIsLatest /\ SealsInPast /\ LinkIsLast /\ ReadCoversSeal /\ ChainLinear

LEMMA LatestRootIsLast ==
  ASSUME TypeOK, LastIsLatest
  PROVE  LatestRoot = LastRoot
<1> DEFINE rows == {s \in Sessions : seals[s].at > 0}
<1>1. CASE results = <<>>
  BY <1>1 DEF LatestRoot, LastRoot, LastIsLatest
<1>2. CASE results # <<>>
  <2>1. PICK s \in Sessions : IsLatest(s)
    BY <1>2 DEF LastIsLatest
  <2>2. \A t \in Sessions : seals[t].at \in Nat
    BY DEF TypeOK
  <2>3. s \in rows /\ \A y \in rows : seals[y].at <= seals[s].at
    BY <2>1, <2>2 DEF IsLatest
  <2>4. \A x \in rows : (\A y \in rows : seals[y].at <= seals[x].at) => x = s
    BY <2>1, <2>2 DEF IsLatest
  <2>5. (CHOOSE x \in rows : \A y \in rows : seals[y].at <= seals[x].at) = s
    BY <2>3, <2>4
  <2> QED BY <2>1, <2>3, <2>5 DEF LatestRoot, IsLatest
<1> QED BY <1>1, <1>2

LEMMA ChainInvInit == Init => ChainInv
BY TypeInvInit
   DEF Init, ChainInv, FlagInv, CommittedAreFlagged, LastIsLatest, SealsInPast,
       LinkIsLast, ReadCoversSeal, ChainLinear, NoSeal, NoRoot, Idle

\* A step that takes no seal keeps the chain and the rows.
LEMMA QuietStep ==
  ASSUME ChainInv, UNCHANGED <<seals, results>>
  PROVE  LastIsLatest' /\ ChainLinear'
BY DEF ChainInv, LastIsLatest, IsLatest, LastRoot, ChainLinear

LEMMA CommitStep ==
  ASSUME OneSealer, ChainInv, NEW p \in Sealers, SealCommit(p)
  PROVE  /\ LastIsLatest' /\ SealsInPast' /\ LinkIsLast' /\ ReadCoversSeal'
         /\ ChainLinear'
         /\ \A s \in Sessions : seals[s].root \subseteq seals'[s].root
<1>1. PICK s \in Sessions : job[p].root # {} /\ job[p].root \subseteq EventsOf(s)
  BY DEF SealCommit, ChainInv, FlagInv, TypeInv, OneSession
<1>2. SessionOfRoot(job[p].root) = s
  BY <1>1, SessionOfRootIsSession
<1> DEFINE entry == [session |-> s, root |-> job[p].root, prev |-> job[p].prev]
<1>3. TypeOK
  BY DEF ChainInv, FlagInv, TypeInv
<1>4. /\ \A t \in Sessions : seals'[t] = IF t = s
                                  THEN [at |-> job[p].at, root |-> job[p].root,
                                        prev |-> job[p].prev]
                                  ELSE seals[t]
      /\ results' = Append(results, entry)
      /\ log' = log /\ clock' = clock
      /\ job'[p] = Idle /\ job[p].pc = "commit"
  BY <1>2, <1>3 DEF SealCommit, TypeOK
<1>5. \A q \in Sealers : q = p
  BY DEF OneSealer
<1>6. /\ Len(results') = Len(results) + 1
      /\ results'[Len(results')] = entry
      /\ \A i \in 1..Len(results) : results'[i] = results[i]
      /\ Len(results) \in Nat /\ results' # <<>>
  <2> DEFINE Entry == [session: Sessions, root: SUBSET Events, prev: SUBSET Events]
  <2>1. results \in Seq(Entry) /\ entry \in Entry
    BY <1>3 DEF TypeOK
  <2> HIDE DEF Entry, entry
  <2> QED BY <1>4, <2>1
<1>7. LastRoot' = job[p].root
  BY <1>6 DEF LastRoot
<1>8. \A t \in Sessions : seals[t].at \in Nat /\ seals[t].at < job[p].at
  BY <1>3, <1>4 DEF ChainInv, SealsInPast, TypeOK
<1>9. job[p].at \in Nat /\ clock \in Nat /\ job[p].at <= clock
  BY <1>3, <1>4 DEF ChainInv, SealsInPast, TypeOK
<1>10. IsLatest(s)'
  BY <1>4, <1>7, <1>8, <1>9 DEF IsLatest
<1>11. LastIsLatest'
  BY <1>6, <1>10 DEF LastIsLatest
<1>12. SealsInPast' /\ LinkIsLast' /\ ReadCoversSeal'
  BY <1>4, <1>5, <1>8, <1>9
     DEF ChainInv, SealsInPast, LinkIsLast, ReadCoversSeal, Idle
<1>13. ChainLinear'
  <2> SUFFICES ASSUME NEW i \in 1..Len(results')
               PROVE  results'[i].prev = IF i = 1 THEN NoRoot ELSE results'[i - 1].root
    BY DEF ChainLinear
  <2>1. CASE i \in 1..Len(results)
    BY <1>6, <2>1 DEF ChainInv, ChainLinear
  <2>2. CASE i = Len(results')
    <3>1. results'[i].prev = LastRoot
      BY <1>4, <1>6, <2>2 DEF ChainInv, LinkIsLast
    <3>2. CASE results = <<>>
      BY <1>6, <2>2, <3>1, <3>2 DEF LastRoot
    <3>3. CASE results # <<>>
      <4>1. Len(results) # 0
        BY <1>3, <3>3 DEF TypeOK
      <4> QED BY <1>6, <2>2, <3>1, <3>3, <4>1 DEF LastRoot
    <3> QED BY <3>2, <3>3
  <2> QED BY <1>6, <2>1, <2>2
<1>14. \A t \in Sessions : seals[t].root \subseteq seals'[t].root
  BY <1>1, <1>4 DEF ChainInv, ReadCoversSeal
<1> QED BY <1>11, <1>12, <1>13, <1>14

LEMMA ChainInvStep ==
  ASSUME OneSealer
  PROVE  /\ ChainInv /\ [Next]_vars => ChainInv'
         /\ ChainInv /\ [Next]_vars =>
              \A s \in Sessions : seals[s].root \subseteq seals'[s].root
<1> SUFFICES ASSUME ChainInv, [Next]_vars
             PROVE  /\ LastIsLatest' /\ SealsInPast' /\ LinkIsLast'
                    /\ ReadCoversSeal' /\ ChainLinear'
                    /\ \A s \in Sessions : seals[s].root \subseteq seals'[s].root
  BY FlagInvStep DEF ChainInv
<1>1. TypeOK /\ OneSession /\ CommittedAreFlagged
  BY DEF ChainInv, FlagInv, TypeInv
<1>2. \A p, q \in Sealers : p = q
  BY DEF OneSealer
<1>3. ASSUME NEW e \in Events, WriteEvent(e)
      PROVE  SealsInPast' /\ LinkIsLast' /\ ReadCoversSeal'
  <2>1. SealsInPast' /\ LinkIsLast'
    BY <1>3 DEF WriteEvent, ChainInv, SealsInPast, LinkIsLast, LastRoot
  <2>2. ASSUME NEW p \in Sealers, NEW s \in Sessions, job[p].pc # "idle",
               job[p].root \subseteq EventsOf(s)'
        PROVE  job[p].root \subseteq EventsOf(s)
    BY <1>1, <1>3, <2>2 DEF OneSession, EventsOf, WriteEvent
  <2>3. ReadCoversSeal'
    BY <1>3, <2>2 DEF ChainInv, ReadCoversSeal, WriteEvent
  <2> QED BY <2>1, <2>3
<1>4. ASSUME NEW p \in Sealers, NEW s \in Sessions, SealRead(p, s)
      PROVE  SealsInPast' /\ LinkIsLast' /\ ReadCoversSeal'
  <2>1. /\ job'[p] = [pc |-> "link", at |-> clock + 1, root |-> EventsOf(s),
                      prev |-> NoRoot]
        /\ EventsOf(s) # {} /\ clock' = clock + 1 /\ clock \in Nat
        /\ UNCHANGED <<log, seals, results>>
    BY <1>1, <1>4 DEF SealRead, TypeOK
  <2>2. \A t \in Sessions : seals[t].at \in Nat /\ seals[t].at <= clock
    BY <1>1 DEF ChainInv, SealsInPast, TypeOK
  <2>3. SealsInPast' /\ LinkIsLast'
    BY <1>2, <2>1, <2>2 DEF SealsInPast, LinkIsLast
  <2>4. ASSUME NEW t \in Sessions, EventsOf(s) \subseteq EventsOf(t)
        PROVE  seals[t].root \subseteq EventsOf(s)
    BY <1>1, <2>1, <2>4 DEF EventsOf, CommittedAreFlagged
  <2>5. ReadCoversSeal'
    BY <1>2, <2>1, <2>4 DEF ReadCoversSeal, EventsOf
  <2> QED BY <2>3, <2>5
<1>5. ASSUME NEW p \in Sealers, SealLink(p)
      PROVE  SealsInPast' /\ LinkIsLast' /\ ReadCoversSeal'
  <2>1. LatestRoot = LastRoot
    BY <1>1, LatestRootIsLast DEF ChainInv
  <2>2. /\ job'[p] = [job[p] EXCEPT !.pc = "commit", !.prev = LastRoot]
        /\ UNCHANGED <<log, clock, seals, results>> /\ job[p].pc = "link"
    BY <1>1, <1>5, <2>1 DEF SealLink, TypeOK
  <2>3. /\ job'[p].prev = LastRoot /\ job'[p].at = job[p].at
        /\ job'[p].root = job[p].root
    BY <1>1, <2>2 DEF TypeOK
  <2> QED BY <1>2, <2>2, <2>3
          DEF ChainInv, SealsInPast, LinkIsLast, ReadCoversSeal, EventsOf, LastRoot
<1>6. ASSUME NEW p \in Sealers, SealCrash(p)
      PROVE  SealsInPast' /\ LinkIsLast' /\ ReadCoversSeal'
  BY <1>1, <1>2, <1>6
     DEF SealCrash, ChainInv, SealsInPast, LinkIsLast, ReadCoversSeal, EventsOf,
         Idle, TypeOK
<1>7. CASE UNCHANGED vars
  BY <1>7, QuietStep
     DEF vars, ChainInv, SealsInPast, LinkIsLast, ReadCoversSeal, EventsOf, LastRoot
<1>8. CASE \E p \in Sealers : SealCommit(p)
  BY <1>8, CommitStep
<1>9. CASE UNCHANGED <<seals, results>>
  BY <1>9, QuietStep, <1>3, <1>4, <1>5, <1>6, <1>7, <1>8 DEF Next
<1> QED BY <1>8, <1>9
        DEF Next, WriteEvent, SealRead, SealLink, SealCrash, vars

(* With one sealer the seals, re-seals included, form one chain.                *)
THEOREM OneSealerOneChain == OneSealer /\ Spec => []ChainLinear
<1> SUFFICES ASSUME OneSealer PROVE Spec => []ChainLinear
  OBVIOUS
<1>1. ChainInv => ChainLinear
  BY DEF ChainInv
<1>2. ChainInv /\ [Next]_vars => ChainInv'
  BY ChainInvStep
<1> QED BY <1>1, <1>2, ChainInvInit, PTL DEF Spec

(* With one sealer a session's seal only ever commits to more events.           *)
THEOREM OneSealerNeverShrinks == OneSealer /\ Spec => SealNeverShrinks
<1> SUFFICES ASSUME OneSealer PROVE Spec => SealNeverShrinks
  OBVIOUS
<1>1. ChainInv /\ [Next]_vars => ChainInv'
  BY ChainInvStep
<1>2. ChainInv /\ [Next]_vars =>
        [\A s \in Sessions : seals[s].root \subseteq seals'[s].root]_vars
  BY ChainInvStep
<1> QED BY <1>1, <1>2, ChainInvInit, PTL DEF Spec, SealNeverShrinks

===============================================================================
