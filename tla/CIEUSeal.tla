------------------------------- MODULE CIEUSeal -------------------------------
(* CIEUStore (ystar/governance/cieu_store.py): events are written once, and      *)
(* seal_session commits to a session's events with a root linked to the latest  *)
(* seal.  Writers and sealers are processes over one SQLite file.  In Python's  *)
(* sqlite3 a transaction starts with the first write, so the two SELECTs of     *)
(* seal_session are steps of their own and only INSERT OR REPLACE and UPDATE     *)
(* are one.  A root is modelled by the set of event ids it hashes.              *)
EXTENDS Integers, Sequences

CONSTANTS
  Events, Sessions, SessionOf,
  Sealers,   \* processes that run seal_session
  MaxSeals   \* bound on the seals taken

ASSUME SealAssumption ==
  /\ SessionOf \in [Events -> Sessions]
  /\ MaxSeals \in Nat

VARIABLES
  log,      \* cieu_events: the events written
  flagged,  \* events with sealed = 1
  seals,    \* sealed_sessions, NoSeal for a session without a row
  clock,    \* time.time(), advancing with every seal_session
  job,      \* each sealer's seal_session in progress
  results   \* what seal_session returned so far, in the order of the commits

vars == <<log, flagged, seals, clock, job, results>>

NoRoot == {}
NoSeal == [at |-> 0, root |-> NoRoot, prev |-> NoRoot]
Idle == [pc |-> "idle", at |-> 0, root |-> NoRoot, prev |-> NoRoot]

EventsOf(s) == {e \in log : SessionOf[e] = s}

\* Mutant: ORDER BY sealed_at without DESC.
OldestRoot ==
  LET rows == {s \in Sessions : seals[s].at > 0}
  IN IF rows = {} THEN NoRoot
     ELSE LET s == CHOOSE x \in rows : \A y \in rows : seals[x].at <= seals[y].at
          IN seals[s].root

\* ORDER BY sealed_at DESC LIMIT 1
LatestRoot ==
  LET rows == {s \in Sessions : seals[s].at > 0}
  IN IF rows = {} THEN NoRoot
     ELSE LET s == CHOOSE x \in rows : \A y \in rows : seals[y].at <= seals[x].at
          IN seals[s].root

Init ==
  /\ log = {} /\ flagged = {}
  /\ seals = [s \in Sessions |-> NoSeal]
  /\ clock = 0
  /\ job = [p \in Sealers |-> Idle]
  /\ results = <<>>

\* write, write_dict: a duplicate event_id is refused and changes nothing.
WriteEvent(e) ==
  /\ e \notin log
  /\ log' = log \cup {e}
  /\ UNCHANGED <<flagged, seals, clock, job, results>>

\* Mutant: only the events not sealed yet are read.
SealReadNew(p, s) ==
  /\ job[p].pc = "idle"
  /\ clock < MaxSeals
  /\ EventsOf(s) \ flagged # {}
  /\ clock' = clock + 1
  /\ job' = [job EXCEPT ![p] = [pc |-> "link", at |-> clock + 1,
                                root |-> EventsOf(s) \ flagged, prev |-> NoRoot]]
  /\ UNCHANGED <<log, flagged, seals, results>>

\* now = time.time(), then the session's event ids; an empty session returns.
SealRead(p, s) ==
  /\ job[p].pc = "idle"
  /\ clock < MaxSeals
  /\ EventsOf(s) # {}
  /\ clock' = clock + 1
  /\ job' = [job EXCEPT ![p] = [pc |-> "link", at |-> clock + 1,
                                root |-> EventsOf(s), prev |-> NoRoot]]
  /\ UNCHANGED <<log, flagged, seals, results>>

SealLink(p) ==
  /\ job[p].pc = "link"
  /\ job' = [job EXCEPT ![p].pc = "commit", ![p].prev = LatestRoot]
  /\ UNCHANGED <<log, flagged, seals, clock, results>>

SessionOfRoot(root) == SessionOf[CHOOSE e \in root : TRUE]

\* Mutant: the UPDATE of the sealed flags is missing.
SealCommitUnflagged(p) ==
  LET s == SessionOfRoot(job[p].root)
      seal == [at |-> job[p].at, root |-> job[p].root, prev |-> job[p].prev]
  IN /\ job[p].pc = "commit"
     /\ seals' = [seals EXCEPT ![s] = seal]
     /\ results' = Append(results, [session |-> s, root |-> seal.root, prev |-> seal.prev])
     /\ job' = [job EXCEPT ![p] = Idle]
     /\ UNCHANGED <<log, flagged, clock>>

\* INSERT OR REPLACE the seal and flag every row the session has by now.
SealCommit(p) ==
  LET s == SessionOfRoot(job[p].root)
      seal == [at |-> job[p].at, root |-> job[p].root, prev |-> job[p].prev]
  IN /\ job[p].pc = "commit"
     /\ seals' = [seals EXCEPT ![s] = seal]
     /\ flagged' = flagged \cup EventsOf(s)
     /\ results' = Append(results, [session |-> s, root |-> seal.root, prev |-> seal.prev])
     /\ job' = [job EXCEPT ![p] = Idle]
     /\ UNCHANGED <<log, clock>>

\* The process dies before it commits: the transaction is rolled back.
SealCrash(p) ==
  /\ job[p].pc # "idle"
  /\ job' = [job EXCEPT ![p] = Idle]
  /\ UNCHANGED <<log, flagged, seals, clock, results>>

Next ==
  \/ \E e \in Events : WriteEvent(e)
  \/ \E p \in Sealers :
       SealLink(p) \/ SealCommit(p) \/ SealCrash(p) \/ \E s \in Sessions : SealRead(p, s)

Spec == Init /\ [][Next]_vars

-------------------------------------------------------------------------------
(* Properties.                                                                  *)

(* The tables, jobs and results have their types.                               *)
TypeOK ==
  /\ log \subseteq Events /\ flagged \subseteq log
  /\ seals \in [Sessions -> [at: Nat, root: SUBSET Events, prev: SUBSET Events]]
  /\ clock \in Nat
  /\ job \in [Sealers -> [pc: {"idle", "link", "commit"}, at: Nat,
                          root: SUBSET Events, prev: SUBSET Events]]
  /\ results \in Seq([session: Sessions, root: SUBSET Events, prev: SUBSET Events])

(* Whatever any number of sealers, writers and crashes do, a seal commits to    *)
(* events of its own session that are in the log and flagged as sealed:         *)
(* verification can only fail because of events added after the seal.           *)
CommittedAreFlagged ==
  \A s \in Sessions : seals[s].root \subseteq flagged \cap EventsOf(s)

(* One sealer: the seals taken, re-seals included, form one chain in which each *)
(* links to the one before it.                                                  *)
ChainLinear ==
  \A i \in 1..Len(results) :
    results[i].prev = IF i = 1 THEN NoRoot ELSE results[i - 1].root

(* One sealer: a session's seal is only ever replaced by one that commits to at *)
(* least the same events.                                                       *)
SealNeverShrinks == [][\A s \in Sessions : seals[s].root \subseteq seals'[s].root]_vars

=============================================================================
