------------------------------ MODULE GrantChain ------------------------------
(* Dispatch grants (ystar/governance/grant_chain.py): one lets the grantee spawn *)
(* its target once before it expires, and again within a retry window.  The      *)
(* processes that issue, spawn and sweep share a JSON file of all grants, which  *)
(* each reads whole, changes and writes whole through the same temporary file,   *)
(* without a lock.  One grantor and grantee; the audit trail, which nothing      *)
(* reads, is left out, and which of several valid grants a spawn uses is open.   *)
EXTENDS Integers

CONSTANTS
  Workers,  \* processes and threads
  Grants,   \* grant_id of the grants that are issued
  Target,   \* grant -> target_agent
  TTL,      \* ttl_seconds
  Window,   \* window_seconds of find_recently_consumed
  Torn,     \* what a file holds whose text is no JSON
  MaxTime   \* bound: ticks of the clock

Targets == {Target[g] : g \in Grants}
Marks == {{}} \cup {{t} : t \in 1..MaxTime}
Entry == [expires : 1..(MaxTime + TTL), used : Marks]  \* used: consumed_at of a consumed grant
Lists == UNION {[S -> Entry] : S \in SUBSET Grants}
NoGrants == [g \in {} |-> g]

ASSUME GrantAssumption ==
  /\ TTL \in Nat \ {0} /\ Window \in Nat \ {0} /\ MaxTime \in Nat \ {0}
  /\ Torn \notin Lists

VARIABLES
  clock,
  file,   \* .ystar_active_grant.json: grant_id -> entry
  tmp,    \* .ystar_active_grant.tmp: {} when there is none
  job,    \* what each worker does
  issued, \* grant -> time it was issued, 0: not yet
  marked, \* grant -> times at which it was marked consumed
  burnt,  \* grants for which consume_grant returned True
  raced   \* whether two workers ever were between read and write at once

history == <<issued, marked, burnt, raced>>
vars == <<clock, file, tmp, job, history>>

Idle == [pc |-> "idle"]

\* A worker that writes a list: the grant that it burns, if any, and the time that
\* was checked at, if for a spawn.  The file it has open is the temporary one, the
\* one that has become the grant file, or linked nowhere.
Writer(pc, list, burns, at, to) ==
  [pc |-> pc, list |-> list, burns |-> burns, at |-> at, to |-> to]
Writes(list, burns, at) == Writer("open", list, burns, at, "tmp")
Step(j, pc, to) == Writer(pc, j.list, j.burns, j.at, to)

Init ==
  /\ clock = 1
  /\ file = NoGrants /\ tmp = {}
  /\ job = [w \in Workers |-> Idle]
  /\ issued = [g \in Grants |-> 0]
  /\ marked = [g \in Grants |-> {}]
  /\ burnt = {}
  /\ raced = FALSE

Goes(w, to) == job' = [job EXCEPT ![w] = to]
Writing == {"open", "dump", "replace"}
OthersWrite(w) == \E v \in Workers \ {w} : job[v].pc \in Writing
Starts(w, list, burns, at) ==
  /\ Goes(w, Writes(list, burns, at))
  /\ raced' = (raced \/ OthersWrite(w))
Ready(w) == job[w].pc \in {"idle", "allowed"}

\* _read_grants: a file that does not parse is as an empty one.
ReadGrants == IF file = Torn THEN NoGrants ELSE file
Listed == DOMAIN ReadGrants

Tick ==
  /\ clock < MaxTime
  /\ clock' = clock + 1
  /\ UNCHANGED <<file, tmp, job, history>>

-------------------------------------------------------------------------------
(* Operations up to the write                                                   *)

Put(list, g, e) == [h \in DOMAIN list \cup {g} |-> IF h = g THEN e ELSE list[h]]

IssueGrant(w, g) ==
  /\ Ready(w) /\ issued[g] = 0
  /\ issued' = [issued EXCEPT ![g] = clock]
  /\ Starts(w, Put(ReadGrants, g, [expires |-> clock + TTL, used |-> {}]), {}, {})
  /\ UNCHANGED <<clock, file, tmp, marked, burnt>>

Expired(g) == clock >= ReadGrants[g].expires
Unused(g) == ReadGrants[g].used = {}
Used(g) == [ReadGrants[g] EXCEPT !.used = {clock}]
Valid(target) == {g \in Listed : Target[g] = target /\ Unused(g) /\ ~Expired(g)}

\* A spawn: check_grant, then consume_grant or find_recently_consumed.
CheckGrant(w, target) ==
  /\ Ready(w)
  /\ \/ \E g \in Valid(target) : Goes(w, [pc |-> "consume", id |-> g, at |-> {clock}])
     \/ Valid(target) = {} /\ Goes(w, [pc |-> "retry", target |-> target])
  /\ UNCHANGED <<clock, file, tmp, history>>

\* The command line consumes any grant, also an expired one.
ConsumeCommand(w, g) ==
  /\ Ready(w) /\ g \in Listed
  /\ Goes(w, [pc |-> "consume", id |-> g, at |-> {}])
  /\ UNCHANGED <<clock, file, tmp, history>>

Allowed(g, at) == [pc |-> "allowed", id |-> g, at |-> at]
Done(g, at) == IF at = {} THEN Idle ELSE Allowed(g, at)

\* Mutant: burns a grant again.
CanBurnAgain(g) == g \in Listed

CanBurn(g) == g \in Listed /\ Unused(g)

\* A grant that was consumed or lost meanwhile returns False, which a spawn
\* ignores.
ConsumeGrant(w) ==
  /\ job[w].pc = "consume"
  /\ LET g == job[w].id IN
       \/ /\ CanBurn(g)
          /\ marked' = [marked EXCEPT ![g] = @ \cup {clock}]
          /\ Starts(w, Put(ReadGrants, g, Used(g)), {g}, job[w].at)
       \/ /\ ~CanBurn(g)
          /\ Goes(w, Done(g, job[w].at))
          /\ UNCHANGED <<marked, raced>>
  /\ UNCHANGED <<clock, file, tmp, issued, burnt>>

\* Mutant: the retry window never ends.
RecentEver(target) ==
  {g \in Listed : Target[g] = target /\ ~Unused(g)}

Recent(target) ==
  {g \in Listed : Target[g] = target /\ \E t \in ReadGrants[g].used : clock - t < Window}

\* The retry finds a grant that was consumed just now, or the spawn is denied.
FindRecentlyConsumed(w) ==
  /\ job[w].pc = "retry"
  /\ \/ \E g \in Recent(job[w].target) : Goes(w, Allowed(g, {clock}))
     \/ Recent(job[w].target) = {} /\ Goes(w, Idle)
  /\ UNCHANGED <<clock, file, tmp, history>>

Stale == {g \in Listed : Expired(g) /\ Unused(g)}

ExpireStaleGrants(w) ==
  /\ Ready(w) /\ Stale # {}
  /\ marked' = [g \in Grants |-> IF g \in Stale THEN marked[g] \cup {clock} ELSE marked[g]]
  /\ Starts(w, [g \in Listed |-> IF g \in Stale THEN Used(g) ELSE ReadGrants[g]], {}, {})
  /\ UNCHANGED <<clock, file, tmp, issued, burnt>>

-------------------------------------------------------------------------------
(* _write_grants                                                                *)

\* Mutant: writes the grant file in place.
OpenInPlace(w) ==
  /\ job[w].pc = "open"
  /\ file' = NoGrants /\ tmp' = {NoGrants}
  /\ Goes(w, Step(job[w], "dump", "tmp"))
  /\ UNCHANGED <<clock, history>>

\* Creates or empties the temporary file.
Open(w) ==
  /\ job[w].pc = "open"
  /\ tmp' = {NoGrants}
  /\ Goes(w, Step(job[w], "dump", "tmp"))
  /\ UNCHANGED <<clock, file, history>>

\* What a file may hold after a list was written over what it holds: text that is
\* longer leaves its end behind.
Over(old, list) == IF old = NoGrants THEN {list} ELSE {list, Torn}

Dump(w) ==
  /\ job[w].pc = "dump"
  /\ \/ /\ job[w].to = "tmp"
        /\ \E old \in tmp : \E new \in Over(old, job[w].list) : tmp' = {new}
        /\ UNCHANGED file
     \/ /\ job[w].to = "file"
        /\ file' \in Over(file, job[w].list)
        /\ UNCHANGED tmp
     \/ job[w].to = "nowhere" /\ UNCHANGED <<file, tmp>>
  /\ Goes(w, Step(job[w], "replace", job[w].to))
  /\ UNCHANGED <<clock, history>>

\* The open files follow the renaming.
Renamed(j) ==
  IF j.pc # "dump" THEN j
  ELSE Step(j, "dump", IF j.to = "tmp" THEN "file" ELSE "nowhere")

\* A spawn is allowed once its grant is burnt.
After(j) == IF j.at = {} THEN Idle ELSE Allowed(CHOOSE g \in j.burns : TRUE, j.at)

\* os.replace
Replace(w) ==
  /\ job[w].pc = "replace" /\ tmp # {}
  /\ file' \in tmp
  /\ tmp' = {}
  /\ job' = [v \in Workers |-> IF v = w THEN After(job[w]) ELSE Renamed(job[v])]
  /\ burnt' = burnt \cup job[w].burns
  /\ UNCHANGED <<clock, issued, marked, raced>>

\* Another worker has renamed the temporary file: an error, and a spawn is denied.
ReplaceFails(w) ==
  /\ job[w].pc = "replace" /\ tmp = {}
  /\ Goes(w, Idle)
  /\ UNCHANGED <<clock, file, tmp, history>>

Crash(w) ==
  /\ job[w] # Idle
  /\ Goes(w, Idle)
  /\ UNCHANGED <<clock, file, tmp, history>>

-------------------------------------------------------------------------------

Work(w) ==
  \/ \E g \in Grants : IssueGrant(w, g)
  \/ \E target \in Targets : CheckGrant(w, target)
  \/ \E g \in Grants : ConsumeCommand(w, g)
  \/ ConsumeGrant(w) \/ FindRecentlyConsumed(w) \/ ExpireStaleGrants(w)
  \/ Open(w) \/ Dump(w) \/ Replace(w) \/ ReplaceFails(w)
  \/ Crash(w)

Next == Tick \/ \E w \in Workers : Work(w)

Spec == Init /\ [][Next]_vars

-------------------------------------------------------------------------------
\* Whatever stale lists are written over newer ones and however files are torn or
\* lost, a spawn is allowed only by a grant that was issued before and had either
\* not expired when it was looked up or was marked consumed within the window
\* before (check_grant, find_recently_consumed).
AllowedIsWarranted ==
  \A w \in Workers : job[w].pc = "allowed" =>
    LET g == job[w].id IN
      \A t \in job[w].at :
        /\ 0 < issued[g] /\ issued[g] <= t
        /\ t < issued[g] + TTL \/ \E m \in marked[g] : m <= t /\ t - m < Window

\* As long as no two processes were writing at once, nothing that the grant file
\* says is lost, wherever a process dies: a listed grant stays listed, and a
\* consumed one consumed (_write_grants: "Atomic write of grant list").
NothingLost ==
  [][~raced' => \A g \in Listed :
       g \in Listed' /\ ReadGrants[g].used \subseteq ReadGrants'[g].used]_vars

\* As long as no two processes were writing at once, consume_grant returns True
\* once for a grant ("Single-use: second call returns False").
ConsumedOnce ==
  [][\A w \in Workers : Replace(w) /\ ~raced => job[w].burns \cap burnt = {}]_vars

===============================================================================
