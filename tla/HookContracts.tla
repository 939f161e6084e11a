----------------------------- MODULE HookContracts -----------------------------
(* The contract of one agent as the threads of the hook daemon use it           *)
(* (ystar/adapters/hook.py, ystar/adapters/runtime_contracts.py).  The policy    *)
(* object holds the contract compiled from AGENTS.md; on the light path every   *)
(* call merges the runtime deny and relax files into it and puts the result     *)
(* back in the policy.  The full path merges the contracts on the agent's way   *)
(* from the root of the session's delegation tree.  A thread is switched at     *)
(* calls.  Calls under way when the policy is reloaded end on the policy object *)
(* that is replaced, which nobody else reads.                                   *)
EXTENDS Contract, Sequences

CONSTANTS
  Threads,
  Baselines,    \* contracts that AGENTS.md may compile to
  Offers,       \* contracts that callers ask to write as runtime deny
  Relaxations,  \* contracts that metalearning asks to write as runtime relax
  SessionJson,  \* the session contract those are tested against
  Calls,        \* tool calls, by the parts of a contract they touch
  Paths         \* ways from the root to the agent in trees that setup is given

ASSUME HookAssumption ==
  /\ Baselines \cup Offers \cup Relaxations \cup {SessionJson} \subseteq Contracts
  /\ Calls \subseteq CallShapes
  /\ Paths \subseteq Seq(Contracts) \ {<<>>}

VARIABLES
  baseline,   \* what AGENTS.md was compiled to at the last load
  rule,       \* policy._rules[who]
  denyFile,   \* .ystar_runtime_deny.json: {} when absent or not parsable
  relaxFile,  \* .ystar_runtime_relax.json
  job

vars == <<baseline, rule, denyFile, relaxFile, job>>

Idle == [pc |-> "idle"]
Layers(S) == {{}} \cup {{c} : c \in S}
Jobs ==
  {Idle}
  \cup [pc : {"deny"}]
  \cup [pc : {"relax"}, deny : Layers(Offers)]
  \cup [pc : {"read"}, deny : Layers(Offers), relax : Layers(Relaxations)]
  \cup [pc : {"merge"}, deny : Layers(Offers), relax : Layers(Relaxations),
        read : Contracts]
  \cup [pc : {"link"}, path : Paths, at : Nat \ {0}, effective : Contracts]

OfLayer(layer) == IF layer = {} THEN Unrestricted ELSE CHOOSE c \in layer : TRUE

GoTo(t, next) == job' = [job EXCEPT ![t] = next]

Init ==
  /\ baseline \in Baselines
  /\ rule = baseline
  /\ denyFile = {} /\ relaxFile = {}
  /\ job = [t \in Threads |-> Idle]

-------------------------------------------------------------------------------
(* Files.  open(path, "w") empties the file before json.dump fills it; a crash   *)
(* in between leaves it so.                                                      *)

TruncateDeny ==
  /\ denyFile' = {}
  /\ UNCHANGED <<baseline, rule, relaxFile, job>>

WriteDeny(c) ==
  /\ denyFile = {}
  /\ IsSubsetOf(c, SessionJson)
  /\ denyFile' = {c}
  /\ UNCHANGED <<baseline, rule, relaxFile, job>>

TruncateRelax ==
  /\ relaxFile' = {}
  /\ UNCHANGED <<baseline, rule, denyFile, job>>

WriteRelax(c) ==
  /\ relaxFile = {}
  /\ IsSubsetOf(c, SessionJson)
  /\ relaxFile' = {c}
  /\ UNCHANGED <<baseline, rule, denyFile, job>>

\* The watcher saw another AGENTS.md.
Reload(c) ==
  /\ baseline' = c /\ rule' = c
  /\ job' = [t \in Threads |-> IF job[t].pc = "link" THEN job[t] ELSE Idle]
  /\ UNCHANGED <<denyFile, relaxFile>>

-------------------------------------------------------------------------------
(* The light path: _apply_runtime_contracts, then policy.check on the rule.      *)

StartLight(t) ==
  /\ job[t] = Idle
  /\ GoTo(t, [pc |-> "deny"])
  /\ UNCHANGED <<baseline, rule, denyFile, relaxFile>>

LoadDeny(t) ==
  /\ job[t].pc = "deny"
  /\ GoTo(t, [pc |-> "relax", deny |-> denyFile])
  /\ UNCHANGED <<baseline, rule, denyFile, relaxFile>>

LoadRelax(t) ==
  /\ job[t].pc = "relax"
  /\ GoTo(t, IF job[t].deny \cup relaxFile = {} THEN Idle
             ELSE [pc |-> "read", deny |-> job[t].deny, relax |-> relaxFile])
  /\ UNCHANGED <<baseline, rule, denyFile, relaxFile>>

ReadRule(t) ==
  /\ job[t].pc = "read"
  /\ GoTo(t, [pc |-> "merge", deny |-> job[t].deny, relax |-> job[t].relax,
              read |-> rule])
  /\ UNCHANGED <<baseline, rule, denyFile, relaxFile>>

ApplyLayers(t) ==
  /\ job[t].pc = "merge"
  /\ rule' = MergeContracts(job[t].read, OfLayer(job[t].deny), OfLayer(job[t].relax))
  /\ GoTo(t, Idle)
  /\ UNCHANGED <<baseline, denyFile, relaxFile>>

-------------------------------------------------------------------------------
(* The full path: _compute_effective_contract, then enforce on its result.       *)

\* Mutant: setup writes any tree to session.json.
StartFullUnchecked(t, path) ==
  /\ job[t] = Idle
  /\ GoTo(t, [pc |-> "link", path |-> path, at |-> 1, effective |-> path[1]])
  /\ UNCHANGED <<baseline, rule, denyFile, relaxFile>>

\* The session has a delegation tree, which setup wrote after validating it.
StartFull(t, path) ==
  /\ job[t] = Idle
  /\ IsValidPath(path)
  /\ GoTo(t, [pc |-> "link", path |-> path, at |-> 1, effective |-> path[1]])
  /\ UNCHANGED <<baseline, rule, denyFile, relaxFile>>

MergeLink(t) ==
  /\ job[t].pc = "link" /\ job[t].at < Len(job[t].path)
  /\ LET next == job[t].at + 1
     IN GoTo(t, [pc |-> "link", path |-> job[t].path, at |-> next,
                 effective |-> MergeStrict(job[t].effective, job[t].path[next])])
  /\ UNCHANGED <<baseline, rule, denyFile, relaxFile>>

EndFull(t) ==
  /\ job[t].pc = "link" /\ job[t].at = Len(job[t].path)
  /\ GoTo(t, Idle)
  /\ UNCHANGED <<baseline, rule, denyFile, relaxFile>>

-------------------------------------------------------------------------------
Call(t) ==
  \/ StartLight(t) \/ LoadDeny(t) \/ LoadRelax(t) \/ ReadRule(t) \/ ApplyLayers(t)
  \/ (\E path \in Paths : StartFull(t, path)) \/ MergeLink(t) \/ EndFull(t)

Next ==
  \/ \E t \in Threads : Call(t)
  \/ TruncateDeny \/ TruncateRelax
  \/ \E c \in Offers : WriteDeny(c)
  \/ \E c \in Relaxations : WriteRelax(c)
  \/ \E c \in Baselines : Reload(c)

Spec == Init /\ [][Next]_vars

-------------------------------------------------------------------------------
\* Every variable has a value of its type.
TypeOK ==
  /\ baseline \in Contracts /\ rule \in Contracts
  /\ denyFile \in Layers(Offers) /\ relaxFile \in Layers(Relaxations)
  /\ job \in [Threads -> Jobs]

\* Whatever is written to the runtime files, in whatever order threads merge them
\* and put the results back, the policy never permits a call that the AGENTS.md
\* it was loaded from denies (merge_contracts: "Guaranteed to be no more
\* permissive than session").  A whitelist of several kinds of scope or a status
\* that blocks is not preserved: the code drops both.
NeverLooserThanSession ==
  OneKind(baseline) /\ ~baseline.blocks =>
    \A call \in Calls : Permits(rule, call) => Permits(baseline, call)

\* Merging contract after contract along a validated tree never ends in an
\* effective contract that permits what the root's denies, in the dimensions the
\* strict merge keeps (_merge_contracts_strict: monotonic shrinking).
EffectiveWithinRoot ==
  \A t \in Threads : job[t].pc = "link" =>
    LET root == job[t].path[1]
    IN OneKind(root) /\ ~root.blocks =>
         \A call \in Calls :
           call.hits \subseteq Rules /\ call.elapsed = {}
             /\ Permits(job[t].effective, call) => Permits(root, call)

\* The runtime layers only tighten: a step that lets the policy permit a call it
\* denied is a reload, or puts back a contract merged from one that another
\* thread has replaced since.
LoosensOnlyWhenStale ==
  [][(\E call \in Calls : Permits(rule', call) /\ ~Permits(rule, call)) =>
       \/ \E c \in Baselines : Reload(c)
       \/ \E t \in Threads : ApplyLayers(t) /\ job[t].read # rule
       \/ ~OneKind(rule) \/ rule.blocks]_vars
=============================================================================
