------------------------------- MODULE Contract -------------------------------
(* IntentContract as the kernel evaluates and combines it: check                 *)
(* (ystar/kernel/engine.py), the three-layer merge (ystar/kernel/merge.py), the *)
(* monotonicity test and the tree validation (ystar/kernel/dimensions.py) and   *)
(* the strict merge of the hook (ystar/adapters/hook.py).                        *)
(*                                                                              *)
(* A contract has the dimensions of the code, the alike ones put together:      *)
(*   rules     deny, deny_commands and invariant                                *)
(*   extras    field_deny, optional_invariant and postcondition                 *)
(*   paths     only_paths; domains  only_domains                                *)
(*   min, max  value_range of a parameter; deadline  obligation_timing of a type *)
(*   blocks    a legitimacy status (draft, suspended) that denies everything    *)
(* A bound is a set of at most one number.  A call has the rules and extras it  *)
(* would break and the paths, domains, values and elapsed times it carries.     *)
EXTENDS Integers, FiniteSets

CONSTANTS
  Rules, Extras, Places, Domains,
  Within,      \* <<p, q>>: the path or scope p is q or lies under it
  StartsWith,  \* <<p, q>>: the text of p starts with the text of q
  Subdomain,   \* <<d, a>>: _domain_is_allowed(d, [a])
  Kind         \* classify_scope: path, module, external or external_domain

ASSUME PlaceAssumption ==
  /\ Rules \cap Extras = {}
  /\ \A p \in Places : <<p, p>> \in Within
  /\ \A p, q, r \in Places :
       <<p, q>> \in Within /\ <<q, r>> \in Within => <<p, r>> \in Within
  /\ \A p, q \in Places : <<p, q>> \in Within => Kind[p] = Kind[q]
  /\ \A p, q \in Places : <<p, q>> \in Within => <<p, q>> \in StartsWith

Bound == {b \in SUBSET Int : \A x, y \in b : x = y}

Contracts ==
  [rules : SUBSET Rules, extras : SUBSET Extras, paths : SUBSET Places,
   domains : SUBSET Domains, min : Bound, max : Bound, deadline : Bound,
   blocks : BOOLEAN]

CallShapes ==
  [hits : SUBSET (Rules \cup Extras), paths : SUBSET Places, domains : SUBSET Domains,
   value : Bound, elapsed : Bound]

Least(A) == {x \in A : \A y \in A : x <= y}
Greatest(A) == {x \in A : \A y \in A : x >= y}

-------------------------------------------------------------------------------
(* check *)

\* only_paths restricts the kinds of scope it names, and no other.
PathAllowed(whitelist, p) ==
  LET ofKind == {q \in whitelist : Kind[q] = Kind[p]}
  IN ofKind = {} \/ \E q \in ofKind : <<p, q>> \in Within

DomainAllowed(whitelist, d) ==
  whitelist = {} \/ \E a \in whitelist : <<d, a>> \in Subdomain

Permits(c, call) ==
  /\ ~c.blocks
  /\ (c.rules \cup c.extras) \cap call.hits = {}
  /\ \A p \in call.paths : PathAllowed(c.paths, p)
  /\ \A d \in call.domains : DomainAllowed(c.domains, d)
  /\ \A v \in call.value : (\A m \in c.min : v >= m) /\ (\A m \in c.max : v <= m)
  /\ \A e \in call.elapsed : \A m \in c.deadline : e <= m

-------------------------------------------------------------------------------
(* is_subset_of and validate_tree *)

PathsWithin(paths, whitelist) ==
  \A p \in paths : \E q \in whitelist : <<p, q>> \in Within

\* Extras, deadlines and the status are not compared, nor a bound that only one
\* side has as long as both restrict the value.
IsSubsetOf(c, parent) ==
  /\ parent.rules \subseteq c.rules
  /\ parent.paths # {} => c.paths # {} /\ PathsWithin(c.paths, parent.paths)
  /\ parent.domains # {} => c.domains # {} /\ c.domains \subseteq parent.domains
  /\ parent.min \cup parent.max # {} => c.min \cup c.max # {}
  /\ \A m \in c.max : \A n \in parent.max : m <= n
  /\ \A m \in c.min : \A n \in parent.min : m >= n

\* The contracts on the way from the root of a tree to an actor (find_path) of a
\* tree that validate_tree accepts.
IsValidPath(path) ==
  \A i \in DOMAIN path : i + 1 \in DOMAIN path => IsSubsetOf(path[i + 1], path[i])

-------------------------------------------------------------------------------
(* merge_contracts(session, deny, relax) *)

\* Mutant: the relax layer takes from the session, too.
MergeBlacklistRelaxed(s, d, r) == (s \cup d) \ r

\* What the deny layer adds to a blacklist the relax layer takes away again.
MergeBlacklist(s, d, r) == s \cup (d \ r)

\* A deny layer outside the session's whitelist is as none.
MergePaths(s, d, r) ==
  LET inside(paths) == {p \in paths : \E q \in s : <<p, q>> \in Within}
  IN IF s = {} THEN {}
     ELSE (IF inside(d) = {} THEN s ELSE inside(d)) \cup inside(r)

MergeDomains(s, d, r) ==
  IF s = {} THEN {}
  ELSE (IF d \cap s = {} THEN s ELSE d \cap s) \cup (r \cap s)

\* Mutant: both bounds are kept.
MergeMaxBoth(s, d, r) == s \cup d

\* The layer that tightens sets the bound, the one that relaxes moves it back to
\* the session's at most; without a bound to move it does nothing.
MergeMax(s, d, r) ==
  LET after == Least(s \cup d)
  IN IF after = {} THEN {}
     ELSE Least((IF s = {} THEN r ELSE s) \cup Greatest(after \cup r))

\* Mutant: relaxing has no floor.
MergeMinUnfloored(s, d, r) == Least(Greatest(s \cup d) \cup r)

MergeMin(s, d, r) ==
  LET after == Greatest(s \cup d)
  IN IF after = {} THEN {}
     ELSE Greatest((IF s = {} THEN r ELSE s) \cup Least(after \cup r))

\* The status of the session's contract is not taken over.
MergeContracts(s, d, r) ==
  [rules |-> MergeBlacklist(s.rules, d.rules, r.rules),
   extras |-> MergeBlacklist(s.extras, d.extras, r.extras),
   paths |-> MergePaths(s.paths, d.paths, r.paths),
   domains |-> MergeDomains(s.domains, d.domains, r.domains),
   min |-> MergeMin(s.min, d.min, r.min),
   max |-> MergeMax(s.max, d.max, r.max),
   deadline |-> MergeMax(s.deadline, d.deadline, r.deadline),
   blocks |-> FALSE]

\* IntentContract(): what an absent layer stands for.
Unrestricted ==
  [rules |-> {}, extras |-> {}, paths |-> {}, domains |-> {},
   min |-> {}, max |-> {}, deadline |-> {}, blocks |-> FALSE]

-------------------------------------------------------------------------------
(* _merge_contracts_strict(c1, c2) *)

\* Of two paths one of which starts with the other the longer one; two lists that
\* have nothing in common leave an empty whitelist, which restricts nothing.
IntersectPaths(a, b) ==
  IF a = {} \/ b = {} THEN a \cup b
  ELSE {p \in a : \E q \in b : <<p, q>> \in StartsWith}
       \cup {q \in b : \E p \in a : <<q, p>> \in StartsWith}

IntersectDomains(a, b) == IF a = {} \/ b = {} THEN a \cup b ELSE a \cap b

\* Extras, timing and status are dropped.
MergeStrict(a, b) ==
  [rules |-> a.rules \cup b.rules,
   extras |-> {},
   paths |-> IntersectPaths(a.paths, b.paths),
   domains |-> IntersectDomains(a.domains, b.domains),
   min |-> Greatest(a.min \cup b.min),
   max |-> Least(a.max \cup b.max),
   deadline |-> {},
   blocks |-> FALSE]

-------------------------------------------------------------------------------
\* c is at least as strict as s in the dimensions that is_subset_of compares,
\* every bound included.
Compared(c, s) ==
  /\ s.rules \subseteq c.rules
  /\ s.paths # {} => c.paths # {} /\ PathsWithin(c.paths, s.paths)
  /\ s.domains # {} => c.domains # {} /\ c.domains \subseteq s.domains
  /\ \A n \in s.max : \E m \in c.max : m <= n
  /\ \A n \in s.min : \E m \in c.min : m >= n

\* c is at least as strict as s in every dimension.
NoLooser(c, s) ==
  /\ Compared(c, s)
  /\ s.extras \subseteq c.extras
  /\ \A n \in s.deadline : \E m \in c.deadline : m <= n

\* The whitelist names scopes of one kind.
OneKind(c) == \A p, q \in c.paths : Kind[p] = Kind[q]
=============================================================================
