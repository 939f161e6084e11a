-------------------------- MODULE HookContractsProofs --------------------------
(* Proofs about the combination of contracts and its use by the hook, and about  *)
(* the daemon that serves the hook: its queues and the watcher of AGENTS.md.     *)
EXTENDS HookContracts, HookDaemon, FiniteSetTheorems, TLAPS

-------------------------------------------------------------------------------
(* Bounds *)

LEMMA BoundForms ==
  ASSUME NEW b \in Bound
  PROVE  b = {} \/ \E x \in Int : b = {x}
BY DEF Bound

LEMMA SingletonIsBound ==
  ASSUME NEW x \in Int
  PROVE  {x} \in Bound
BY DEF Bound

LEMMA EmptyIsBound == {} \in Bound
BY DEF Bound

\* The least of the numbers of a set that has one.
LEMMA LeastIs ==
  ASSUME NEW A \in SUBSET Int, NEW m \in A, \A n \in A : m <= n
  PROVE  /\ Least(A) = {m} /\ Least(A) \in Bound
         /\ \A n \in A : \E l \in Least(A) : l <= n
<1>1. Least(A) = {m}
  <2>1. m \in Least(A)
    BY DEF Least
  <2>2. ASSUME NEW l \in Least(A)
        PROVE  l = m
    <3>1. l \in Int /\ m \in Int /\ l <= m /\ m <= l
      BY DEF Least
    <3> QED BY <3>1
  <2> QED BY <2>1, <2>2
<1>2. m \in Int
  OBVIOUS
<1> QED BY <1>1, <1>2, SingletonIsBound

LEMMA LeastOfBounds ==
  ASSUME NEW s \in Bound, NEW d \in Bound
  PROVE  /\ Least(s \cup d) \in Bound
         /\ (Least(s \cup d) = {}) <=> (s = {} /\ d = {})
         /\ \A n \in s \cup d : \E l \in Least(s \cup d) : l <= n
<1>1. CASE s \cup d = {}
  <2>1. Least(s \cup d) = {}
    BY <1>1 DEF Least
  <2> QED BY <1>1, <2>1, EmptyIsBound
<1>2. CASE s \cup d # {}
  <2>1. PICK x \in Int, y \in Int : s \cup d = {x} \cup {y}
    BY <1>2, BoundForms
  <2>2. PICK m \in {x} \cup {y} : \A n \in {x} \cup {y} : m <= n
    <3>1. CASE x <= y
      BY <3>1
    <3>2. CASE ~(x <= y)
      BY <3>2
    <3> QED BY <3>1, <3>2
  <2>3. s \cup d \in SUBSET Int
    BY <2>1
  <2>4. m \in s \cup d /\ \A n \in s \cup d : m <= n
    BY <2>1, <2>2
  <2>5. /\ Least(s \cup d) = {m} /\ Least(s \cup d) \in Bound
        /\ \A n \in s \cup d : \E l \in Least(s \cup d) : l <= n
    BY <2>3, <2>4, LeastIs
  <2>6. Least(s \cup d) # {}
    BY <2>5
  <2> QED BY <1>2, <2>5, <2>6
<1> QED BY <1>1, <1>2

\* The greatest of the numbers of a set that has one.
LEMMA GreatestIs ==
  ASSUME NEW A \in SUBSET Int, NEW m \in A, \A n \in A : m >= n
  PROVE  /\ Greatest(A) = {m} /\ Greatest(A) \in Bound
         /\ \A n \in A : \E l \in Greatest(A) : l >= n
<1>1. Greatest(A) = {m}
  <2>1. m \in Greatest(A)
    BY DEF Greatest
  <2>2. ASSUME NEW l \in Greatest(A)
        PROVE  l = m
    <3>1. l \in Int /\ m \in Int /\ l >= m /\ m >= l
      BY DEF Greatest
    <3> QED BY <3>1
  <2> QED BY <2>1, <2>2
<1>2. m \in Int
  OBVIOUS
<1> QED BY <1>1, <1>2, SingletonIsBound

LEMMA GreatestOfBounds ==
  ASSUME NEW s \in Bound, NEW d \in Bound
  PROVE  /\ Greatest(s \cup d) \in Bound
         /\ (Greatest(s \cup d) = {}) <=> (s = {} /\ d = {})
         /\ \A n \in s \cup d : \E l \in Greatest(s \cup d) : l >= n
<1>1. CASE s \cup d = {}
  <2>1. Greatest(s \cup d) = {}
    BY <1>1 DEF Greatest
  <2> QED BY <1>1, <2>1, EmptyIsBound
<1>2. CASE s \cup d # {}
  <2>1. PICK x \in Int, y \in Int : s \cup d = {x} \cup {y}
    BY <1>2, BoundForms
  <2>2. PICK m \in {x} \cup {y} : \A n \in {x} \cup {y} : m >= n
    <3>1. CASE x >= y
      BY <3>1
    <3>2. CASE ~(x >= y)
      BY <3>2
    <3> QED BY <3>1, <3>2
  <2>3. s \cup d \in SUBSET Int
    BY <2>1
  <2>4. m \in s \cup d /\ \A n \in s \cup d : m >= n
    BY <2>1, <2>2
  <2>5. /\ Greatest(s \cup d) = {m} /\ Greatest(s \cup d) \in Bound
        /\ \A n \in s \cup d : \E l \in Greatest(s \cup d) : l >= n
    BY <2>3, <2>4, GreatestIs
  <2>6. Greatest(s \cup d) # {}
    BY <2>5
  <2> QED BY <1>2, <2>5, <2>6
<1> QED BY <1>1, <1>2

\* However far the relax layer asks, the merged upper bound stays at or below the
\* session's.
LEMMA MergeMaxTightens ==
  ASSUME NEW s \in Bound, NEW d \in Bound, NEW r \in Bound
  PROVE  /\ MergeMax(s, d, r) \in Bound
         /\ \A n \in s : \E m \in MergeMax(s, d, r) : m <= n
<1> DEFINE after == Least(s \cup d)
           limit == IF s = {} THEN r ELSE s
           loose == Greatest(after \cup r)
<1>1. after \in Bound /\ (after = {} => s = {})
  BY LeastOfBounds
<1>2. limit \in Bound /\ loose \in Bound
  BY <1>1, GreatestOfBounds
<1>3. Least(limit \cup loose) \in Bound
      /\ \A n \in limit : \E m \in Least(limit \cup loose) : m <= n
  <2> HIDE DEF limit, loose
  <2> QED BY <1>2, LeastOfBounds
<1>4. MergeMax(s, d, r) = IF after = {} THEN {} ELSE Least(limit \cup loose)
  BY DEF MergeMax
<1> QED BY <1>1, <1>3, <1>4, EmptyIsBound

LEMMA MergeMinTightens ==
  ASSUME NEW s \in Bound, NEW d \in Bound, NEW r \in Bound
  PROVE  /\ MergeMin(s, d, r) \in Bound
         /\ \A n \in s : \E m \in MergeMin(s, d, r) : m >= n
<1> DEFINE after == Greatest(s \cup d)
           limit == IF s = {} THEN r ELSE s
           loose == Least(after \cup r)
<1>1. after \in Bound /\ (after = {} => s = {})
  BY GreatestOfBounds
<1>2. limit \in Bound /\ loose \in Bound
  BY <1>1, LeastOfBounds
<1>3. Greatest(limit \cup loose) \in Bound
      /\ \A n \in limit : \E m \in Greatest(limit \cup loose) : m >= n
  <2> HIDE DEF limit, loose
  <2> QED BY <1>2, GreatestOfBounds
<1>4. MergeMin(s, d, r) = IF after = {} THEN {} ELSE Greatest(limit \cup loose)
  BY DEF MergeMin
<1> QED BY <1>1, <1>3, <1>4, EmptyIsBound

-------------------------------------------------------------------------------
(* Contracts *)

LEMMA NoLooserReflexive ==
  ASSUME NEW s \in Contracts
  PROVE  NoLooser(s, s)
<1>1. \A p \in s.paths : <<p, p>> \in Within
  BY PlaceAssumption DEF Contracts
<1>2. \A m \in s.min \cup s.max \cup s.deadline : m <= m /\ m >= m
  BY DEF Contracts, Bound
<1> QED BY <1>1, <1>2 DEF NoLooser, Compared, PathsWithin

LEMMA ComparedTransitive ==
  ASSUME NEW a \in Contracts, NEW b \in Contracts, NEW c \in Contracts,
         Compared(a, b), Compared(b, c)
  PROVE  Compared(a, c)
<1>1. ASSUME c.paths # {}
      PROVE  a.paths # {} /\ PathsWithin(a.paths, c.paths)
  <2>1. b.paths # {} /\ PathsWithin(b.paths, c.paths)
    BY <1>1 DEF Compared
  <2>2. a.paths # {} /\ PathsWithin(a.paths, b.paths)
    BY <2>1 DEF Compared
  <2>3. a.paths \subseteq Places /\ b.paths \subseteq Places /\ c.paths \subseteq Places
    BY DEF Contracts
  <2> QED BY <2>1, <2>2, <2>3, PlaceAssumption DEF PathsWithin
<1>2. c.domains # {} => a.domains # {} /\ a.domains \subseteq c.domains
  BY DEF Compared
<1>3. c.rules \subseteq a.rules
  BY DEF Compared
<1>4. \A n \in c.max : \E m \in a.max : m <= n
  <2>1. a.max \subseteq Int /\ b.max \subseteq Int /\ c.max \subseteq Int
    BY DEF Contracts, Bound
  <2>2. /\ \A n \in c.max : \E m \in b.max : m <= n
        /\ \A n \in b.max : \E m \in a.max : m <= n
    BY DEF Compared
  <2> QED BY <2>1, <2>2
<1>5. \A n \in c.min : \E m \in a.min : m >= n
  <2>1. a.min \subseteq Int /\ b.min \subseteq Int /\ c.min \subseteq Int
    BY DEF Contracts, Bound
  <2>2. /\ \A n \in c.min : \E m \in b.min : m >= n
        /\ \A n \in b.min : \E m \in a.min : m >= n
    BY DEF Compared
  <2> QED BY <2>1, <2>2
<1> QED BY <1>1, <1>2, <1>3, <1>4, <1>5 DEF Compared

LEMMA NoLooserTransitive ==
  ASSUME NEW a \in Contracts, NEW b \in Contracts, NEW c \in Contracts,
         NoLooser(a, b), NoLooser(b, c)
  PROVE  NoLooser(a, c)
<1>1. Compared(a, c)
  BY ComparedTransitive DEF NoLooser
<1>2. \A n \in c.deadline : \E m \in a.deadline : m <= n
  <2>1. a.deadline \subseteq Int /\ b.deadline \subseteq Int /\ c.deadline \subseteq Int
    BY DEF Contracts, Bound
  <2>2. /\ \A n \in c.deadline : \E m \in b.deadline : m <= n
        /\ \A n \in b.deadline : \E m \in a.deadline : m <= n
    BY DEF NoLooser
  <2> QED BY <2>1, <2>2
<1> QED BY <1>1, <1>2 DEF NoLooser

\* The comparison of contracts is about calls: a contract that is at least as
\* strict in the compared dimensions permits no call that the other one denies,
\* as long as the call touches nothing else.
LEMMA ComparedPermits ==
  ASSUME NEW c \in Contracts, NEW s \in Contracts, NEW call \in CallShapes,
         Compared(c, s), OneKind(s), ~s.blocks, Permits(c, call),
         s.extras \cap call.hits = {},
         \A e \in call.elapsed : \A m \in s.deadline : e <= m
  PROVE  Permits(s, call)
<1>1. (s.rules \cup s.extras) \cap call.hits = {}
  BY DEF Compared, Permits
<1>2. ASSUME NEW p \in call.paths
      PROVE  PathAllowed(s.paths, p)
  <2> DEFINE ofKind == {q \in s.paths : Kind[q] = Kind[p]}
  <2>0. /\ p \in Places /\ s.paths \subseteq Places /\ c.paths \subseteq Places
    BY DEF CallShapes, Contracts
  <2>1. CASE ofKind = {}
    BY <2>1 DEF PathAllowed
  <2>2. CASE ofKind # {}
    <3>1. \A q \in s.paths : Kind[q] = Kind[p]
      BY <2>2 DEF OneKind
    <3>2. c.paths # {} /\ PathsWithin(c.paths, s.paths)
      BY <2>2 DEF Compared
    <3>3. \A q \in c.paths : Kind[q] = Kind[p]
      BY <2>0, <3>1, <3>2, PlaceAssumption DEF PathsWithin
    <3>4. PathAllowed(c.paths, p)
      BY DEF Permits
    <3>5. PICK q \in c.paths : <<p, q>> \in Within
      BY <3>2, <3>3, <3>4 DEF PathAllowed
    <3>6. PICK r \in s.paths : <<q, r>> \in Within
      BY <3>2 DEF PathsWithin
    <3>7. <<p, r>> \in Within
      BY <2>0, <3>5, <3>6, PlaceAssumption
    <3> QED BY <3>1, <3>7 DEF PathAllowed
  <2> QED BY <2>1, <2>2
<1>3. \A d \in call.domains : DomainAllowed(s.domains, d)
  BY DEF Compared, Permits, DomainAllowed
<1>4. ASSUME NEW v \in call.value
      PROVE  (\A n \in s.min : v >= n) /\ (\A n \in s.max : v <= n)
  <2>1. /\ v \in Int /\ s.max \subseteq Int /\ c.max \subseteq Int
        /\ s.min \subseteq Int /\ c.min \subseteq Int
    BY DEF CallShapes, Contracts, Bound
  <2>2. (\A m \in c.min : v >= m) /\ (\A m \in c.max : v <= m)
    BY DEF Permits
  <2>3. /\ \A n \in s.max : \E m \in c.max : m <= n
        /\ \A n \in s.min : \E m \in c.min : m >= n
    BY DEF Compared
  <2> QED BY <2>1, <2>2, <2>3
<1> QED BY <1>1, <1>2, <1>3, <1>4 DEF Permits

LEMMA NoLooserPermits ==
  ASSUME NEW c \in Contracts, NEW s \in Contracts, NEW call \in CallShapes,
         NoLooser(c, s), OneKind(s), ~s.blocks, Permits(c, call)
  PROVE  Permits(s, call)
<1>1. s.extras \cap call.hits = {}
  BY DEF NoLooser, Permits
<1>2. ASSUME NEW e \in call.elapsed, NEW n \in s.deadline
      PROVE  e <= n
  <2>1. e \in Int /\ n \in Int /\ c.deadline \subseteq Int
    BY DEF CallShapes, Contracts, Bound
  <2>2. PICK m \in c.deadline : m <= n
    BY DEF NoLooser
  <2>3. e <= m
    BY DEF Permits
  <2> QED BY <2>1, <2>2, <2>3
<1> QED BY <1>1, <1>2, ComparedPermits DEF NoLooser

\* merge_contracts yields a contract, whatever the layers.
LEMMA MergeType ==
  ASSUME NEW s \in Contracts, NEW d \in Contracts, NEW r \in Contracts
  PROVE  MergeContracts(s, d, r) \in Contracts
<1>1. /\ MergeBlacklist(s.rules, d.rules, r.rules) \in SUBSET Rules
      /\ MergeBlacklist(s.extras, d.extras, r.extras) \in SUBSET Extras
  BY DEF MergeBlacklist, Contracts
<1>2. MergePaths(s.paths, d.paths, r.paths) \in SUBSET Places
  BY DEF MergePaths, Contracts
<1>3. MergeDomains(s.domains, d.domains, r.domains) \in SUBSET Domains
  BY DEF MergeDomains, Contracts
<1>4. /\ MergeMin(s.min, d.min, r.min) \in Bound
      /\ MergeMax(s.max, d.max, r.max) \in Bound
      /\ MergeMax(s.deadline, d.deadline, r.deadline) \in Bound
  BY MergeMinTightens, MergeMaxTightens DEF Contracts
<1> QED BY <1>1, <1>2, <1>3, <1>4 DEF MergeContracts, Contracts

\* merge_contracts' guarantee: no deny and no relax layer makes the result looser
\* than the session's contract in any dimension.
LEMMA MergeNoLooser ==
  ASSUME NEW s \in Contracts, NEW d \in Contracts, NEW r \in Contracts
  PROVE  NoLooser(MergeContracts(s, d, r), s)
<1> DEFINE c == MergeContracts(s, d, r)
<1>1. s.rules \subseteq c.rules /\ s.extras \subseteq c.extras
  BY DEF MergeContracts, MergeBlacklist
<1>2. ASSUME s.paths # {}
      PROVE  c.paths # {} /\ PathsWithin(c.paths, s.paths)
  <2> DEFINE inside(paths) == {p \in paths : \E q \in s.paths : <<p, q>> \in Within}
  <2>1. c.paths = (IF inside(d.paths) = {} THEN s.paths ELSE inside(d.paths))
                  \cup inside(r.paths)
    BY <1>2 DEF MergeContracts, MergePaths
  <2>2. \A p \in s.paths : \E q \in s.paths : <<p, q>> \in Within
    BY PlaceAssumption DEF Contracts
  <2> HIDE DEF c
  <2> QED BY <1>2, <2>1, <2>2 DEF PathsWithin
<1>3. s.domains # {} => c.domains # {} /\ c.domains \subseteq s.domains
  BY DEF MergeContracts, MergeDomains
<1>4. /\ \A n \in s.max : \E m \in c.max : m <= n
      /\ \A n \in s.deadline : \E m \in c.deadline : m <= n
      /\ \A n \in s.min : \E m \in c.min : m >= n
  <2>1. /\ \A n \in s.max : \E m \in MergeMax(s.max, d.max, r.max) : m <= n
        /\ \A n \in s.deadline :
             \E m \in MergeMax(s.deadline, d.deadline, r.deadline) : m <= n
        /\ \A n \in s.min : \E m \in MergeMin(s.min, d.min, r.min) : m >= n
    BY MergeMinTightens, MergeMaxTightens DEF Contracts
  <2> QED BY <2>1 DEF MergeContracts
<1> HIDE DEF c
<1>5. NoLooser(c, s)
  BY <1>1, <1>2, <1>3, <1>4 DEF NoLooser, Compared
<1> QED BY <1>5 DEF c

LEMMA StrictType ==
  ASSUME NEW a \in Contracts, NEW b \in Contracts
  PROVE  MergeStrict(a, b) \in Contracts
<1>1. IntersectPaths(a.paths, b.paths) \in SUBSET Places
  BY DEF IntersectPaths, Contracts
<1>2. IntersectDomains(a.domains, b.domains) \in SUBSET Domains
  BY DEF IntersectDomains, Contracts
<1>3. Greatest(a.min \cup b.min) \in Bound /\ Least(a.max \cup b.max) \in Bound
  BY LeastOfBounds, GreatestOfBounds DEF Contracts
<1>4. a.rules \cup b.rules \in SUBSET Rules
  BY DEF Contracts
<1> QED BY <1>1, <1>2, <1>3, <1>4, EmptyIsBound DEF MergeStrict, Contracts

\* The effective contract e has all the scopes of the last contract merged, c, in
\* the dimensions the root restricts.
Tracks(e, c, root) ==
  /\ root.paths # {} => c.paths # {} /\ c.paths \subseteq e.paths
  /\ root.domains # {} => c.domains # {} /\ c.domains \subseteq e.domains

\* One link of a validated tree more: the effective contract stays within the
\* root's, because what the next contract allows lies within what the last one
\* allowed, so that no whitelist runs empty.
LEMMA LinkKeepsRoot ==
  ASSUME NEW e \in Contracts, NEW c \in Contracts, NEW n \in Contracts,
         NEW root \in Contracts,
         Compared(e, root), Tracks(e, c, root), IsSubsetOf(n, c)
  PROVE  Compared(MergeStrict(e, n), root) /\ Tracks(MergeStrict(e, n), n, root)
<1> DEFINE f == MergeStrict(e, n)
<1>0. /\ e.paths \subseteq Places /\ c.paths \subseteq Places /\ n.paths \subseteq Places
      /\ root.paths \subseteq Places
  BY DEF Contracts
<1>1. root.rules \subseteq f.rules
  BY DEF Compared, MergeStrict
<1>2. ASSUME root.paths # {}
      PROVE  /\ f.paths # {} /\ PathsWithin(f.paths, root.paths)
             /\ n.paths # {} /\ n.paths \subseteq f.paths
  <2>1. /\ e.paths # {} /\ PathsWithin(e.paths, root.paths)
        /\ c.paths # {} /\ c.paths \subseteq e.paths
    BY <1>2 DEF Compared, Tracks
  <2>2. n.paths # {} /\ PathsWithin(n.paths, c.paths)
    BY <2>1 DEF IsSubsetOf
  <2>3. f.paths = {p \in e.paths : \E q \in n.paths : <<p, q>> \in StartsWith}
                  \cup {q \in n.paths : \E p \in e.paths : <<q, p>> \in StartsWith}
    BY <2>1, <2>2 DEF MergeStrict, IntersectPaths
  <2> HIDE DEF f
  <2>4. ASSUME NEW q \in n.paths
        PROVE  q \in f.paths /\ \E w \in root.paths : <<q, w>> \in Within
    <3>1. PICK p \in c.paths : <<q, p>> \in Within
      BY <2>2 DEF PathsWithin
    <3>2. p \in e.paths /\ q \in Places /\ p \in Places
      BY <1>0, <2>1, <3>1
    <3>3. <<q, p>> \in StartsWith
      BY <3>1, <3>2, PlaceAssumption
    <3>4. PICK w \in root.paths : <<p, w>> \in Within
      BY <2>1, <3>2 DEF PathsWithin
    <3>5. <<q, w>> \in Within
      BY <1>0, <3>1, <3>2, <3>4, PlaceAssumption
    <3> QED BY <2>3, <3>2, <3>3, <3>5
  <2>5. PathsWithin(f.paths, root.paths)
    BY <2>1, <2>3, <2>4 DEF PathsWithin
  <2> QED BY <2>2, <2>4, <2>5
<1>3. ASSUME root.domains # {}
      PROVE  /\ f.domains # {} /\ f.domains \subseteq root.domains
             /\ n.domains # {} /\ n.domains \subseteq f.domains
  <2>1. /\ e.domains # {} /\ e.domains \subseteq root.domains
        /\ c.domains # {} /\ c.domains \subseteq e.domains
    BY <1>3 DEF Compared, Tracks
  <2>2. n.domains # {} /\ n.domains \subseteq c.domains
    BY <2>1 DEF IsSubsetOf
  <2>3. f.domains = e.domains \cap n.domains
    BY <2>1, <2>2 DEF MergeStrict, IntersectDomains
  <2> QED BY <2>1, <2>2, <2>3
<1>4. \A x \in root.max : \E m \in f.max : m <= x
  <2>1. f.max = Least(e.max \cup n.max) /\ e.max \in Bound /\ n.max \in Bound
    BY DEF MergeStrict, Contracts
  <2>2. \A y \in e.max : \E m \in f.max : m <= y
    BY <2>1, LeastOfBounds
  <2>3. /\ root.max \subseteq Int /\ e.max \subseteq Int /\ f.max \subseteq Int
    <3>1. f.max \in Bound
      BY <2>1, LeastOfBounds
    <3>2. root.max \in Bound
      BY DEF Contracts
    <3> HIDE DEF f
    <3> QED BY <2>1, <3>1, <3>2 DEF Bound
  <2>4. \A x \in root.max : \E y \in e.max : y <= x
    BY DEF Compared
  <2> HIDE DEF f
  <2> QED BY <2>2, <2>3, <2>4
<1>5. \A x \in root.min : \E m \in f.min : m >= x
  <2>1. f.min = Greatest(e.min \cup n.min) /\ e.min \in Bound /\ n.min \in Bound
    BY DEF MergeStrict, Contracts
  <2>2. \A y \in e.min : \E m \in f.min : m >= y
    BY <2>1, GreatestOfBounds
  <2>3. /\ root.min \subseteq Int /\ e.min \subseteq Int /\ f.min \subseteq Int
    <3>1. f.min \in Bound
      BY <2>1, GreatestOfBounds
    <3>2. root.min \in Bound
      BY DEF Contracts
    <3> HIDE DEF f
    <3> QED BY <2>1, <3>1, <3>2 DEF Bound
  <2>4. \A x \in root.min : \E y \in e.min : y >= x
    BY DEF Compared
  <2> HIDE DEF f
  <2> QED BY <2>2, <2>3, <2>4
<1> HIDE DEF f
<1>6. Compared(f, root) /\ Tracks(f, n, root)
  BY <1>1, <1>2, <1>3, <1>4, <1>5 DEF Compared, Tracks
<1> QED BY <1>6 DEF f

-------------------------------------------------------------------------------
(* The state machine *)

LEMMA UnrestrictedType == Unrestricted \in Contracts
BY EmptyIsBound DEF Unrestricted, Contracts

LEMMA LayerType ==
  ASSUME NEW S \in SUBSET Contracts, NEW layer \in Layers(S)
  PROVE  OfLayer(layer) \in Contracts
BY UnrestrictedType DEF Layers, OfLayer

LEMMA LayerFacts ==
  /\ Offers \subseteq Contracts /\ Relaxations \subseteq Contracts
  /\ Baselines \subseteq Contracts
  /\ \A path \in Paths : /\ path \in Seq(Contracts) /\ path # <<>>
                          /\ Len(path) \in Nat \ {0} /\ path[1] \in Contracts
<1>1. Paths \subseteq Seq(Contracts) \ {<<>>}
  BY HookAssumption
<1>2. ASSUME NEW path \in Paths
      PROVE  /\ path \in Seq(Contracts) /\ path # <<>>
             /\ Len(path) \in Nat \ {0} /\ path[1] \in Contracts
  BY <1>1
<1> QED BY <1>2, HookAssumption

LEMMA JobForms ==
  ASSUME NEW j \in Jobs
  PROVE  /\ j.pc = "relax" => j.deny \in Layers(Offers)
         /\ j.pc = "read" => j.deny \in Layers(Offers) /\ j.relax \in Layers(Relaxations)
         /\ j.pc = "merge" => /\ j.deny \in Layers(Offers)
                               /\ j.relax \in Layers(Relaxations)
                               /\ j.read \in Contracts
         /\ j.pc = "link" => /\ j.path \in Paths /\ j.at \in Nat \ {0}
                              /\ j.effective \in Contracts
                              /\ j = [pc |-> "link", path |-> j.path, at |-> j.at,
                                      effective |-> j.effective]
BY DEF Jobs, Idle

\* A merge yields a job of its type.
LEMMA AppliedType ==
  ASSUME TypeOK, NEW t \in Threads, job[t].pc = "merge"
  PROVE  /\ job[t].read \in Contracts
         /\ OfLayer(job[t].deny) \in Contracts /\ OfLayer(job[t].relax) \in Contracts
<1>1. job[t] \in Jobs
  BY DEF TypeOK
<1> QED BY <1>1, JobForms, LayerType, LayerFacts

LEMMA LinkFacts ==
  ASSUME TypeOK, NEW t \in Threads, job[t].pc = "link", job[t].at < Len(job[t].path)
  PROVE  LET j == job[t]
             n == j.path[j.at + 1]
         IN /\ j.path \in Paths /\ j.at \in Nat \ {0} /\ j.effective \in Contracts
            /\ j.path[1] \in Contracts /\ j.path[j.at] \in Contracts /\ n \in Contracts
            /\ j.at \in DOMAIN j.path /\ j.at + 1 \in DOMAIN j.path
<1> DEFINE j == job[t]
<1>1. j \in Jobs
  BY DEF TypeOK
<1>2. /\ j.path \in Paths /\ j.at \in Nat \ {0} /\ j.effective \in Contracts
      /\ j = [pc |-> "link", path |-> j.path, at |-> j.at, effective |-> j.effective]
  BY <1>1, JobForms
<1>3. j.path \in Seq(Contracts) /\ j.path[1] \in Contracts /\ Len(j.path) \in Nat
  BY <1>2, LayerFacts
<1>4. j.at \in 1..Len(j.path) /\ j.at + 1 \in 1..Len(j.path)
  BY <1>2, <1>3
<1>5. /\ j.path[j.at] \in Contracts /\ j.path[j.at + 1] \in Contracts
      /\ j.at \in DOMAIN j.path /\ j.at + 1 \in DOMAIN j.path
  BY <1>3, <1>4
<1> QED BY <1>2, <1>3, <1>5

THEOREM TypeCorrect == Spec => []TypeOK
<1>1. Init => TypeOK
  <2> SUFFICES ASSUME Init PROVE TypeOK
    OBVIOUS
  <2> QED BY LayerFacts DEF Init, TypeOK, Layers, Jobs
<1>2. TypeOK /\ [Next]_vars => TypeOK'
  <2> SUFFICES ASSUME TypeOK, [Next]_vars PROVE TypeOK'
    OBVIOUS
  <2> USE DEF TypeOK
  <2>1. CASE UNCHANGED vars
    BY <2>1 DEF vars
  <2>2. CASE TruncateDeny \/ TruncateRelax
    BY <2>2 DEF TruncateDeny, TruncateRelax, Layers
  <2>3. ASSUME NEW c \in Offers, WriteDeny(c)
        PROVE  TypeOK'
    BY <2>3 DEF WriteDeny, Layers
  <2>4. ASSUME NEW c \in Relaxations, WriteRelax(c)
        PROVE  TypeOK'
    BY <2>4 DEF WriteRelax, Layers
  <2>5. ASSUME NEW c \in Baselines, Reload(c)
        PROVE  TypeOK'
    <3>1. c \in Contracts /\ Idle \in Jobs
      BY LayerFacts DEF Jobs
    <3> QED BY <2>5, <3>1 DEF Reload
  <2>6. ASSUME NEW t \in Threads, NEW j \in Jobs, GoTo(t, j)
        PROVE  job' \in [Threads -> Jobs]
    BY <2>6 DEF GoTo
  <2>7. ASSUME NEW t \in Threads, Call(t)
        PROVE  TypeOK'
    <3>0. job[t] \in Jobs /\ Idle \in Jobs
      BY DEF Jobs
    <3>1. CASE StartLight(t)
      <4>1. [pc |-> "deny"] \in Jobs
        BY DEF Jobs
      <4> QED BY <2>6, <3>1, <4>1 DEF StartLight
    <3>2. CASE LoadDeny(t)
      <4>1. [pc |-> "relax", deny |-> denyFile] \in Jobs
        BY DEF Jobs
      <4> QED BY <2>6, <3>2, <4>1 DEF LoadDeny
    <3>3. CASE LoadRelax(t)
      <4>1. [pc |-> "read", deny |-> job[t].deny, relax |-> relaxFile] \in Jobs
        BY <3>0, <3>3, JobForms DEF Jobs, LoadRelax
      <4> QED BY <2>6, <3>0, <3>3, <4>1 DEF LoadRelax
    <3>4. CASE ReadRule(t)
      <4>1. [pc |-> "merge", deny |-> job[t].deny, relax |-> job[t].relax, read |-> rule]
              \in Jobs
        BY <3>0, <3>4, JobForms DEF Jobs, ReadRule
      <4> QED BY <2>6, <3>4, <4>1 DEF ReadRule
    <3>5. CASE ApplyLayers(t)
      BY <2>6, <3>0, <3>5, AppliedType, MergeType DEF ApplyLayers
    <3>6. ASSUME NEW path \in Paths, StartFull(t, path)
          PROVE  TypeOK'
      <4>1. [pc |-> "link", path |-> path, at |-> 1, effective |-> path[1]] \in Jobs
        BY LayerFacts DEF Jobs
      <4> QED BY <2>6, <3>6, <4>1 DEF StartFull
    <3>7. CASE MergeLink(t)
      <4> DEFINE n == job[t].path[job[t].at + 1]
                 j == [pc |-> "link", path |-> job[t].path, at |-> job[t].at + 1,
                       effective |-> MergeStrict(job[t].effective, n)]
      <4>1. /\ job[t].path \in Paths /\ job[t].at + 1 \in Nat \ {0}
            /\ job[t].effective \in Contracts /\ n \in Contracts
        BY <3>7, LinkFacts DEF MergeLink
      <4>2. j \in Jobs
        BY <4>1, StrictType DEF Jobs
      <4> HIDE DEF j
      <4>3. GoTo(t, j) /\ UNCHANGED <<baseline, rule, denyFile, relaxFile>>
        BY <3>7 DEF MergeLink, j
      <4> QED BY <2>6, <4>2, <4>3
    <3>8. CASE EndFull(t)
      BY <2>6, <3>0, <3>8 DEF EndFull
    <3> QED BY <2>7, <3>1, <3>2, <3>3, <3>4, <3>5, <3>6, <3>7, <3>8 DEF Call
  <2> QED BY <2>1, <2>2, <2>3, <2>4, <2>5, <2>7 DEF Next
<1> QED BY <1>1, <1>2, PTL DEF Spec

\* The strengthening: the rule, and every copy of it that a thread is about to
\* merge, is no looser than the baseline in any dimension, not only in the calls
\* it permits.
RuleInv ==
  /\ NoLooser(rule, baseline)
  /\ \A t \in Threads : job[t].pc = "merge" => NoLooser(job[t].read, baseline)

LEMMA RuleInvHolds == Spec => []RuleInv
<1>1. Init => RuleInv
  <2> SUFFICES ASSUME Init PROVE RuleInv
    OBVIOUS
  <2>1. baseline \in Contracts
    BY LayerFacts DEF Init
  <2> QED BY <2>1, NoLooserReflexive DEF Init, RuleInv, Idle
<1>2. TypeOK /\ RuleInv /\ [Next]_vars => RuleInv'
  <2> SUFFICES ASSUME TypeOK, RuleInv, [Next]_vars PROVE RuleInv'
    OBVIOUS
  <2>0. job \in [Threads -> Jobs] /\ rule \in Contracts /\ baseline \in Contracts
    BY DEF TypeOK
  <2>1. CASE UNCHANGED vars
    BY <2>1 DEF vars, RuleInv
  <2>2. CASE TruncateDeny \/ TruncateRelax
    BY <2>2 DEF TruncateDeny, TruncateRelax, RuleInv
  <2>3. ASSUME NEW c \in Offers, WriteDeny(c)
        PROVE  RuleInv'
    BY <2>3 DEF WriteDeny, RuleInv
  <2>4. ASSUME NEW c \in Relaxations, WriteRelax(c)
        PROVE  RuleInv'
    BY <2>4 DEF WriteRelax, RuleInv
  <2>5. ASSUME NEW c \in Baselines, Reload(c)
        PROVE  RuleInv'
    <3>1. NoLooser(c, c)
      BY NoLooserReflexive, LayerFacts
    <3>2. \A t \in Threads : job'[t].pc # "merge"
      BY <2>5 DEF Reload, Idle
    <3> QED BY <2>5, <3>1, <3>2 DEF Reload, RuleInv
  <2>6. ASSUME NEW t \in Threads, NEW j, GoTo(t, j), j.pc # "merge",
               UNCHANGED <<rule, baseline>>
        PROVE  RuleInv'
    BY <2>0, <2>6 DEF GoTo, RuleInv
  <2>7. ASSUME NEW t \in Threads, Call(t)
        PROVE  RuleInv'
    <3>1. CASE StartLight(t)
      BY <2>6, <3>1 DEF StartLight
    <3>2. CASE LoadDeny(t)
      BY <2>6, <3>2 DEF LoadDeny
    <3>3. CASE LoadRelax(t)
      <4> DEFINE j == IF job[t].deny \cup relaxFile = {} THEN Idle
                      ELSE [pc |-> "read", deny |-> job[t].deny, relax |-> relaxFile]
      <4>1. j.pc # "merge"
        BY DEF Idle
      <4>2. GoTo(t, j) /\ UNCHANGED <<rule, baseline>>
        BY <3>3 DEF LoadRelax
      <4> HIDE DEF j
      <4> QED BY <2>6, <4>1, <4>2
    <3>4. CASE ReadRule(t)
      BY <2>0, <3>4 DEF ReadRule, GoTo, RuleInv
    <3>5. CASE ApplyLayers(t)
      <4> DEFINE d == OfLayer(job[t].deny)
                 r == OfLayer(job[t].relax)
      <4>1. job[t].read \in Contracts /\ d \in Contracts /\ r \in Contracts
        BY <3>5, AppliedType DEF ApplyLayers
      <4>2. NoLooser(job[t].read, baseline)
        BY <3>5 DEF ApplyLayers, RuleInv
      <4>3. rule' = MergeContracts(job[t].read, d, r)
        BY <3>5 DEF ApplyLayers
      <4> HIDE DEF d, r
      <4>4. NoLooser(rule', baseline)
        <5> DEFINE c == MergeContracts(job[t].read, d, r)
        <5>1. c \in Contracts /\ NoLooser(c, job[t].read)
          BY <4>1, MergeNoLooser, MergeType
        <5> HIDE DEF c
        <5>2. NoLooser(c, baseline)
          BY <2>0, <4>1, <4>2, <5>1, NoLooserTransitive
        <5> QED BY <4>3, <5>2 DEF c
      <4>5. \A u \in Threads : job'[u].pc = "merge" => job'[u] = job[u]
        BY <2>0, <3>5 DEF ApplyLayers, GoTo, Idle
      <4>6. baseline' = baseline
        BY <3>5 DEF ApplyLayers
      <4> QED BY <4>4, <4>5, <4>6 DEF RuleInv
    <3>6. ASSUME NEW path \in Paths, StartFull(t, path)
          PROVE  RuleInv'
      BY <2>6, <3>6 DEF StartFull
    <3>7. CASE MergeLink(t)
      <4> DEFINE n == job[t].path[job[t].at + 1]
                 j == [pc |-> "link", path |-> job[t].path, at |-> job[t].at + 1,
                       effective |-> MergeStrict(job[t].effective, n)]
      <4>2. j.pc # "merge"
        OBVIOUS
      <4>3. GoTo(t, j) /\ UNCHANGED <<rule, baseline>>
        BY <3>7 DEF MergeLink
      <4> HIDE DEF j
      <4> QED BY <2>6, <4>2, <4>3
    <3>8. CASE EndFull(t)
      BY <2>6, <3>8 DEF EndFull, Idle
    <3> QED BY <2>7, <3>1, <3>2, <3>3, <3>4, <3>5, <3>6, <3>7, <3>8 DEF Call
  <2> QED BY <2>1, <2>2, <2>3, <2>4, <2>5, <2>7 DEF Next
<1> QED BY <1>1, <1>2, TypeCorrect, PTL DEF Spec

\* For any contracts, files and number of threads: the policy in memory never
\* permits a call that the AGENTS.md it was loaded from denies.
THEOREM RuntimeNeverLooser == Spec => []NeverLooserThanSession
<1>1. TypeOK /\ RuleInv => NeverLooserThanSession
  <2> SUFFICES ASSUME TypeOK, RuleInv, OneKind(baseline), ~baseline.blocks,
                      NEW call \in Calls, Permits(rule, call)
               PROVE  Permits(baseline, call)
    BY DEF NeverLooserThanSession
  <2>1. call \in CallShapes
    BY HookAssumption
  <2> QED BY <2>1, NoLooserPermits DEF TypeOK, RuleInv
<1> QED BY <1>1, TypeCorrect, RuleInvHolds, PTL

\* An effective contract under way is at least as strict as the root in what the
\* strict merge keeps, and still has every scope of the last contract merged.
LinkInv ==
  \A t \in Threads : job[t].pc = "link" =>
    LET j == job[t]
    IN /\ IsValidPath(j.path)
       /\ Compared(j.effective, j.path[1])
       /\ Tracks(j.effective, j.path[j.at], j.path[1])

LEMMA LinkInvHolds == Spec => []LinkInv
<1>1. Init => LinkInv
  BY DEF Init, LinkInv, Idle
<1>2. TypeOK /\ LinkInv /\ [Next]_vars => LinkInv'
  <2> SUFFICES ASSUME TypeOK, LinkInv, [Next]_vars PROVE LinkInv'
    OBVIOUS
  <2>0. job \in [Threads -> Jobs]
    BY DEF TypeOK
  <2>1. CASE UNCHANGED job
    BY <2>1 DEF LinkInv
  <2>2. ASSUME NEW c \in Baselines, Reload(c)
        PROVE  LinkInv'
    <3>1. \A t \in Threads : job'[t].pc = "link" => job'[t] = job[t]
      BY <2>2 DEF Reload, Idle
    <3> QED BY <3>1 DEF LinkInv
  <2>3. ASSUME NEW t \in Threads, NEW j, GoTo(t, j), j.pc # "link"
        PROVE  LinkInv'
    <3>1. \A u \in Threads : job'[u].pc = "link" => job'[u] = job[u]
      BY <2>0, <2>3 DEF GoTo
    <3> QED BY <3>1 DEF LinkInv
  <2>5. ASSUME NEW t \in Threads, NEW path \in Paths, StartFull(t, path)
        PROVE  LinkInv'
    <3> DEFINE j == [pc |-> "link", path |-> path, at |-> 1, effective |-> path[1]]
    <3>1. path[1] \in Contracts
      BY LayerFacts
    <3>2. Compared(path[1], path[1])
      BY <3>1, NoLooserReflexive DEF NoLooser
    <3>3. Tracks(path[1], path[1], path[1])
      BY DEF Tracks
    <3>4. IsValidPath(path)
      BY <2>5 DEF StartFull
    <3>5. job' = [job EXCEPT ![t] = j]
      BY <2>5 DEF StartFull, GoTo
    <3>6. \A u \in Threads : job'[u] = IF u = t THEN j ELSE job[u]
      BY <2>0, <3>5
    <3> QED BY <3>2, <3>3, <3>4, <3>6 DEF LinkInv
  <2>6. ASSUME NEW t \in Threads, MergeLink(t)
        PROVE  LinkInv'
    <3> DEFINE path == job[t].path
               k == job[t].at
               e == job[t].effective
               n == path[k + 1]
               j == [pc |-> "link", path |-> path, at |-> k + 1,
                     effective |-> MergeStrict(e, n)]
    <3>1. /\ path[1] \in Contracts /\ path[k] \in Contracts /\ n \in Contracts
          /\ e \in Contracts /\ k \in DOMAIN path /\ k + 1 \in DOMAIN path
      BY <2>6, LinkFacts DEF MergeLink
    <3>2. /\ IsValidPath(path) /\ Compared(e, path[1]) /\ Tracks(e, path[k], path[1])
      BY <2>6 DEF MergeLink, LinkInv
    <3>3. IsSubsetOf(n, path[k])
      BY <3>1, <3>2 DEF IsValidPath
    <3>4. /\ Compared(MergeStrict(e, n), path[1])
          /\ Tracks(MergeStrict(e, n), n, path[1])
      BY <3>1, <3>2, <3>3, LinkKeepsRoot
    <3>5. job' = [job EXCEPT ![t] = j]
      BY <2>6 DEF MergeLink, GoTo
    <3>6. \A u \in Threads : job'[u] = IF u = t THEN j ELSE job[u]
      BY <2>0, <3>5
    <3>7. /\ j.path = path /\ j.effective = MergeStrict(e, n) /\ j.path[j.at] = n
      OBVIOUS
    <3> HIDE DEF j, n, e, k, path
    <3> QED BY <3>2, <3>4, <3>6, <3>7 DEF LinkInv
  <2>7. ASSUME NEW t \in Threads, Call(t)
        PROVE  LinkInv'
    <3>1. CASE StartLight(t)
      BY <2>3, <3>1 DEF StartLight
    <3>2. CASE LoadDeny(t)
      BY <2>3, <3>2 DEF LoadDeny
    <3>3. CASE LoadRelax(t)
      <4> DEFINE j == IF job[t].deny \cup relaxFile = {} THEN Idle
                      ELSE [pc |-> "read", deny |-> job[t].deny, relax |-> relaxFile]
      <4>1. j.pc # "link"
        BY DEF Idle
      <4>2. GoTo(t, j)
        BY <3>3 DEF LoadRelax
      <4> HIDE DEF j
      <4> QED BY <2>3, <4>1, <4>2
    <3>4. CASE ReadRule(t)
      BY <2>3, <3>4 DEF ReadRule
    <3>5. CASE ApplyLayers(t) \/ EndFull(t)
      BY <2>3, <3>5 DEF ApplyLayers, EndFull, Idle
    <3> QED BY <2>5, <2>6, <2>7, <3>1, <3>2, <3>3, <3>4, <3>5 DEF Call
  <2>8. CASE TruncateDeny \/ TruncateRelax \/ (\E c \in Offers : WriteDeny(c))
             \/ (\E c \in Relaxations : WriteRelax(c)) \/ UNCHANGED vars
    BY <2>1, <2>8 DEF TruncateDeny, TruncateRelax, WriteDeny, WriteRelax, vars
  <2> QED BY <2>2, <2>7, <2>8 DEF Next
<1> QED BY <1>1, <1>2, TypeCorrect, PTL DEF Spec

\* For validated trees of any depth: no effective contract permits what the root's
\* denies.
THEOREM EffectiveStaysWithinRoot == Spec => []EffectiveWithinRoot
<1>1. TypeOK /\ LinkInv => EffectiveWithinRoot
  <2> SUFFICES ASSUME TypeOK, LinkInv, NEW t \in Threads, job[t].pc = "link",
                      OneKind(job[t].path[1]), ~job[t].path[1].blocks,
                      NEW call \in Calls, call.hits \subseteq Rules, call.elapsed = {},
                      Permits(job[t].effective, call)
               PROVE  Permits(job[t].path[1], call)
    BY DEF EffectiveWithinRoot
  <2>1. call \in CallShapes
    BY HookAssumption
  <2>2. job[t].effective \in Contracts /\ job[t].path[1] \in Contracts
    BY JobForms, LayerFacts DEF TypeOK
  <2>3. Compared(job[t].effective, job[t].path[1])
    BY DEF LinkInv
  <2>4. job[t].path[1].extras \cap call.hits = {}
    BY <2>2, PlaceAssumption DEF Contracts
  <2> QED BY <2>1, <2>2, <2>3, <2>4, ComparedPermits
<1> QED BY <1>1, TypeCorrect, LinkInvHolds, PTL

\* For any number of threads: only a reload, or a thread whose copy another one
\* has replaced, lets the policy permit more.
THEOREM RuntimeOnlyTightens == Spec => LoosensOnlyWhenStale
<1> DEFINE Step ==
      (\E call \in Calls : Permits(rule', call) /\ ~Permits(rule, call)) =>
        \/ \E c \in Baselines : Reload(c)
        \/ \E t \in Threads : ApplyLayers(t) /\ job[t].read # rule
        \/ ~OneKind(rule) \/ rule.blocks
<1>1. TypeOK /\ [Next]_vars => [Step]_vars
  <2> SUFFICES ASSUME TypeOK, [Next]_vars,
                      NEW call \in Calls, Permits(rule', call), ~Permits(rule, call),
                      OneKind(rule), ~rule.blocks,
                      ~\E c \in Baselines : Reload(c)
               PROVE  \E t \in Threads : ApplyLayers(t) /\ job[t].read # rule
    OBVIOUS
  <2>1. rule' # rule
    OBVIOUS
  <2>2. PICK t \in Threads : Call(t)
    BY <2>1 DEF Next, vars, TruncateDeny, TruncateRelax, WriteDeny, WriteRelax
  <2>3. ApplyLayers(t)
    BY <2>1, <2>2 DEF Call, StartLight, LoadDeny, LoadRelax, ReadRule, StartFull,
                      MergeLink, EndFull
  <2>4. ASSUME job[t].read = rule
        PROVE  FALSE
    <3> DEFINE d == OfLayer(job[t].deny)
               r == OfLayer(job[t].relax)
    <3>1. rule \in Contracts /\ d \in Contracts /\ r \in Contracts
      BY <2>3, AppliedType DEF ApplyLayers, TypeOK
    <3>2. rule' = MergeContracts(rule, d, r)
      BY <2>3, <2>4 DEF ApplyLayers
    <3> HIDE DEF d, r
    <3>3. NoLooser(rule', rule) /\ rule' \in Contracts
      BY <3>1, <3>2, MergeNoLooser, MergeType
    <3>4. call \in CallShapes
      BY HookAssumption
    <3> QED BY <3>1, <3>3, <3>4, NoLooserPermits
  <2> QED BY <2>3, <2>4
<1> QED BY <1>1, TypeCorrect, PTL DEF Spec, LoosensOnlyWhenStale

-------------------------------------------------------------------------------
(* The hook daemon's watcher and queues: types.                                 *)

Files == [mtime : 1..(MaxEdits + 1), compiles : BOOLEAN]

WatcherStates ==
  [pc : {"load"}] \cup [pc : {"loaded", "start"}, text : Files]
  \cup [pc : {"poll"}, seen : 1..(MaxEdits + 1)]
  \cup [pc : {"reload", "record"}, looking : 1..(MaxEdits + 1)]
  \cup [pc : {"reread"}, looking : 1..(MaxEdits + 1), text : Files]

\* Lists in which each obligation occurs at most once.
Queues ==
  {list \in Seq(Actions) :
     \A i, j \in DOMAIN list : list[i] = list[j] /\ list[i] \in Obligations => i = j}

PullerStates ==
  [pc : {"rest"}, got : {{}} \cup {{a} : a \in Actions}]
  \cup [pc : {"build", "fetch"}]
  \cup [pc : {"replace"}, agenda : Queues]
  \cup [pc : {"pop"}, list : Lists]

\* The type of the daemon's state.  No list names an obligation twice, so that a
\* recompute offers it once, whoever else recomputes meanwhile
\* (recompute_action_queue).
DaemonTypeOK ==
  /\ file \in Files
  /\ policy \in 0..(MaxEdits + 1)
  /\ watcher \in WatcherStates
  /\ missed \in BOOLEAN /\ quiet \in BOOLEAN
  /\ calls \in 0..MaxCalls
  /\ obligation \in [Obligations -> {"absent", "pending", "closed"}]
  /\ lists \in [Lists -> Queues]
  /\ queue \in Lists
  /\ puller \in [Pullers -> PullerStates]

-------------------------------------------------------------------------------
(* Queues *)

\* What recompute_action_queue builds names an obligation at most once.
LEMMA AgendaIsQueue ==
  ASSUME NEW state, NEW agenda \in Agendas(state)
  PROVE  agenda \in Queues
<1> DEFINE S == {o \in Obligations : state[o] = "pending"}
<1>1. Cardinality(S) \in Nat
  BY DaemonAssumption, FS_Subset, FS_CardinalityType
<1>2. PICK rows \in Rows(S) : agenda = Today \o rows \o Week
  BY DEF Agendas
<1> DEFINE n == Cardinality(S)
           T == Len(Today)
           W == Len(Week)
<1>3. /\ rows \in Seq(S) /\ Len(rows) = n
      /\ \A i, j \in 1..n : rows[i] = rows[j] => i = j
      /\ \A i \in 1..n : rows[i] \in Obligations
  BY <1>1, <1>2 DEF Rows
<1>4. /\ Today \in Seq(Actions) /\ T \in Nat
      /\ \A i \in 1..T : Today[i] \notin Obligations
  BY DaemonAssumption DEF In
<1>5. /\ Week \in Seq(Actions) /\ W \in Nat
      /\ \A i \in 1..W : Week[i] \notin Obligations
  BY DaemonAssumption DEF In
<1>6. rows \in Seq(Actions)
  BY <1>3 DEF Actions
<1>7. /\ agenda \in Seq(Actions) /\ Len(agenda) = T + n + W
      /\ DOMAIN agenda = 1..(T + n + W)
      /\ \A i \in 1..(T + n + W) :
           agenda[i] = IF i <= T THEN Today[i]
                       ELSE IF i <= T + n THEN rows[i - T] ELSE Week[i - T - n]
  <2> HIDE DEF S, n, T, W
  <2>1. /\ Today \o rows \in Seq(Actions) /\ Len(Today \o rows) = T + n
        /\ \A i \in 1..(T + n) :
             (Today \o rows)[i] = IF i <= T THEN Today[i] ELSE rows[i - T]
    BY <1>1, <1>3, <1>4, <1>6 DEF T, n
  <2>2. PICK first \in Seq(Actions) : first = Today \o rows
    BY <2>1
  <2>3. /\ first \o Week \in Seq(Actions) /\ Len(first \o Week) = T + n + W
        /\ DOMAIN (first \o Week) = 1..(T + n + W)
        /\ \A i \in 1..(T + n + W) :
             (first \o Week)[i] = IF i <= T + n THEN first[i] ELSE Week[i - T - n]
    <3>1. Len(first) = T + n /\ Len(first) \in Nat
      BY <2>1, <2>2
    <3>2. /\ first \o Week \in Seq(Actions) /\ Len(first \o Week) = Len(first) + Len(Week)
          /\ DOMAIN (first \o Week) = 1..(Len(first) + Len(Week))
          /\ \A i \in 1..(Len(first) + Len(Week)) :
               (first \o Week)[i] = IF i <= Len(first) THEN first[i]
                                    ELSE Week[i - Len(first)]
      BY <2>2, <1>5
    <3>3. \A i \in 1..(T + n + W) : i - (T + n) = i - T - n
      BY <1>1, <1>4, <1>5 DEF n
    <3> QED BY <3>1, <3>2, <3>3 DEF W
  <2>4. \A i \in 1..(T + n + W) : i <= T => i <= T + n /\ i \in 1..(T + n)
    BY <1>1, <1>4, <1>5 DEF n
  <2>5. \A i \in 1..(T + n + W) : i <= T + n => i \in 1..(T + n)
    BY <1>1, <1>4, <1>5 DEF n
  <2> QED BY <2>1, <2>2, <2>3, <2>4, <2>5, <1>2
<1>8. ASSUME NEW i \in DOMAIN agenda, agenda[i] \in Obligations
      PROVE  i > T /\ i <= T + n /\ i - T \in 1..n /\ agenda[i] = rows[i - T]
  <2>1. i \in 1..(T + n + W)
    BY <1>7
  <2>2. CASE i <= T
    BY <2>1, <2>2, <1>4, <1>7, <1>8
  <2>3. CASE ~(i <= T) /\ i <= T + n
    BY <2>1, <2>3, <1>1, <1>4, <1>7
  <2>4. CASE ~(i <= T) /\ ~(i <= T + n)
    <3>1. i - T - n \in 1..W /\ agenda[i] = Week[i - T - n]
      BY <2>1, <2>4, <1>1, <1>4, <1>5, <1>7
    <3> QED BY <3>1, <1>5, <1>8
  <2> QED BY <2>2, <2>3, <2>4
<1>9. ASSUME NEW i \in DOMAIN agenda, NEW j \in DOMAIN agenda,
             agenda[i] = agenda[j], agenda[i] \in Obligations
      PROVE  i = j
  <2>1. i - T \in 1..n /\ j - T \in 1..n /\ rows[i - T] = rows[j - T]
    BY <1>8, <1>9
  <2>2. i - T = j - T
    BY <2>1, <1>3
  <2>3. i \in Int /\ j \in Int
    BY <1>7
  <2> QED BY <2>2, <2>3, <1>4
<1> QED BY <1>7, <1>9 DEF Queues

LEMMA TailIsQueue ==
  ASSUME NEW list \in Queues, list # <<>>
  PROVE  Head(list) \in Actions /\ Tail(list) \in Queues
<1>1. list \in Seq(Actions)
  BY DEF Queues
<1>2. /\ Head(list) \in Actions
      /\ Tail(list) \in Seq(Actions)
      /\ DOMAIN Tail(list) = 1..(Len(list) - 1)
      /\ \A i \in 1..(Len(list) - 1) : Tail(list)[i] = list[i + 1]
  BY <1>1
<1>3. ASSUME NEW i \in DOMAIN Tail(list), NEW j \in DOMAIN Tail(list),
             Tail(list)[i] = Tail(list)[j], Tail(list)[i] \in Obligations
      PROVE  i = j
  <2>1. /\ i + 1 \in DOMAIN list /\ j + 1 \in DOMAIN list /\ i \in Int /\ j \in Int
        /\ list[i + 1] = list[j + 1] /\ list[i + 1] \in Obligations
    BY <1>1, <1>2, <1>3
  <2>2. i + 1 = j + 1
    BY <2>1 DEF Queues
  <2> QED BY <2>1, <2>2
<1> QED BY <1>2, <1>3 DEF Queues

LEMMA EmptyIsQueue == <<>> \in Queues
BY DEF Queues

-------------------------------------------------------------------------------
(* Types *)

LEMMA RestingType ==
  ASSUME NEW a \in Actions
  PROVE  Resting({}) \in PullerStates /\ Resting({a}) \in PullerStates
BY DEF Resting, PullerStates

LEMMA RestingTypeEmpty == Resting({}) \in PullerStates
BY DEF Resting, PullerStates

LEMMA DaemonInitType == DaemonInit => DaemonTypeOK
<1> SUFFICES ASSUME DaemonInit
             PROVE  DaemonTypeOK
  OBVIOUS
<1>1. file \in Files /\ policy \in 0..(MaxEdits + 1) /\ calls \in 0..MaxCalls
  BY DaemonAssumption DEF DaemonInit, Files
<1>2. watcher \in WatcherStates
  BY DEF DaemonInit, WatcherStates
<1>3. lists \in [Lists -> Queues] /\ queue \in Lists
  BY EmptyIsQueue DEF DaemonInit, Lists
<1>4. puller \in [Pullers -> PullerStates]
  BY RestingTypeEmpty DEF DaemonInit
<1>5. obligation \in [Obligations -> {"absent", "pending", "closed"}]
  BY DEF DaemonInit
<1> QED BY <1>1, <1>2, <1>3, <1>4, <1>5 DEF DaemonInit, DaemonTypeOK

LEMMA GoesType ==
  ASSUME DaemonTypeOK, NEW p \in Pullers, NEW to \in PullerStates, Goes(p, to)
  PROVE  puller' \in [Pullers -> PullerStates]
BY DEF DaemonTypeOK, Goes

LEMMA BeginType ==
  ASSUME DaemonTypeOK, NEW p \in Pullers, BeginPull(p)
  PROVE  puller' \in [Pullers -> PullerStates]
<1>1. [pc |-> "build"] \in PullerStates /\ [pc |-> "fetch"] \in PullerStates
  BY DEF PullerStates
<1> QED BY <1>1, GoesType DEF BeginPull

LEMMA WatchType ==
  ASSUME DaemonTypeOK, Watch
  PROVE  DaemonTypeOK'
<1>1. MaxEdits \in Nat
  BY DaemonAssumption
<1>2. UNCHANGED <<file, calls, quiet, queueVars>>
  BY DEF Watch, FirstRead, FirstPublish, FirstLook, Poll, Reread, Republish, Record, Publish
<1>3. /\ policy' \in 0..(MaxEdits + 1)
      /\ watcher' \in WatcherStates
      /\ missed' \in BOOLEAN
  <2>1. CASE FirstRead
    BY <2>1 DEF FirstRead, DaemonTypeOK, WatcherStates
  <2>2. CASE FirstPublish
    <3>1. watcher.text \in Files
      BY <2>2 DEF FirstPublish, DaemonTypeOK, WatcherStates
    <3> QED BY <2>2, <3>1, <1>1 DEF FirstPublish, Publish, DaemonTypeOK, WatcherStates, Files
  <2>3. CASE FirstLook
    BY <2>3, <1>1 DEF FirstLook, DaemonTypeOK, WatcherStates, Files
  <2>4. CASE Poll
    BY <2>4, <1>1 DEF Poll, DaemonTypeOK, WatcherStates, Files
  <2>5. CASE Reread
    <3>1. watcher.looking \in 1..(MaxEdits + 1)
      BY <2>5 DEF Reread, DaemonTypeOK, WatcherStates
    <3> QED BY <2>5, <3>1 DEF Reread, DaemonTypeOK, WatcherStates
  <2>6. CASE Republish
    <3>1. watcher.looking \in 1..(MaxEdits + 1) /\ watcher.text \in Files
      BY <2>6 DEF Republish, DaemonTypeOK, WatcherStates
    <3> QED BY <2>6, <3>1, <1>1 DEF Republish, Publish, DaemonTypeOK, WatcherStates, Files
  <2>7. CASE Record
    <3>1. watcher.looking \in 1..(MaxEdits + 1)
      BY <2>7 DEF Record, DaemonTypeOK, WatcherStates
    <3> QED BY <2>7, <3>1 DEF Record, DaemonTypeOK, WatcherStates
  <2> QED BY <2>1, <2>2, <2>3, <2>4, <2>5, <2>6, <2>7 DEF Watch
<1> QED BY <1>2, <1>3
        DEF DaemonTypeOK, queueVars, PullerStates, WatcherStates, Files, Queues, Lists

LEMMA PullType ==
  ASSUME DaemonTypeOK, NEW p \in Pullers, Pull(p)
  PROVE  /\ puller' \in [Pullers -> PullerStates]
         /\ lists' \in [Lists -> Queues]
         /\ queue' \in Lists
         /\ quiet' \in BOOLEAN
         /\ UNCHANGED <<policyVars, calls, obligation>>
<1>1. CASE Build(p)
  <2>1. PICK agenda \in Agendas(obligation) : Goes(p, [pc |-> "replace", agenda |-> agenda])
    BY <1>1 DEF Build
  <2>2. [pc |-> "replace", agenda |-> agenda] \in PullerStates
    BY AgendaIsQueue DEF PullerStates
  <2> QED BY <1>1, <2>1, <2>2, GoesType DEF Build, DaemonTypeOK
<1>2. CASE Replace(p)
  <2>1. [pc |-> "fetch"] \in PullerStates
    BY DEF PullerStates
  <2>2. puller[p].agenda \in Queues
    BY <1>2 DEF Replace, DaemonTypeOK, PullerStates
  <2>3. PICK l \in Lists : lists' = Filled(l, puller[p].agenda) /\ queue' = l
    BY <1>2 DEF Replace
  <2>4. lists' \in [Lists -> Queues]
    BY <2>2, <2>3, EmptyIsQueue DEF Filled, DaemonTypeOK
  <2> QED BY <1>2, <2>1, <2>3, <2>4, GoesType DEF Replace, DaemonTypeOK
<1>3. CASE Fetch(p)
  <2>1. [pc |-> "pop", list |-> queue] \in PullerStates
    BY DEF PullerStates, DaemonTypeOK
  <2>2. puller' \in [Pullers -> PullerStates] /\ quiet' \in BOOLEAN
    BY <1>3, <2>1, RestingTypeEmpty, GoesType DEF Fetch, EndPull, DaemonTypeOK
  <2> QED BY <1>3, <2>2 DEF Fetch, DaemonTypeOK
<1>4. CASE Pop(p)
  <2> DEFINE list == lists[puller[p].list]
  <2>1. puller[p].list \in Lists
    BY <1>4 DEF Pop, DaemonTypeOK, PullerStates
  <2>2. list \in Queues
    BY <2>1 DEF DaemonTypeOK
  <2>3. CASE list = <<>>
    <3>1. EndPull(p, {}) /\ UNCHANGED lists
      BY <1>4, <2>3 DEF Pop
    <3>2. puller' \in [Pullers -> PullerStates] /\ quiet' \in BOOLEAN
      BY <3>1, RestingTypeEmpty, GoesType DEF EndPull, DaemonTypeOK
    <3> QED BY <1>4, <3>1, <3>2 DEF Pop, DaemonTypeOK
  <2>4. CASE list # <<>>
    <3>1. /\ EndPull(p, {Head(list)})
          /\ lists' = [lists EXCEPT ![puller[p].list] = Tail(list)]
      BY <1>4, <2>4 DEF Pop
    <3>2. Head(list) \in Actions /\ Tail(list) \in Queues
      BY <2>2, <2>4, TailIsQueue
    <3>3. puller' \in [Pullers -> PullerStates] /\ quiet' \in BOOLEAN
      BY <3>1, <3>2, RestingType, GoesType DEF EndPull, DaemonTypeOK
    <3>4. lists' \in [Lists -> Queues]
      BY <3>1, <3>2 DEF DaemonTypeOK
    <3> QED BY <1>4, <3>3, <3>4 DEF Pop, DaemonTypeOK
  <2> QED BY <2>3, <2>4
<1> QED BY <1>1, <1>2, <1>3, <1>4 DEF Pull

LEMMA DaemonNextType == DaemonTypeOK /\ [DaemonNext]_daemonVars => DaemonTypeOK'
<1> SUFFICES ASSUME DaemonTypeOK, [DaemonNext]_daemonVars
             PROVE  DaemonTypeOK'
  OBVIOUS
<1>1. CASE Edit
  <2>1. file' \in Files
    <3>1. MaxEdits \in Nat /\ file \in Files
      BY DaemonAssumption DEF DaemonTypeOK
    <3> QED BY <1>1, <3>1 DEF Edit, Files
  <2>2. UNCHANGED <<policy, watcher, missed, calls, quiet, queueVars>>
    BY <1>1 DEF Edit
  <2> QED BY <2>1, <2>2
          DEF DaemonTypeOK, queueVars, PullerStates, WatcherStates, Files, Queues, Lists
<1>2. CASE Watch
  BY <1>2, WatchType
<1>3. CASE \E o \in Obligations : Arise(o) \/ Close(o)
  BY <1>3 DEF Arise, Close, DaemonTypeOK, policyVars, PullerStates, WatcherStates, Files, Queues, Lists
<1>4. CASE FallQuiet
  BY <1>4 DEF FallQuiet, DaemonTypeOK, policyVars, queueVars, PullerStates, WatcherStates, Files,
              Queues, Lists
<1>5. CASE IdlePull
  <2>1. puller' \in [Pullers -> PullerStates]
    BY <1>5, BeginType DEF IdlePull, Pullers
  <2> QED BY <1>5, <2>1 DEF IdlePull, DaemonTypeOK, policyVars, WatcherStates, Files, Queues, Lists,
                            PullerStates
<1>6. CASE \E p \in Callers : Handle(p)
  <2>1. PICK p \in Callers : Handle(p)
    BY <1>6
  <2>2. puller' \in [Pullers -> PullerStates]
    BY <2>1, BeginType DEF Handle, Pullers, DaemonTypeOK
  <2>3. calls' \in 0..MaxCalls
    BY <2>1, DaemonAssumption DEF Handle, DaemonTypeOK
  <2> QED BY <2>1, <2>2, <2>3 DEF Handle, DaemonTypeOK, policyVars, WatcherStates, Files, Queues,
                                  Lists, PullerStates
<1>7. CASE \E p \in Pullers : Pull(p)
  BY <1>7, PullType DEF DaemonTypeOK, policyVars, WatcherStates, Files, Queues, Lists, PullerStates
<1>8. CASE UNCHANGED daemonVars
  BY <1>8 DEF daemonVars, DaemonTypeOK, policyVars, queueVars, WatcherStates, Files, Queues, Lists,
              PullerStates
<1> QED BY <1>1, <1>2, <1>3, <1>4, <1>5, <1>6, <1>7, <1>8 DEF DaemonNext

\* The state keeps its type, and no queue names an obligation twice, whatever
\* threads recompute and pull at the same time (pull_next_action).
THEOREM DaemonTypeCorrect == DaemonSpec => []DaemonTypeOK
<1> QED BY DaemonInitType, DaemonNextType, PTL DEF DaemonSpec

-------------------------------------------------------------------------------
(* The watcher *)

\* What the watcher knows of the file at each of its steps: a text that it read
\* is not newer than the file, and one read as late as the file's last change is
\* the file's.
Watching ==
  /\ watcher.pc \in {"loaded", "start", "reread"} => watcher.text.mtime <= file.mtime
  /\ watcher.pc \in {"reload", "reread", "record"} => watcher.looking <= file.mtime
  /\ watcher.pc = "poll" => watcher.seen <= file.mtime
  /\ (watcher.pc = "start" /\ watcher.text = file /\ file.compiles) => policy = file.mtime
  /\ (watcher.pc = "reread" /\ watcher.looking = file.mtime) => watcher.text = file
  /\ (watcher.pc = "record" /\ watcher.looking = file.mtime /\ file.compiles)
       => policy = file.mtime

WatcherInv == DaemonTypeOK /\ Watching /\ NothingMissed

LEMMA InitWatching == DaemonInit => Watching /\ NothingMissed
BY DEF DaemonInit, Watching, NothingMissed

LEMMA WatcherFields ==
  ASSUME DaemonTypeOK
  PROVE  /\ file.mtime \in Int /\ file \in [mtime : Int, compiles : BOOLEAN]
         /\ watcher.pc \in {"loaded", "start", "reread"} =>
              watcher.text \in Files /\ watcher.text.mtime \in Int
         /\ watcher.pc \in {"reload", "reread", "record"} => watcher.looking \in Int
         /\ watcher.pc = "poll" => watcher.seen \in Int
BY DaemonAssumption DEF DaemonTypeOK, Files, WatcherStates

LEMMA EditWatching ==
  ASSUME DaemonTypeOK, Watching, NothingMissed, Edit
  PROVE  Watching' /\ NothingMissed'
<1>1. /\ file'.mtime = file.mtime + 1 /\ UNCHANGED <<watcher, policy, missed>>
      /\ file.mtime \in Int
  BY WatcherFields DEF Edit
<1>2. watcher.pc \in {"loaded", "start", "reread"} =>
        watcher.text.mtime < file'.mtime /\ watcher.text # file'
  BY <1>1, WatcherFields DEF Watching
<1>3. watcher.pc \in {"reload", "reread", "record"} => watcher.looking < file'.mtime
  BY <1>1, WatcherFields DEF Watching
<1>4. watcher.pc = "poll" => watcher.seen < file'.mtime
  BY <1>1, WatcherFields DEF Watching
<1> QED BY <1>1, <1>2, <1>3, <1>4, WatcherFields DEF Watching, NothingMissed

LEMMA WatchWatching ==
  ASSUME DaemonTypeOK, Watching, NothingMissed, Watch
  PROVE  Watching' /\ NothingMissed'
<1>0. /\ file' = file /\ file.mtime \in Int
  BY WatcherFields
     DEF Watch, FirstRead, FirstPublish, FirstLook, Poll, Reread, Republish, Record, Publish
<1>1. CASE FirstRead
  BY <1>0, <1>1 DEF FirstRead, Watching, NothingMissed
<1>2. CASE FirstPublish
  <2>1. /\ watcher' = [pc |-> "start", text |-> watcher.text] /\ watcher.pc = "loaded"
        /\ watcher.text.compiles => policy' = watcher.text.mtime
        /\ file' = file
    BY <1>2 DEF FirstPublish, Publish
  <2>2. watcher'.pc = "start" /\ watcher'.text = watcher.text
    BY <2>1
  <2>3. watcher.text.mtime <= file.mtime
    BY <2>1 DEF Watching
  <2> QED BY <2>1, <2>2, <2>3 DEF Watching, NothingMissed
<1>3. CASE FirstLook
  <2>1. /\ watcher' = [pc |-> "poll", seen |-> file.mtime] /\ watcher.pc = "start"
        /\ policy' = policy /\ file' = file
    BY <1>3 DEF FirstLook
  <2>2. watcher'.pc = "poll" /\ watcher'.seen = file.mtime
    BY <2>1
  <2>3. ~missed' => watcher.text = file
    BY <1>3 DEF FirstLook
  <2>4. Watching'
    BY <1>0, <2>1, <2>2 DEF Watching
  <2>5. NothingMissed'
    BY <2>1, <2>3 DEF Watching, NothingMissed
  <2> QED BY <2>4, <2>5
<1>4. CASE Poll
  BY <1>0, <1>4 DEF Poll, Watching, NothingMissed
<1>5. CASE Reread
  BY <1>0, <1>5 DEF Reread, Watching, NothingMissed
<1>6. CASE Republish
  <2>1. /\ watcher' = [pc |-> "record", looking |-> watcher.looking] /\ watcher.pc = "reread"
        /\ watcher.text.compiles => policy' = watcher.text.mtime
        /\ file' = file
    BY <1>6 DEF Republish, Publish
  <2>2. watcher'.pc = "record" /\ watcher'.looking = watcher.looking
    BY <2>1
  <2>3. /\ watcher.looking <= file.mtime
        /\ watcher.looking = file.mtime => watcher.text = file
    BY <2>1 DEF Watching
  <2> QED BY <2>1, <2>2, <2>3 DEF Watching, NothingMissed
<1>7. CASE Record
  BY <1>0, <1>7, WatcherFields DEF Record, Watching, NothingMissed
<1> QED BY <1>1, <1>2, <1>3, <1>4, <1>5, <1>6, <1>7 DEF Watch

LEMMA OthersLeaveWatching ==
  ASSUME Watching, NothingMissed, UNCHANGED policyVars
  PROVE  Watching' /\ NothingMissed'
BY DEF policyVars, Watching, NothingMissed

LEMMA WatcherNext == WatcherInv /\ [DaemonNext]_daemonVars => WatcherInv'
<1> SUFFICES ASSUME DaemonTypeOK, Watching, NothingMissed, [DaemonNext]_daemonVars
             PROVE  WatcherInv'
  BY DEF WatcherInv
<1>1. DaemonTypeOK'
  BY DaemonNextType
<1>2. CASE Edit
  BY <1>1, <1>2, EditWatching DEF WatcherInv
<1>3. CASE Watch
  BY <1>1, <1>3, WatchWatching DEF WatcherInv
<1>4. CASE UNCHANGED policyVars
  BY <1>1, <1>4, OthersLeaveWatching DEF WatcherInv
<1>5. Edit \/ Watch \/ UNCHANGED policyVars
  BY DEF DaemonNext, Arise, Close, FallQuiet, IdlePull, Handle, Pull, Build, Replace, Fetch, Pop, daemonVars
<1> QED BY <1>2, <1>3, <1>4, <1>5

\* The watcher misses no write of AGENTS.md (NothingMissed): the reason is that
\* the time it records is the one it saw before it read the text.
THEOREM WatcherMissesNothing == DaemonSpec => []NothingMissed
<1>1. DaemonInit => WatcherInv
  BY DaemonInitType, InitWatching DEF WatcherInv
<1>2. WatcherInv => NothingMissed
  BY DEF WatcherInv
<1> QED BY <1>1, <1>2, WatcherNext, PTL DEF DaemonSpec
=============================================================================
