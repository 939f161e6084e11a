---------------------------- MODULE MCHookContracts ----------------------------
(* Paths /s, /s/a, /s/ab and /o (the text of /s/ab starts with that of /s/a) and *)
(* a module scope; few contracts that make every rule of the merges matter.      *)
EXTENDS HookContracts

CONSTANTS t1, t2

MCPlaces == {"s", "s/a", "s/ab", "o", "m"}
Under == {<<"s/a", "s">>, <<"s/ab", "s">>}
MCWithin == Under \cup {<<p, p>> : p \in MCPlaces}
MCStartsWith == MCWithin \cup {<<"s/ab", "s/a">>}
MCKind == [p \in MCPlaces |-> IF p = "m" THEN "module" ELSE "path"]
MCSubdomain == {<<"d", "d">>, <<"e", "e">>, <<"x.d", "d">>}

Base ==
  [Unrestricted EXCEPT !.rules = {"rm"}, !.paths = {"s"}, !.max = {2}]

MCBaselines ==
  {Base,
   [Unrestricted EXCEPT !.paths = {"s", "m"}, !.domains = {"d"}],
   [Unrestricted EXCEPT !.domains = {"d", "e"}, !.min = {1}, !.deadline = {2},
                        !.extras = {"key"}]}
MCOffers ==
  {[Unrestricted EXCEPT !.rules = {"rm", "git"}, !.paths = {"s/a"}, !.max = {1},
                        !.deadline = {1}],
   [Unrestricted EXCEPT !.paths = {"s/ab", "o"}, !.domains = {"e"}, !.max = {3},
                        !.min = {2}]}
MCRelaxations ==
  {[Unrestricted EXCEPT !.rules = {"git", "rm"}, !.paths = {"s", "o"},
                        !.max = {3}, !.min = {0}, !.domains = {"d", "e"},
                        !.extras = {"key"}]}
MCPaths ==
  {<<Base>>,
   <<Base, [Base EXCEPT !.paths = {"s/a"}, !.min = {1}],
     [Base EXCEPT !.paths = {"s/a"}, !.max = {}, !.min = {0}]>>,
   <<[Base EXCEPT !.paths = {"s/a", "s/ab"}], [Base EXCEPT !.paths = {"s/a"}]>>,
   <<Base, [Base EXCEPT !.paths = {"o"}]>>,
   <<Base, [Unrestricted EXCEPT !.paths = {"s"}]>>}

\* A call that touches several parts is permitted when each of them is.
NoCall == [hits |-> {}, paths |-> {}, domains |-> {}, value |-> {}, elapsed |-> {}]
MCCalls ==
  {[NoCall EXCEPT !.hits = {h}] : h \in Rules \cup Extras}
  \cup {[NoCall EXCEPT !.paths = {p}] : p \in MCPlaces}
  \cup {[NoCall EXCEPT !.domains = {d}] : d \in Domains}
  \cup {[NoCall EXCEPT !.value = {v}] : v \in 0..3}
  \cup {[NoCall EXCEPT !.elapsed = {e}] : e \in 1..3}
=============================================================================
