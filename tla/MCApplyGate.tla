---------------------------- MODULE MCApplyGate ----------------------------
(* A project with a nested one, and two fixers.                            *)
EXTENDS ApplyGate

P == <<"p">>
D == <<"p", "d">>
X == <<"p", "d", "x">>
F == <<"p", "f">>
MCPaths == {P, D, X, F}

MCIds == {"a", "b", "B"}
MCCanonical == [id \in MCIds |-> IF id = "B" THEN "b" ELSE id]

(* The nested project is there or not, and its file, and the other file.   *)
MCTrees ==
    {[q \in MCPaths |-> CASE q = P -> "dir" [] q = D -> d [] q = X -> x [] q = F -> f] :
        <<d, x, f>> \in {<<"absent", "absent", "absent">>, <<"absent", "absent", "file">>,
                         <<"dir", "absent", "file">>, <<"dir", "file", "absent">>,
                         <<"dir", "file", "link">>, <<"file", "absent", "file">>}}

(* Where a fixer works: a root, targets and dirty paths.                   *)
Places ==
    {<<P, {<<"d">>}, {}>>, <<P, {<<"d">>}, {<<"f">>}>>, <<P, {<<"d", "x">>}, {}>>,
     <<P, {<<"f">>}, {<<"d", "x">>}>>, <<P, {<<"f">>, <<"d">>}, {}>>,
     <<D, {<<"x">>}, {}>>}

Asked(id, place) == [id |-> id, targets |-> place[2], commands |-> {"test"}]
Held(id, place, conflicted) ==
    [id |-> id, root |-> place[1], dirty |-> place[3], conflicted |-> conflicted]

One(id, place) ==
    [approved |-> <<id>>, requests |-> <<Asked(id, place)>>,
     workspaces |-> <<Held(id, place, FALSE)>>]
Two(place1, place2) ==
    [approved |-> <<"a", "B">>,
     requests |-> <<Asked("b", place2), Asked("a", place1)>>,
     workspaces |-> <<Held("a", place1, FALSE), Held("b", place2, FALSE)>>]

MCInputs ==
    {One("a", place) : place \in Places}
    \cup {Two(place1, place2) : place1, place2 \in Places}

(* Inputs that name a cluster twice, or in conflict. *)
Somewhere == <<P, {<<"f">>}, {}>>
MCDoubtful ==
    {[One("b", Somewhere) EXCEPT !.workspaces = @ \o <<Held(id, place, FALSE)>>] :
        id \in {"a", "b", "B"}, place \in Places}
    \cup {[One("b", Somewhere) EXCEPT !.requests = @ \o <<Asked("B", Somewhere)>>],
          [One("b", Somewhere) EXCEPT !.approved = <<"b", "B">>],
          [One("b", Somewhere) EXCEPT !.workspaces = <<Held("b", Somewhere, TRUE)>>]}
MCAllInputs == MCInputs \cup MCDoubtful

MCOutputs == {<<<<"test", "PASS">>>>, <<<<"test", "PASS">>, <<"test", "PASS">>>>,
              <<<<"test", "FAIL">>>>, <<>>}
=============================================================================
