----------------------------- MODULE MCAdmission -----------------------------
(* Instances of Admission: file a belongs to layer x, b to y, c to x and is  *)
(* protected by one of the constitutions; d belongs to both layers.          *)
EXTENDS Admission, TLC

CONSTANTS a, b, c, d, x, y, pa, pab, pac, pd, none

MCOwners == a :> {x} @@ b :> {y} @@ c :> {x} @@ d :> {x, y}

MCTouches == pa :> {a} @@ pab :> {a, b} @@ pac :> {a, c} @@ pd :> {d}

S(layers, paths, risk) == [layers |-> layers, paths |-> paths, risk |-> risk]

Plain == [scope |-> S({x}, {a}, 0), growth |-> {}, laws |-> {{}}, patches |-> {pa, pab},
          approvals |-> 2, rows |-> {<<"reviewer", "scope">>}, lifetimes |-> {9},
          days |-> 0, careless |-> FALSE]

(* A reviewer lets the scope grow to a second layer.                         *)
Growth == [Plain EXCEPT !.growth = {S({y}, {b}, 0)}, !.patches = {pa, pab},
                        !.lifetimes = {1, 9}, !.days = 2]

(* The scope grows to a protected file.                                      *)
Constitution == [Plain EXCEPT !.scope = S({x}, {a}, 1), !.growth = {S({}, {c}, 3)},
                              !.laws = {{c}},
                              !.patches = {pac}, !.approvals = 2, !.days = 1,
                              !.rows = {<<"reviewer", "scope">>, <<"human_signed", "scope">>}]

(* The constitution comes and goes.                                          *)
Law == [Plain EXCEPT !.scope = S({x}, {a, c}, 0), !.laws = {{}, {c}},
                     !.patches = {pa, pac},
                     !.rows = {<<"human_signed", "scope">>, <<"human_signed", "merge">>}]

(* The merge is approved on GitHub.                                          *)
Merge == [Plain EXCEPT !.scope = S({x}, {a, c}, 0), !.laws = {{c}}, !.patches = {pa, pac},
                       !.growth = {S({}, {b}, 0)}, !.approvals = 3,
                       !.rows = {<<"human_signed", "scope">>, <<"github", "merge">>}]

(* Across layers from the beginning.                                         *)
Layered == [Plain EXCEPT !.scope = S({x, y}, {a, b}, 0), !.patches = {pab}, !.days = 1,
                         !.lifetimes = {1, 9},
                         !.rows = {<<"reviewer", "scope">>, <<"human_signed", "scope">>,
                                   <<"github", "scope">>}]

(* Files are edited behind the Writer's back.                                *)
Edits == [Plain EXCEPT !.scope = S({x, y}, {a, b}, 0), !.patches = {pa, pab, pd},
                       !.careless = TRUE]

MCRegimes == {Growth, Constitution, Law, Merge, Layered, Edits}
=============================================================================
