----------------------------- MODULE MCSliceWaves -----------------------------
(***************************************************************************)
(* Instances of SliceWaves: three slices over two paths, two at a time.    *)
(***************************************************************************)
EXTENDS SliceWaves

\* The files a/x and b.
MCPaths == {<<"a", "/", "x">>, <<"b">>}

\* A plan whose first two slices are allowed a/** and b.
PlanOf(second, third, last) ==
  [after |-> <<{}, second, third>>, allow |-> <<{<<"a", "/", "**">>}, {<<"b">>}, last>>, width |-> 2]

\* Two together and one that needs the first of them.
MCPlan == PlanOf({}, {1}, {<<"a", "/", "*">>, <<"b">>})

\* That; and three one by one, for the third overlaps both.
MCPlans == {MCPlan, PlanOf({1}, {}, {<<"**">>})}
=============================================================================
