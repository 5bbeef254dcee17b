--------------------------- MODULE MCLogBaseline ---------------------------
(***************************************************************************)
(* LogBaseline with three entries, two of them of the same second, each    *)
(* listed in its own way.                                                  *)
(***************************************************************************)
EXTENDS LogBaseline, TLC

CONSTANTS e1, e2, e3, p1, p2

MCCreated == (e1 :> 1) @@ (e2 :> 1) @@ (e3 :> 2)
MCForm == (e1 :> "full") @@ (e2 :> "undated") @@ (e3 :> "ref")

MCSymmetry == Permutations(Procs)
=============================================================================
