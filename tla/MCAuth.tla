------------------------------- MODULE MCAuth -------------------------------
(* Small instances of Auth for TLC.                                        *)
EXTENDS Auth, TLC

CONSTANTS r1, r2, x, y, z

\* Steps 0 and 3 have the same code: six digits do repeat.
FourSteps == 0 :> x @@ 1 :> y @@ 2 :> z @@ 3 :> x
ThreeSteps == 0 :> x @@ 1 :> y @@ 2 :> z

ReqSymmetry == Permutations(Reqs)
=============================================================================
