--------------------------- MODULE MCLagDetector ---------------------------
(* Instantiates LagDetector for TLC: metric names as model values.  The    *)
(* detector never compares metric names, so permuting them is a symmetry.  *)
EXTENDS LagDetector, TLC

CONSTANTS m1, m2

MCMetrics == {m1, m2}

MCSymmetry == Permutations(MCMetrics)

=============================================================================
