----------------------------- MODULE MCChartify -----------------------------
(* Model-checking instance of Chartify: two keys, one of them a CRD, two   *)
(* bodies, up to two documents per side (enough for an in-snapshot         *)
(* duplicate and for all four diff types across runs), two runs into the   *)
(* same directory (enough for a retry and for a rerun with other inputs). *)
EXTENDS Chartify, TLC

CONSTANTS k1, k2, b1, b2

MCKeys == {k1, k2}
MCCrdKeys == {k1}
MCBodies == {b1, b2}

\* A fresh output directory, or a chart whose values.yaml the user wrote.
MCInitValues == {NoFile, UserValues}
UserChart == {UserValues}

\* Bodies are only ever compared for equality: permuting them is sound.
Symmetry == Permutations(MCBodies)
=============================================================================
