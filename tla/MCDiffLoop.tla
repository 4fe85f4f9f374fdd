----------------------------- MODULE MCDiffLoop -----------------------------
(* DiffLoop over three keys and two bodies, with up to two documents per   *)
(* side: every diff type occurs, up to three of them in one run, as does  *)
(* a key duplicated within one side and two orders of the common keys.   *)
EXTENDS DiffLoop

CONSTANTS k1, k2, k3, b1, b2

MCKeys == {k1, k2, k3}
MCBodies == {b1, b2}
=============================================================================
