---------------------------- MODULE MCAutoscaler ----------------------------
(***************************************************************************)
(* Autoscaler for TLC.  Generations and ticks may be permuted.             *)
(***************************************************************************)
EXTENDS Autoscaler, TLC

Symmetry == Permutations(Generations) \cup Permutations(Ticks)
=============================================================================
