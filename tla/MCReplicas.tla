----------------------------- MODULE MCReplicas -----------------------------
(***************************************************************************)
(* Replicas for TLC.  No generation is named by the module, so they may be *)
(* permuted; the properties of the run are invariants and a refinement,    *)
(* all of them the same for every order of the generations.                *)
(***************************************************************************)
EXTENDS Replicas, TLC

Symmetry == Permutations(Generations)
=============================================================================
