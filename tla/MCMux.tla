--------------------------------- MODULE MCMux ---------------------------------
(* Instances of Mux for TLC. *)
EXTENDS Mux, TLC

CONSTANTS f1, f2

MCHandlers == {f1, f2}
MCSymmetry == Permutations(MCHandlers)
=============================================================================
