-------------------------- MODULE MCRsaSlotThreads --------------------------
(* Symmetry for the model-checked instance of RsaSlotThreads. *)
EXTENDS RsaSlotThreads, TLC

Symmetry == Permutations(Threads)
=============================================================================
