--------------------------- MODULE MCRsaKeyStore ---------------------------
(* Symmetry for the model-checked instances of RsaKeyStore. *)
EXTENDS RsaKeyStore, TLC

HandleSymmetry == Permutations(Handles)
EngineSymmetry == Permutations(Engines)
Symmetry == HandleSymmetry \cup EngineSymmetry
=============================================================================
