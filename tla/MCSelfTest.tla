----------------------------- MODULE MCSelfTest -----------------------------
(* The application's own handles are interchangeable; the self test's locals *)
(* are not.                                                                  *)
EXTENDS SelfTest, TLC

AppSymmetry == Permutations(AppHandles)
=============================================================================
