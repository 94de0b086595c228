----------------------------- MODULE MCSoftKdf -----------------------------
(* The instance of SoftKdf that is model-checked: all its values are in the cfg. *)
EXTENDS SoftKdf
=============================================================================
