--------------------------- MODULE MCApiDispatch ---------------------------
(* The calls made in the model-checked instances of ApiDispatch. *)
EXTENDS ApiDispatch

LowLevelGcm == {"aesGcmEncrypt", "aesGcmDecrypt"}
AllCalls == UNION {CallsOf(cap) : cap \in Capabilities}
CheckedCalls == AllCalls \ LowLevelGcm
=============================================================================
