--------------------------- MODULE MCCipherModes ---------------------------
(* Texts and initial vectors of the model-checked instance of CipherModes. *)
EXTENDS CipherModes

\* Bytes 1 and 2 are also paddings of a block of two
SmallTexts == {<<1, 2, 2, 1, 1, 2>>}

\* The counter carries into its first byte, and wraps to zero
CarryingIvs == {<<0, 3>>, <<3, 3>>}
=============================================================================
