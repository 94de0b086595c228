----------------------------- MODULE MCSoftAead -----------------------------
(* Inputs of the model-checked instances of SoftAead. *)
EXTENDS SoftAead

\* Lengths around the 2-byte blocks, zero bytes that look like padding
MCAads == {<<0>>, <<0, 0>>}
MCPlains == {<<>>, <<7, 8, 7>>}
MCXorBlock == [a \in Algs |-> IF a = "gcm" THEN 2 ELSE 3]
=============================================================================
