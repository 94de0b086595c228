-------------------------- MODULE MCScratchBounce --------------------------
(* HKDF inputs of the model-checked instances of ScratchBounce. *)
EXTENDS ScratchBounce

\* At most one input longer than the 2 bytes kept on the stack
OneLongInput == {<<2, 2, 2>>, <<3, 0, 1>>, <<2, 7, 1>>, <<1, 2, 5>>, <<8, 1, 1>>,
                 <<1, 8, 1>>, <<2, 0, 8>>}

NoHkdf == {}
=============================================================================
