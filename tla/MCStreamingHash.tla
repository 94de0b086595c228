-------------------------- MODULE MCStreamingHash --------------------------
(* Block and length-field sizes scaled down from 64/8 and 128/16 bytes. *)
EXTENDS StreamingHash

MCBlockLen == [k \in Kinds |-> IF k = "sha256" THEN 4 ELSE 6]
MCLenBytes == [k \in Kinds |-> IF k = "sha256" THEN 1 ELSE 2]
=============================================================================
