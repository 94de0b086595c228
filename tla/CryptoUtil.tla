----------------------------- MODULE CryptoUtil -----------------------------
(***************************************************************************)
(* The PKCS#7 helpers of CryptoUtil.cpp, as functions of byte strings, and *)
(* the reference they are checked against.  A refused call (return 0) is   *)
(* the empty string for pkcs7Pad and 0 for pkcs7Unpad, as in the code.     *)
(***************************************************************************)
EXTENDS Integers, Sequences

\* The n-fold repetition of a byte
Repeat(byte, n) == [i \in 1..n |-> byte]

\* What pkcs7Pad writes to out, which holds cap bytes; 1 <= blockSize <= 255
pkcs7Pad(plain, cap, blockSize) ==
  LET padLen == blockSize - (Len(plain) % blockSize)
      total == Len(plain) + padLen
  IN IF total > cap THEN <<>> ELSE plain \o Repeat(padLen, padLen)

\* Mutant of pkcs7Unpad: only the last byte is looked at
TrustsLastByte(buf, blockSize) ==
  LET len == Len(buf)
      padLen == buf[len]
  IN IF len = 0 \/ len % blockSize # 0 \/ padLen = 0 \/ padLen > blockSize \/ padLen > len
     THEN 0 ELSE len - padLen

\* What pkcs7Unpad returns
pkcs7Unpad(buf, blockSize) ==
  LET len == Len(buf)
      padLen == buf[len]
  IN IF len = 0 \/ len % blockSize # 0 THEN 0
     ELSE IF padLen = 0 \/ padLen > blockSize \/ padLen > len THEN 0
     ELSE IF \E i \in 0 .. padLen - 1 : buf[len - i] # padLen THEN 0
     ELSE len - padLen

\* Reference (RFC 5652, 6.3): buf is the padding of its first n bytes
IsPaddingOf(buf, n, blockSize) ==
  /\ n \in 0 .. Len(buf) - 1
  /\ Len(buf) - n \in 1..blockSize
  /\ Len(buf) % blockSize = 0
  /\ \A i \in n + 1 .. Len(buf) : buf[i] = Len(buf) - n
=============================================================================
