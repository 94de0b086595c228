------------------------------ MODULE KeyPool ------------------------------
(***************************************************************************)
(* What the RSA key store promises, without saying how: a fixed number of  *)
(* places that hold a private key or nothing.  A key enters a free place   *)
(* while the store is open, stays there unchanged until it is dropped, and *)
(* closing the store (or closing and opening it in one step) empties every *)
(* place.  RsaKeyStore implements this specification; its slot search,     *)
(* half-written slots, library handshake, handles and error codes are      *)
(* invisible here.                                                         *)
(***************************************************************************)
CONSTANTS Places, Keys, Free

VARIABLES open, pool

poolVars == <<open, pool>>

Empty == [p \in Places |-> Free]

PoolInit == open = FALSE /\ pool = Empty

Open == ~open /\ open' = TRUE /\ UNCHANGED pool

\* Close, or close and open again
Purge == open /\ open' \in BOOLEAN /\ pool' = Empty

Put(p, k) ==
  /\ open /\ pool[p] = Free
  /\ pool' = [pool EXCEPT ![p] = k]
  /\ UNCHANGED open

Drop(p) == pool' = [pool EXCEPT ![p] = Free] /\ UNCHANGED open

PoolNext ==
  \/ Open
  \/ Purge
  \/ \E p \in Places : Drop(p) \/ \E k \in Keys : Put(p, k)

PoolSpec == PoolInit /\ [][PoolNext]_poolVars
=============================================================================
