--------------------------- MODULE ScratchBounce ---------------------------
(***************************************************************************)
(* The static buffers of the CC310 backend and the calls that share them.  *)
(* g_scratch is the work buffer of begin() and the bounce buffer of        *)
(* sha256/sha512 (hashDigest), sha384, hmacSha256, hkdfSha256, the AES     *)
(* modes (aesRun) and the calls that bounce a whole message (bounceMsg:    *)
(* Ed25519 and RSA sign and verify).  The P-256 calls build their keys in  *)
(* static objects of their own.  randomBytes shares only the chunk loop.   *)
(* Several threads may be inside such calls; one step is one memcpy into   *)
(* or out of a buffer, or one call of the CRYS library, which reads it.    *)
(*                                                                         *)
(* A byte is named after where it comes from, <<thread, buffer, i>>: the   *)
(* i-th byte of that buffer in the thread's current call; bytes of earlier *)
(* calls are Junk.  What a call computes is determined by the bytes the    *)
(* library was fed, so a call is right when it was fed exactly its inputs. *)
(* A key object is one such byte.                                          *)
(***************************************************************************)
EXTENDS Integers, Sequences

CONSTANTS
  Threads,     \* the threads that call the engine
  Scratch,     \* kScratchBytes
  HashBlock,   \* CRYS_HASH_BLOCK_SIZE_IN_BYTES
  AesBlock,    \* kAesBlockLen
  KeyRam,      \* sizeof(keyRam), sizeof(ikmRam): what is copied to the stack
  KeyLimit,    \* the longest HMAC key accepted: 0xFFFF
  RndLimit,    \* the most CRYS_RND_GenerateVector is asked for at once: 0xFFFF
  InLens,      \* the message lengths calls are made with
  KeyLens,     \* the HMAC key lengths calls are made with
  HkdfLens     \* the <<ikm, salt, info>> lengths HKDF is called with

ASSUME SizeAssumption ==
  /\ {Scratch, HashBlock, AesBlock, KeyRam, KeyLimit, RndLimit} \subseteq Nat
  /\ 1 <= HashBlock /\ HashBlock <= Scratch
  /\ 1 <= AesBlock /\ 2 * AesBlock <= Scratch /\ 1 <= RndLimit
ASSUME LenAssumption ==
  /\ InLens \subseteq Nat /\ KeyLens \subseteq Nat
  /\ \A h \in HkdfLens : h \in Nat \X Nat \X Nat

VARIABLES
  started,     \* CC310Backend::started_
  scratch,     \* g_scratch
  area,        \* the static key objects of the P-256 calls
  call,        \* the call each thread is in, or made last
  overrun      \* some copy went past the end of g_scratch

vars == <<started, scratch, area, call, overrun>>

Junk == <<0, "junk", 0>>     \* left behind by CRYS_RndInit or an earlier call
Zero == <<0, "zero", 0>>

\* The static objects each P-256 call builds or generates, in their order
Areas(op) ==
  CASE op = "ecdsaGenerate" -> <<"genPriv", "genPub">>
    [] op = "ecdsaSign"     -> <<"signPriv">>
    [] op = "ecdsaVerify"   -> <<"verifyPub">>
    [] op = "ecdh"          -> <<"dhPub", "dhPriv">>

P256 == {"ecdsaGenerate", "ecdsaSign", "ecdsaVerify", "ecdh"}
AreaNames == {"genPriv", "genPub", "signPriv", "verifyPub", "dhPub", "dhPriv"}

\* The n bytes of thread t's buffer b that follow the first off
Bytes(t, b, off, n) == [i \in 1..n |-> <<t, b, off + i>>]

\* What SaSi_AesBlock makes of a byte
Enc(c) == <<c[1], "enc", c[3]>>

NoCall == [pc |-> "idle", op |-> "none", n |-> 0, k |-> 0, hk |-> <<0, 0, 0>>,
           off |-> 0, fed |-> <<>>, out |-> <<>>, st |-> "none"]

Init ==
  /\ started = FALSE
  /\ scratch = [i \in 1..Scratch |-> Junk]
  /\ area = [a \in AreaNames |-> Junk]
  /\ call = [t \in Threads |-> NoCall]
  /\ overrun = FALSE

-----------------------------------------------------------------------------
(* Sizes *)

SmallerOf(a, b) == IF a < b THEN a ELSE b

\* Mutant of Half: half of the scratch, not rounded to a block
HalfOfScratch == Scratch \div 2

\* Mutant of Half: rounded to blocks and once more divided
HalfInBlocks == ((Scratch \div 2) \div AesBlock) \div (AesBlock * AesBlock)

\* aesRun: the scratch is split into an input and an output half
Half == ((Scratch \div 2) \div AesBlock) * AesBlock

\* The most one pass of a call's loop copies; bounceMsg copies the whole message
Step(c) ==
  CASE c.op = "hash"            -> (Scratch \div HashBlock) * HashBlock
    [] c.op \in {"sha384", "hmac"} -> Scratch
    [] c.op \in {"cbc", "ctr"}  -> Half
    [] c.op = "random"          -> RndLimit
    [] OTHER                    -> c.n

IsAes(c) == c.op \in {"cbc", "ctr"}
Chunk(c) == SmallerOf(c.n - c.off, Step(c))

\* aesRun rounds the last chunk up to a block; the others feed what they copied
Padded(c) ==
  IF IsAes(c) THEN ((Chunk(c) + AesBlock - 1) \div AesBlock) * AesBlock ELSE Chunk(c)

\* memcpy and memset into g_scratch, from position at
Write(at, bytes) ==
  /\ scratch' = [i \in 1..Scratch |->
                   IF at < i /\ i <= at + Len(bytes) THEN bytes[i - at] ELSE scratch[i]]
  /\ overrun' = (overrun \/ at + Len(bytes) > Scratch)

\* The n bytes from position at; past the end there is other memory
Read(at, n) == [i \in 1..n |-> IF at + i <= Scratch THEN scratch[at + i] ELSE Junk]

-----------------------------------------------------------------------------
(* Starting a call *)

Free(t) == call[t].pc = "idle"

\* A byte of a call that is over is Junk from now on
Aged(b) == IF b[1] \in Threads /\ Free(b[1]) THEN Junk ELSE b

\* A call of t, which is free, begins or is answered at once; the results of the
\* calls that are over are not kept
Enter(t, c) ==
  /\ call' = [u \in Threads |-> IF u = t THEN c ELSE IF Free(u) THEN NoCall ELSE call[u]]
  /\ scratch' = [i \in 1..Scratch |-> Aged(scratch[i])]
  /\ area' = [a \in AreaNames |-> Aged(area[a])]
  /\ UNCHANGED <<started, overrun>>

New(op, pc, n) ==
  IF started THEN [NoCall EXCEPT !.op = op, !.pc = pc, !.n = n]
  ELSE [NoCall EXCEPT !.op = op, !.st = "NotStarted"]
Refused(op) == [NoCall EXCEPT !.op = op, !.st = IF started THEN "BadParam" ELSE "NotStarted"]

sha256(t, n) == Free(t) /\ Enter(t, New("hash", "loop", n))
sha384(t, n) == Free(t) /\ Enter(t, New("sha384", "loop", n))
aes128Ctr(t, n) == Free(t) /\ Enter(t, New("ctr", "loop", n))
randomBytes(t, n) == Free(t) /\ Enter(t, New("random", "loop", n))
ecdsaP256(t, op) == Free(t) /\ Enter(t, New(op, "build", 0))

\* aes128CbcEncrypt and aes128CbcDecrypt
aes128Cbc(t, n) ==
  /\ Free(t)
  /\ Enter(t, IF n % AesBlock # 0 THEN Refused("cbc") ELSE New("cbc", "loop", n))

\* Mutant of ed25519Sign: bounceMsg does not compare the length with the scratch
BounceAnyLength(t, n) == Free(t) /\ Enter(t, New("msg", "loop", n))

\* The calls that bounce their message: ed25519Sign, ed25519Verify and the RSA ones
ed25519Sign(t, n) ==
  /\ Free(t)
  /\ Enter(t, IF n > Scratch THEN Refused("msg") ELSE New("msg", "loop", n))

hmacSha256(t, k, n) ==
  /\ Free(t)
  /\ Enter(t, IF k > KeyLimit THEN Refused("hmac")
              ELSE [New("hmac", "key", n) EXCEPT !.k = k])

\* hkdfSha256; an input longer than the scratch is refused when it is copied
hkdfSha256(t, lens) ==
  Free(t) /\ Enter(t, [New("hkdf", "ikm", 0) EXCEPT !.hk = lens])

\* CC310Backend::begin(): CRYS_RndInit works in g_scratch, also when it fails
begin(t) ==
  /\ Free(t) /\ ~started
  /\ \/ /\ scratch' = [i \in 1..Scratch |-> Junk]
        /\ started' \in BOOLEAN
     \/ UNCHANGED <<started, scratch>>      \* SaSi_LibInit fails
  /\ UNCHANGED <<area, call, overrun>>

\* CC310Backend::end(): the buffers keep what is in them
end(t) ==
  /\ Free(t) /\ started
  /\ started' = FALSE
  /\ UNCHANGED <<scratch, area, call, overrun>>

-----------------------------------------------------------------------------
(* Inside a call *)

Go(t, pc) == call' = [call EXCEPT ![t].pc = pc]

Leave(t, st) == call' = [call EXCEPT ![t].pc = "idle", ![t].st = st]

\* CRYS_HASH_Init, SaSi_AesInit, SaSi_AesSetKey or SaSi_AesSetIv fails
InitFails(t) ==
  LET c == call[t] IN
  /\ c.pc = "loop" /\ c.off = 0
  /\ c.op = "hash" \/ IsAes(c)
  /\ Leave(t, "InternalError")
  /\ UNCHANGED <<scratch, overrun>>

\* hmacSha256: a key longer than keyRam goes into the scratch, whatever its length
CopyKey(t) ==
  /\ call[t].pc = "key"
  /\ IF call[t].k <= KeyRam THEN UNCHANGED <<scratch, overrun>>
                            ELSE Write(0, Bytes(t, "key", 0, call[t].k))
  /\ Go(t, "init")

\* CRYS_HMAC_Init reads the key from keyRam or from the scratch
HmacInit(t) ==
  LET k == call[t].k
      key == IF k <= KeyRam THEN Bytes(t, "key", 0, k) ELSE Read(0, k)
  IN /\ call[t].pc = "init"
     /\ \/ call' = [call EXCEPT ![t].pc = "loop", ![t].fed = key]
        \/ Leave(t, "InternalError")
     /\ UNCHANGED <<scratch, overrun>>

\* hkdfSha256 copies one of its inputs: to the stack, or to the scratch
CopyInput(t, b, j, next) ==
  LET n == call[t].hk[j] IN
  /\ call[t].pc = b
  /\ \/ n <= KeyRam /\ Go(t, next) /\ UNCHANGED <<scratch, overrun>>
     \/ KeyRam < n /\ n <= Scratch /\ Write(0, Bytes(t, b, 0, n)) /\ Go(t, next)
     \/ KeyRam < n /\ n > Scratch /\ Leave(t, "BadParam") /\ UNCHANGED <<scratch, overrun>>

\* What infoPtr, saltPtr and ikmPtr point to
Input(t, b, j) ==
  LET n == call[t].hk[j] IN IF n <= KeyRam THEN Bytes(t, b, 0, n) ELSE Read(0, n)

\* CRYS_HKDF_KeyDerivFunc
Derive(t) ==
  /\ call[t].pc = "derive"
  /\ \/ call' = [call EXCEPT ![t].pc = "idle", ![t].st = "Ok",
                   ![t].fed = Input(t, "ikm", 1) \o Input(t, "salt", 2) \o Input(t, "info", 3)]
     \/ Leave(t, "InternalError")
  /\ UNCHANGED <<scratch, overrun>>

\* memcpy(bounce, in + off, chunk), and the zero padding of aesRun
CopyIn(t) ==
  LET c == call[t]
      zeros == [i \in 1 .. Padded(c) - Chunk(c) |-> Zero]
  IN /\ c.pc = "loop" /\ c.op # "random" /\ c.off < c.n
     /\ Write(0, Bytes(t, "in", c.off, Chunk(c)) \o zeros)
     /\ Go(t, "engine")

\* The library takes what is in the scratch: CRYS_HASH_Update, CRYS_HMAC_Update,
\* ocrypto_sha384_update, which cannot fail, or the sign or verify call itself
Engine(t) ==
  LET c == call[t] IN
  /\ c.pc = "engine" /\ ~IsAes(c)
  /\ \/ call' = [call EXCEPT ![t].pc = "loop", ![t].off = c.off + Chunk(c),
                             ![t].fed = c.fed \o Read(0, Chunk(c))]
     \/ c.op \in {"hash", "hmac"} /\ Leave(t, "InternalError")
  /\ UNCHANGED <<scratch, overrun>>

\* SaSi_AesBlock reads the input half and writes the output half
AesEngine(t) ==
  LET c == call[t]
      in == Read(0, Padded(c))
  IN /\ c.pc = "engine" /\ IsAes(c)
     /\ \/ /\ call' = [call EXCEPT ![t].pc = "copyOut", ![t].fed = c.fed \o in]
           /\ Write(Half, [i \in 1..Len(in) |-> Enc(in[i])])
        \/ Leave(t, "InternalError") /\ UNCHANGED <<scratch, overrun>>

\* memcpy(out + off, outBuf, real)
CopyOut(t) ==
  LET c == call[t] IN
  /\ c.pc = "copyOut"
  /\ call' = [call EXCEPT ![t].pc = "loop", ![t].off = c.off + Chunk(c),
                          ![t].out = c.out \o Read(Half, Chunk(c))]
  /\ UNCHANGED <<scratch, overrun>>

\* The loop is done: the final CRYS call; those of sha384 and AES answer nothing
Finish(t) ==
  LET c == call[t] IN
  /\ c.pc = "loop" /\ c.off >= c.n
  /\ \/ Leave(t, "Ok")
     \/ c.op \in {"hash", "hmac"} /\ Leave(t, "InternalError")
     \/ c.op = "msg" /\ \E st \in {"InternalError", "AuthFailed"} : Leave(t, st)
  /\ UNCHANGED <<scratch, overrun>>

\* randomBytes: CRYS_RND_GenerateVector fills the next chunk of the caller's buffer
Generate(t) ==
  LET c == call[t] IN
  /\ c.pc = "loop" /\ c.op = "random" /\ c.off < c.n
  /\ \/ call' = [call EXCEPT ![t].off = c.off + Chunk(c),
                             ![t].fed = c.fed \o Bytes(t, "in", c.off, Chunk(c))]
     \/ Leave(t, "InternalError")
  /\ UNCHANGED <<scratch, overrun>>

\* The name of the key object a P-256 call is at
Current(t) == Areas(call[t].op)[call[t].off + 1]

\* CRYS_ECPKI_GenKeyPair makes both halves, or leaves anything in them
GenKeyPair(t) ==
  /\ call[t].pc = "build" /\ call[t].op = "ecdsaGenerate"
  /\ \/ /\ area' = [area EXCEPT !["genPriv"] = <<t, "genPriv", 1>>,
                                !["genPub"] = <<t, "genPub", 1>>]
        /\ Go(t, "use")
     \/ /\ area' = [area EXCEPT !["genPriv"] = Junk, !["genPub"] = Junk]
        /\ Leave(t, "InternalError")

\* CRYS_ECPKI_BuildPrivKey or BuildPublKey refuses the key
AfterFailedBuild(t) == [call EXCEPT ![t].pc = "idle", ![t].st = "BadParam"]

\* A key object is built from the caller's key, or not
Build(t) ==
  /\ call[t].pc = "build" /\ call[t].op # "ecdsaGenerate"
  /\ \/ /\ call[t].off < Len(Areas(call[t].op))
        /\ \/ /\ area' = [area EXCEPT ![Current(t)] = <<t, Current(t), 1>>]
              /\ call' = [call EXCEPT ![t].off = @ + 1]
           \/ /\ area' \in {area, [area EXCEPT ![Current(t)] = Junk]}
              /\ call' = AfterFailedBuild(t)
     \/ /\ call[t].off = Len(Areas(call[t].op))
        /\ call' = [call EXCEPT ![t].off = 0, ![t].pc = "use"]
        /\ UNCHANGED area

\* CRYS_ECPKI_ExportPrivKey and ExportPublKey read one object each
Export(t) ==
  LET c == call[t] IN
  /\ c.pc = "use" /\ c.op = "ecdsaGenerate"
  /\ \/ call' = [call EXCEPT ![t].off = @ + 1, ![t].fed = c.fed \o <<area[Current(t)]>>,
                             ![t].pc = IF c.off = 1 THEN "idle" ELSE @,
                             ![t].st = IF c.off = 1 THEN "Ok" ELSE @]
     \/ Leave(t, "InternalError")
  /\ UNCHANGED area

\* CRYS_ECDSA_Sign, CRYS_ECDSA_Verify and CRYS_ECDH_SVDP_DH read the objects built
UseKeys(t) ==
  LET c == call[t] IN
  /\ c.pc = "use" /\ c.op # "ecdsaGenerate"
  /\ \/ call' = [call EXCEPT ![t].pc = "idle", ![t].st = "Ok",
                 ![t].fed = [i \in 1..Len(Areas(c.op)) |-> area[Areas(c.op)[i]]]]
     \/ Leave(t, IF c.op = "ecdsaVerify" THEN "AuthFailed" ELSE "InternalError")
  /\ UNCHANGED area

Start(t) ==
  \/ \E n \in InLens :
       \/ sha256(t, n) \/ sha384(t, n) \/ aes128Ctr(t, n) \/ aes128Cbc(t, n)
       \/ ed25519Sign(t, n) \/ randomBytes(t, n)
       \/ \E k \in KeyLens : hmacSha256(t, k, n)
  \/ \E lens \in HkdfLens : hkdfSha256(t, lens)
  \/ \E op \in P256 : ecdsaP256(t, op)
  \/ begin(t) \/ end(t)

\* The steps on the scratch
Bounce(t) ==
  \/ InitFails(t) \/ CopyKey(t) \/ HmacInit(t)
  \/ CopyInput(t, "ikm", 1, "salt") \/ CopyInput(t, "salt", 2, "info")
  \/ CopyInput(t, "info", 3, "derive") \/ Derive(t)
  \/ CopyIn(t) \/ Engine(t) \/ AesEngine(t) \/ CopyOut(t) \/ Generate(t) \/ Finish(t)

\* The steps on the static key objects
KeyStep(t) == GenKeyPair(t) \/ Build(t) \/ Export(t) \/ UseKeys(t)

Proceed(t) ==
  \/ Bounce(t) /\ UNCHANGED <<started, area>>
  \/ KeyStep(t) /\ UNCHANGED <<started, scratch, overrun>>

Next == \E t \in Threads : Start(t) \/ Proceed(t)

Spec == Init /\ [][Next]_vars

\* The application holds a lock of its own around every call
LockedNext ==
  \E t \in Threads : ((\A u \in Threads : Free(u)) /\ Start(t)) \/ Proceed(t)

\* A thread inside a call waits for nothing and is scheduled
LockedSpec ==
  Init /\ [][LockedNext]_vars /\ \A t \in Threads : WF_vars(Proceed(t))

-----------------------------------------------------------------------------
(* Properties *)

\* The bytes the library must be fed for the call's own inputs
Expected(t) ==
  LET c == call[t]
      in == Bytes(t, "in", 0, c.n)
      pad == (AesBlock - (c.n % AesBlock)) % AesBlock
  IN CASE c.op = "hmac" -> Bytes(t, "key", 0, c.k) \o in
       [] c.op = "hkdf" -> Bytes(t, "ikm", 0, c.hk[1]) \o Bytes(t, "salt", 0, c.hk[2])
                             \o Bytes(t, "info", 0, c.hk[3])
       [] c.op \in P256 -> [i \in 1..Len(Areas(c.op)) |-> <<t, Areas(c.op)[i], 1>>]
       [] IsAes(c)      -> in \o [i \in 1..pad |-> Zero]
       [] OTHER         -> in

\* A call that answers Ok was fed exactly its own inputs, every byte once and in
\* order, over all chunk boundaries and whatever earlier calls, failed ones too,
\* left in the scratch and in the key objects; the AES modes returned the image
\* of every input byte, random filled the whole buffer, and a generated pair is
\* of one generation
OkMeansOwnInput ==
  \A t \in Threads : call[t].st = "Ok" =>
    /\ call[t].fed = Expected(t)
    /\ IsAes(call[t]) => call[t].out = [i \in 1..call[t].n |-> Enc(Bytes(t, "in", 0, i)[i])]

\* No copy goes past the end of g_scratch: neither the chunks, nor aesRun's
\* padded chunk in the output half, nor a long HMAC key
CopiesFit == ~overrun

\* Every call returns: the chunk loops (hashDigest, sha384, HMAC, aesRun,
\* randomBytes) make progress at every length
CallsReturn == \A t \in Threads : call[t].pc # "idle" ~> call[t].pc = "idle"
=============================================================================
