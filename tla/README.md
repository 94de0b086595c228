# A formal model of ArduinoNRF-Crypto

TLA+ modules that model the control of the library, TLC configurations that
check them on small instances, and TLAPS proofs of the properties that matter
most for every value of the constants. `PROJECT.json` lists the components, the
runs, the lines each definition models, the hazards, the findings and the
theorems.

## 1. The system

The library gives an nRF52 sketch one object, `CryptoEngine`, over two backends.

| component | state | operations | interacts with |
|---|---|---|---|
| `CryptoEngine` life cycle | `backend_` | `begin(prefer)`, `end()`, `supports`, `lastBackendError` | selects one of two file-level backend singletons |
| `CC310Backend` | `started_`, the CRYS library, the power bit, `g_scratch`, `g_rsaSlots`, `g_lastBackendError`, static work areas | hashes, HMAC, HKDF, AES, AEAD, curves, RSA | the vendored CRYS / ocrypto archive (external) |
| RSA key slots | `g_rsaSlots[2]`, and the application's `RsaKeyPair` handles | generate, import, sign, verify, export, release, PSS variants | `end()` erases all of them |
| `OnChipBackend` | `started_` | hashes, HKDF, AES-CBC/CTR, software AEAD; the rest inherits `Unsupported` | ECB peripheral, RNG, the Soft* classes |
| Streaming hashes | `Sha256Context`, `Sha384Context`, `Sha512Context`: `active`, state, buffer, length | begin, update, finish, reset | no backend at all |
| Software AEAD | none between calls | `SoftAesGcm`, `SoftChaChaPoly` encrypt and decrypt | OnChip backend |
| Software HMAC/HKDF, AES-128 | none between calls | one-shot functions | engine fallbacks, OnChip |
| PKCS#7, `secureEqual`, `wipe` | none | helpers | applications, AEAD, self test |
| Message structs | caller's memory | Seal/Open/Transform calls | engine |
| Self test runner | the application's engine and slots | one report | every call of the engine |
| Vendoring scripts, host test, serial capture, examples | not part of the library | | |

Nothing in the library starts a thread or registers a callback, and nothing is
persisted. What makes it hard is elsewhere:

* **handles are numbers**: an `RsaKeyPair` is a copyable struct with a slot
  number, and a slot is reused; there is no generation count;
* **shared buffers**: every CC310 call bounces flash-resident input through one
  static `g_scratch`, in chunks, without a lock, some calls bounce several
  inputs through it, and the P-256 calls keep their keys in static objects;
* **several steps, each of which may fail**: library then DRBG in `begin`;
  key generation, then marking the slot, then the export of the public half;
* **loops over boundaries**: block, chunk, padding and length-field edges of
  the hashes, `aesRun`, CTR's carry, HKDF's one-byte counter, the AEAD and
  PKCS#7 padding;
* **two implementations of one cipher**: OnChip encrypts with the ECB peripheral
  and decrypts with a software inverse;
* **a self test inside the application**: it uses the application's engine and
  its two RSA slots, and some faults count as skipped tests;
* **fallbacks**: the answer of a call comes from an override, an inherited
  default or the engine's software; `supports()` from a separate list.

What makes each part correct, in a line: live keys are kept and dead ones erased
(RSA); digests are those of the bytes passed (streams); a call is fed its own
input, stays inside its buffer and returns (scratch); open accepts what was sealed
and writes nothing otherwise (AEAD); the modes, HMAC, HKDF and PKCS#7 are the
standards' at every length (CipherModes, SoftKdf); `supports()` is truthful, bad
pointers stop before a primitive and good arguments are not refused (dispatch); a
report that is ok was earned, and the slots come back (self test).

## 2. The modules

`CryptoTypes` holds the shared vocabulary (`CryptoStatus`, `Prefer`, the backend
pointer). Each `MC...` module extends its specification and defines the
values its configurations use.

### RsaKeyStore, KeyPool

One action is one API call. `begin` and `end` cover `CryptoEngine` and both
backends; every outcome of `SaSi_LibInit`, `CRYS_RndInit` and the ECB self test is
an input. The state is the code's: `backend` per engine, `started`, `onchip`,
`libOpen`, `enabled`, `slots` (`g_rsaSlots`), `handles` (the application's
objects), `lastError`. `made` is a ghost: the key a handle was made for.
A key is a number standing for both halves. A failed generation leaves either
what was in the slot or a `Residue`. CRYS calls are external: they answer
success or an error at will, and a verification succeeds only for a signature of
the key. `Spec` lets the application copy, overwrite, `reset()` and keep handles
in any way C++ lets it; `CarefulSpec` is an application that follows
`docs/API_REFERENCE.md`: release before reuse and before restart.

`KeyPool` is the abstract promise: a set of places, a key enters a free place
while the pool is open, stays unchanged, and closing empties everything.
`RsaKeyStore` implements it (`ImplementsKeyPool`) by mapping a slot to its key
when it is ready and to nothing otherwise.

### RsaSlotThreads

The calls that make, release and export a key, and `begin` and `end`, taken apart:
one step per access to a slot that another thread can come between (the loop of
`rsaAllocSlot`, the parts of a slot in the order of the struct, the `ready` flag, the
memset and the second store of `rsaFreeSlot`, which a compiler may drop). Each
thread has one `RsaKeyPair`. The constant `Locked` names the calls around which
the application holds a lock. Bad arguments, signing and the error code
are in `RsaKeyStore`; signing also goes through `g_scratch` and static contexts
and needs the lock for that reason (`ScratchBounce`). At every instant the slots
are a `KeyPool`, the place of a slot being free as soon as its private part is
cleared.

### StreamingHash

One context of one of the three types. `shaBegin`, `shaUpdate`, `shaFinish`,
`reset` are the calls; `UpdateLoop`, `FinishZero`, `FinishDigest` are the passes
of the loops inside them. The compression function is symbolic: the chaining
state is the variant that was reset last and the bytes of the blocks processed,
so equal digests mean equal blocks under equal initial values. The buffer keeps
stale bytes as `buffer_` does; `bitLen` is a number modulo `WordSize`. `msg` is a
ghost.

### ScratchBounce

The CC310 calls that use `g_scratch`, one step per memcpy into or out of it and
per library call, by several threads. A byte is named by its origin, so that
`fed`, the sequence of bytes the library was given, can be compared with the
call's inputs. `begin` fills the scratch with the DRBG's work, `end` leaves it.
The P-256 calls build or generate their keys in static objects (`area`), which a
failed call may leave in any state; a key object is one byte of that kind.
`randomBytes` shares only the chunk loop. Short HMAC keys and HKDF inputs go
to the stack; long ones to the scratch, as in the code. `Spec` lets threads
interleave; `LockedSpec` is the same program with one call at a time, as if the
application held a lock, and with weak fairness of the steps of a call.

### SoftAead

Seal and open of the two software ciphers over two buffers, in place or not.
A byte is a value and the set of keystream bytes masking it, so XOR is
symmetric difference. A tag is the key, nonce and the sequence that went into
GHASH or Poly1305. The early return of `aeadPoly1305` when its input exceeds
its 512-byte buffer is modelled: the caller then finds what was in its tag
array before, an uninitialised one in `decrypt`. Packets come back intact, cut,
with another tag, key, nonce or associated data.

### ApiDispatch

Every engine call except the RSA ones and the stream updates, over the life cycle
of `RsaKeyStore` (by INSTANCE). Arguments are abstracted to which pointers
are null, which lengths zero, whether a length is a multiple of the AES block and
whether it is beyond a backend limit. `Params` gives for each call what it
dereferences and what the engine checks; `CC310Call` and `OnChipCall` give the
backends' own checks and answers; `Primitive` adds the software fallback and
`Answers` the calls made of two primitives. The overloads that take a message
struct are calls of their own (`Unpacks`): only their pointer fields can be null, and
`hashOverride` and `useSeed` choose the call made in the end (`Target`).

### CipherModes, CryptoUtil, SoftAes128

`CipherModes` is AES-CBC and AES-CTR of the OnChip backend, one step per block, over
two buffers, in place or from one to the other, with an ECB peripheral that may
fail at any block, and the PKCS#7 helpers (`CryptoUtil`) before and after. A byte
is a set of terms, XOR is symmetric difference, and the cipher is a pair of
symbolic inverse functions `E` (the peripheral, external) and `D`
(`SoftAes128::decryptBlock`).

`SoftAes128` is the software cipher in full, as functions on bytes that are sets of
bits: the table, the steps of a round, the key schedule, both directions. What
`CipherModes` takes for granted of `D` is checked of it: the table is FIPS-197's
S-box (by the field inverse and the affine map), every inverse step undoes its
step (all bytes; unit blocks for the linear `mixColumns`), the rounds are in the
right order and give FIPS-197's example (`AesIsFips`), and each direction undoes the
other on the example's blocks (`DecryptUndoesEncrypt`). That they do so for every key
and block is proved (section 4).

### SoftKdf

`SoftSha256::hmacSha256` and `SoftHkdf`. The hash is symbolic (byte j of the digest
of a string is a term), a hasher is the string it was given since its last
reset, so that the reuse of one hasher by HMAC's two passes matters. HKDF runs one
output block per step, with the counter modulo `CounterMod`.

### SelfTest

`runCryptoSelfTests` in its order, composed with `ApiDispatch` (by INSTANCE, for
what a call can answer) and `RsaKeyStore` (by EXTENDS, for the RSA test, whose
calls are that module's actions on the same slots). A test other than RSA's is one step
that adds its verdict to `report`. Comparing with a known answer holds or not. Ghosts
count the faults of the device, note a wrong result and remember the slots found.
Between self tests the application begins, ends, makes and releases keys.

## 3. What the runs check

| run | instance | shows |
|---|---|---|
| `rsa_any_app` | 1 engine, 2 handles, 2 slots, 2 generated keys, 1 import | for any application: types, the library open exactly while started, nothing left in slots once stopped (residues included), ready slots whole, guard implies running backend, live keys kept, `KeyPool` implemented |
| `rsa_careful` | 2 engines, 3 handles, 2 slots | for a careful application: handles and live slots one to one with the right keys, `pub` matches the slot, "full" only when every slot is held; and the library and the erasure under two engines that share the singletons |
| `rsa_threads` | 3 threads, 2 slots, 3 generated keys, 1 import, lock around everything but export | no key is lost, shared or left without an owner at any step; an unlocked export gives the handle's own key; `KeyPool` implemented step by step |
| `hash_stream` | blocks of 4 and 6, length fields of 1 and 2, messages to 6 bytes in chunks to 5, 2 byte values | digests are those of the message under the context's variant; every call returns |
| `scratch_locked` | scratch 7, hash block 4, AES block 2, 2 threads, lengths on both sides of every boundary | one call at a time: the library is fed exactly the inputs, keys are those of the call, AES output is complete, no copy overruns, every call returns |
| `scratch_hmac_key` | 1 thread, key between scratch and limit | violation: the key is copied past the scratch |
| `aead_fits` | blocks of 2, keystream blocks of 2 and 3, 2 keys, 2 seals, input up to the buffer | open accepts exactly what was sealed and returns the plaintext, rejection writes nothing, keystream bytes are used once |
| `aead_long` | buffer one block smaller | violation: no tag is computed, and open's answer does not depend on the message |
| `api_dispatch` | 1 engine, every call and overload but low-level GCM, all argument classes | `supports()` is truthful (GCM included); no null pointer reaches a primitive; only bad arguments are refused |
| `cipher_modes` | blocks of 2, bytes of 4 values, buffers of 3 blocks, up to 3 calls | every prefix written is SP 800-38A's, no byte beyond it is touched, decryption gives the plaintext back, PKCS#7 is exact, AES-128 is FIPS-197's and its inverse |
| `soft_kdf` | digests of 2, blocks of 4, counter of 3 values, output to 10 bytes | HMAC is RFC 2104's; HKDF is RFC 5869's up to the wrap of the counter, its blocks never repeat, its loop ends |
| `self_test` | 1 engine, 2 slots, 2 application handles, up to 2 faults in a run | the documented counts on a device in order; a wrong result is never ok; slots and application keys are left as found |

**Bounds.** Two slots is the code's number; two handles (three for the careful
application, one more than the slots) are enough for a copy, a stale handle and a full pool; two
generated keys and one imported distinguish old and new occupants. Block and
buffer sizes are scaled down keeping their relations (length field shorter
than block; a scratch that is a multiple neither of the hash block nor of two
AES blocks, so that rounding down to them matters; a stack
buffer smaller than the scratch; limit above the scratch); lengths
include 0, one less, equal and one more for each boundary. Message contents use
bytes that look like padding. Initial counters are one step from a carry into the
first byte and from the wrap. HKDF is asked for more blocks than its counter
has values. Three cipher calls are an encryption, a decryption and a helper;
two faults in a self test are enough for one to hide another. `MaxKeys`,
`MaxLen`, `MaxChunk`, `MaxSeals`, `MaxCalls` and `MaxFaults` are the only bounds on
behaviour.

**Deadlock** is checked in every run: an application can always make a call.

**Fairness.** `hash_stream`, `soft_kdf` and `scratch_locked` use weak fairness of the
steps of a call that has started, per thread in the last. The code between entry
and return waits for nothing but the library and loops on its own data; on a CPU
that is not stopped it goes on. Nothing is assumed of the application.

## 4. What is proved

Each proof is of the specification of section 2, for every value of its
constants. It rests on the named ASSUMEs of the modules, which TLC evaluates on
the instances (sizes and ranges; `PowerAssumption`, powers of 256 being positive
numbers, which the provers have no arithmetic for; `PaddingAssumption`, a count of
padding bytes fitting a byte, as `pkcs7Pad` requires; `LocalAssumption`, the self
test's two handles being two), and on the hypotheses named here, which stand for
something the code leaves to its user; section 5 says what happens without them.

| module | theorem | hypothesis | property |
|---|---|---|---|
| `RsaKeyStoreProofs` | `TypeCorrect`, `LibraryStaysBalanced`, `StoppedMeansErased`, `ReadySlotsWhole`, `LiveKeysKept`, `KeyStoreImplementsKeyPool` | | any application |
| | `SingleEngineGuard` | one engine | `GuardedBackendRuns` |
| | `CarefulOwnership`, `CarefulCapacity`, `CarefulPublicHalf` | | careful application |
| | `SelfTestGivesBack`, `SelfTestEarnsOk` (of `SelfTest`) | | the report and the slots |
| | `SelfTestRunsOut` (of `SelfTest`) | | the self test ends |
| | `SelfTestCounts` (of `SelfTest`) | one engine | `DocumentedCounts` |
| `RsaSlotThreadsProofs` | `ThreadsTypeCorrect`, `ThreadsRunOut` | | every call ends, lock or none |
| | `KeysOwned`, `ExportsAreOwn`, `ThreadsKeyPool` | `LockCoversWriters` | the slots at every store |
| `StreamingHashProofs` | `HashTypeCorrect`, `DigestCorrect` | | digests |
| | `PassesRunOut` | | every call ends |
| `ScratchBounceProofs` | `CopiesAlwaysFit`, `CallsRunOut` | `KeysFit` | no overrun and every call ends, lock or none |
| | `OkMeansOwn` | `KeysFit`, `HkdfOneLong` | one call at a time |
| `SoftAeadProofs` | `GcmOpensSealed`, `KeystreamOnce`, `RejectedUntouched` | | AEAD |
| | `OpensSealed` | `EveryPacketFits` | both ciphers |
| `ApiDispatchProofs` | `NullNeverReaches` | no low-level GCM in `Apis` | dispatch |
| | `RefusesOnlyBad` | | |
| | `SupportsHonest` | `OneEngine` | |
| `CipherModesProofs` | `OnlyItsRange`, `ModesStandard`, `OpensPlaintext` | | AES modes |
| | `ModesRunOut` | | every call ends, Ok means all of it |
| | `PaddingExact` | | PKCS#7 |
| | `BlockDecrypts`, `BlockEncrypts`, `CipherInverse` (of `SoftAes128`) | | the block cipher |
| `SoftKdfProofs` | `MacStandard`, `OkmStandard`, `BlocksAllDiffer` | | HMAC and HKDF |
| | `HkdfRunsOut` | | every call ends, Ok means all of it |

**RsaKeyStore.** `SafetyInv` = type, whole ready slots, balanced library and erased
slots when stopped is inductive for `Spec`. Whole slots are needed for the type
of what signing returns; the balance of the library to follow `begin` through its
failures; erasure for the abstract pool being empty when closed. `CarefulInv` adds
`HandlesOwnSlots` and is inductive for `CarefulSpec`; `CarefulPublicHalf` adds that
`pub` is empty or the key made. The proofs are built on one lemma per call saying
what it may move (`UseKeyEffect`, `GenerateEffect`, `ImportEffect`,
`ReleaseEffect`, `BeginEffect`, `EndEffect`, `AppEffect`).

**RsaSlotThreads.** `LockCoversWriters`: generate, import, release, `begin` and `end`
are under the lock; export need not be. `SlotInv` says that at most one thread is
inside such a call (`OneWriter`), for each thread where it is and what it has
done to its slot so far (`CallShape`, `CallWork`), that the passes of `end()` leave
erased slots behind them (`EndsEmpty`), and that a handle's slot is whole, its own,
and no ready slot is without an owner. Ownership alone is not inductive: between
two stores a slot is half written, and what saves it is that its writer is the
only one. The refinement maps a slot to a free place as soon as its private part
is gone. What holds under any lock or none is `LooseInv`: the types, and which
operation, slot and key go with the place a call is at (`Shape`). `ThreadsTypeCorrect` and
`ThreadsRunOut` are proved from it.

**StreamingHash.** The property speaks only of delivered digests, so `HashInv` says
at each point which part of the padded message the hasher has: all of it between
calls, all but `rest` inside `update`, and inside `finish` the message, 0x80 and
`z` zeros with the padding loop not beyond its exit (`ZerosInv`: it has not wrapped
yet, or has wrapped once because it began too near the block's end).

**ScratchBounce.** `FitInv` bounds the next copy of every loop by the scratch
(offsets inside the input, `aesRun`'s chunk a multiple of the block,
`hashStreamed`'s of the hash block) and follows from the code alone but for
`KeysFit`, that long HMAC keys fit the scratch. `LockInv` adds that one call is inside
(`OneCall`) and its work so far: what was fed is the input up to the offset,
followed by `aesRun`'s zeros after the last byte only; the scratch holds the input
just copied; the key objects up to the current one were built by this call.
`HkdfOneLong`: at most one input of an HKDF call is too long for the stack.

**SoftAead.** `AeadInv` = types, every packet kept is what the cipher makes of its
plaintext, and the property itself. The lemmas are about the keystream (XOR twice is
the identity, distinct counters below the wrap give distinct bytes) and about
the padded MAC input determining associated data and ciphertext, which is the
point of the length block. `EveryPacketFits`: associated data, text, padding and
lengths fit the buffer of `aeadPoly1305`; GCM has no such limit.

**ApiDispatch.** `RefusesOnlyBad` and `NullNeverReaches` go through the argument
checks call by call. `SupportsHonest` needs `BackendRuns` (an engine's backend has
been started and not stopped), which is inductive for one engine; what `supports()`
says is right for any number of engines whose backends run
(`HonestWhileRunning`).

**CipherModes.** `ModeInv` = the call fits its buffers, a running call has a byte to go
(whole blocks, for CBC), the bytes are made of terms from one set closed under the
cipher (`Contents`, the type of a symbolic memory that nests), and the property.
A term made by decryption is of a block that is no encryption, so that `D` undoes
`E` on whatever the buffers hold (`DecryptsEncrypted`).

`ModesStandard` rests on `DecInv` and `RunInv`: whole blocks are done and each is the
standard's; the block chained on is the last ciphertext block, of the input as it
was before the call although the output may have replaced it; the counter stands
for the number of the next block. For CBC encryption the standard's recursive
definition is unfolded one block at a time (`ChainExists`, `ChainsAgree`,
`CbcUnfolds`). For CTR, `incrementCounter` on digits is shown to be + 1 on the number
(`WeightFacts`, `LastDigits`, `IncrementAdds`), and the counter to be the digits of
its number (`DigitsOfNumber`), for any byte size, across every carry and the wrap.

`OpensPlaintext` adds `SealInv`: of a buffer whose plaintext is known, each block
decrypts to the plaintext chained to the block before (`OpensBlock`), or each byte
is the plaintext's under the keystream. It must hold of the buffers as they were
when the call began too, because that is what is decrypted. `PaddingExact` is
inductive by itself: the calls are taken apart in `PadIs` and `UnpadIs`.

**SoftAes128.** `BlockDecrypts` says, for every key and every block, that
`decryptBlock` undoes `encryptBlock`: what `CipherModes` takes for granted of `D`.
`BlockEncrypts` is the converse, `E` of `D`: by the first no two blocks have one
encryption, and there are finitely many blocks (`BlocksFinite`), so that every block is an
encryption. `CipherInverse` is the run's `DecryptUndoesEncrypt`, from these two
and the inverses of the steps. Each step is undone by its inverse: `addRoundKey` by itself
(`AddBack`); `shiftRows` place by place (`ShiftBack`); `subBytes` because the table has no
byte twice, which is shown by the inverse table written out (`TableBack`), and
because a byte and its number determine each other (`BitsOfValue`, `ValueOfBits`);
`mixColumns` because `xtime` is linear (`XtimeLinear`), so that the doubling of a mixed
byte is the mix of the doubled, and times 14, 11, 13 and 9 all but one byte cancel
(`MixCancels`, `ColumnBack`). The key schedule and the states of the rounds are
recursive functions: that they have a solution at all is `RecursionExists`, from
which the round keys are blocks (`RoundKeys`), and the decryption's states are the
encryption's, backward (`DecStatesAre`).

**SoftKdf.** `HmacIsStandard` goes through the two passes over one hasher.
`KdfInv` says that `okm` is made of the blocks of a run `f` of RFC 5869's recursion
(`Expanded`), cut off at `off`, junk behind. Blocks differ because a block
tells the string it is the MAC of, and so the block before it and the counter:
equal blocks would have equal predecessors, back to the first, which is made of a
shorter string.

**Induction over data.** The library's induction theorems take an operator, which no
installed prover instantiates. `SetInduction` states it for a set instead
(a set of naturals with 0 and closed under + 1 has them all) and is proved from the
least counterexample (`WFMin`, `NatLessThanWellFounded`). It is what carries the
recursive functions of HKDF, CBC, the weights of a counter and the rounds of AES.

**Calls come to an end.** `PassesRunOut`, `CallsRunOut`, `ThreadsRunOut`, `ModesRunOut`,
`HkdfRunsOut` and `SelfTestRunsOut` give each running call a natural number that every
step of it lowers: bytes to go for AES and HKDF (`BytesLeft`), for the others the
passes a loop still makes and, where a pass has several steps, the place within it
(`PassesLeft`, `StepsLeft`, `StepsAt`). Where threads interleave, no step of another thread raises it. It is bounded
below by the invariants, not by itself: that the padding loop of `finish` has not
gone past its exit (`ZerosInv`), that a chunk of `aesRun` or `hashStreamed` is never empty
(`FitInv`), that an AES call that runs has a byte to go. With it, Ok is shown to mean
that all of the output is there. What is left to fairness is that the next step is taken.

**SelfTest.** A step of the self test is a step of an application of `RsaKeyStore`
(`STStepIsNext`), so `SafetyInv` holds without new work. `STInv` adds: the
slots taken are those found taken, untouched, the one `key` or `again` holds, and
those a failed rsaGenerate left behind, which the report counts
(`SlotsAccounted`); what went wrong is in the report, or the next call but one will
put it there (`WrongCounts`: a rejected good signature is reported only after the
tampered one was tried); and, after the first test, an engine without a backend
has failed one. For the tests that are one step `ResultsSound` goes through their
verdicts. `SelfTestGivesBack` and `SelfTestEarnsOk` assume nothing of faults or engines.

`SelfTestCounts` ties the report to the place in the script: `CountInv` says that
while nothing has failed the report is what the tests behind add up to (`Before`),
in each of the four cases of the property, and that the RSA test goes beyond its
first call on a CC310 with a free slot only. What a test adds (`ResultsScore`)
follows from its verdict and from what the engine answers, which for a call of
`ApiDispatch` is never, or always, `Unsupported` or `NotStarted` (`CC310Works`,
`OnChipWorks`, `NoneAnswers`); what the steps of the RSA test answer, from the
effects of the calls of `RsaKeyStore` on a slot that is ready (`UseInOrder`). One
engine is needed for `GuardInv`, that the engine's backend runs: the `end()` of
another would stop it.

**Only model-checked**, and why:

* liveness under fairness (`CallReturns`, `CallsReturn`, `HkdfReturns`): fairness and
  ENABLED are out of the prover's reach. What is proved is the number that every step of
  a call lowers; that a step can and will be taken is TLC's part;
* `AesIsFips`: a computation with a table of 256 bytes and one example. Nothing in it is
  a parameter, so that TLC evaluates all of it, and the provers do not compute.

## 5. Findings

The violation runs, with the lines in `PROJECT.json`:

1. `hmacSha256` on the CC310 copies a key longer than the scratch past its end.
2. `SoftChaChaPoly` computes no tag when associated data and text exceed its 512-byte
   buffer, and reports success.

Other disagreements with the documentation that are visible in the model and
have no run of their own:

* `hkdfSha256` on the CC310 bounces `ikm`, `salt` and `info` to the same place
  (`CC310Backend.cpp` 330); with two long ones the derived key is that of other
  input, and the answer is Ok. `OkMeansOwnInput` holds in `scratch_locked` because
  `OneLongInput` has at most one input that does not fit the stack; it fails with
  `HkdfLens` = {<<5, 4, 1>>}.
* `g_scratch` is unprotected, while the documentation allows calls from the
  application's own threads (`docs/API_REFERENCE.md` 251;
  `docs/SOFTDEVICE_COEXISTENCE.md` 36 asks for the main thread): `OkMeansOwnInput`
  under `Spec` of `ScratchBounce` with two threads fails, both calls answering Ok.
  `LockedSpec` is the use that is right.
* The same line leaves the RSA slots open to two threads. `KeysStayOwned` fails in
  `RsaSlotThreads` when `Locked` is empty (both are given one slot), when it is only
  release, `begin` and `end`, and also when it is only making keys, `begin` and `end`:
  the second `ready = false` of `rsaFreeSlot` (`CC310Backend.cpp` 134) can hit a
  key made since the memset.
* A handle kept over the release of a copy, or over `end()`, silently uses the key
  that took over its slot, while `pub` holds the old public half
  (`CryptoTypes.h` 67-68): `PubIsSlotsPublicHalf` holds under `CarefulSpec` and
  fails under `Spec`.
* `aesGcmEncrypt` and `aesGcmDecrypt` check `key`, `iv` and `tag` only, so a null `in`,
  `out` or `aad` of positive length reaches the primitive (line 93):
  `NullReachesNoPrimitive` fails when `Apis` includes them.
* CBC decryption in place on OnChip is wrong from the second block on
  (`OnChipBackend.cpp` 117-118; line 560 leaves overlap to the backend):
  `OverlapsBadly` in `CipherModes`.
* `SoftHkdf` does not refuse more than 255 blocks, as the CC310 path does; its output
  then is not RFC 5869's, but no block repeats: `OkmIsStandard`, `BlocksDiffer`.
* `SelfTestReport::ok()` is `failed == 0`, and an `InternalError` in the CBC, CTR, AEAD
  encryption and curve tests counts as skipped, so a faulty device can be
  reported ok with fewer tests passed (`OkIsEarned` says what remains true). A failing
  CBC encryption gives one skip for two tests. The ECDSA test ignores the status
  of its hash.
* With both RSA slots in use the self test reports 20 passed and 1 failed on a
  device in order. When the export of a fresh key fails, the self test drops a
  live handle and the slot stays taken until `end()`: `DocumentedCounts`,
  `GivesSlotsBack`.
* `pkcs7Unpad` answers 0 for an invalid padding and for the padding of an empty
  message, and unlike `pkcs7Pad` does not check `blockSize`.
* `ed25519Sign` with `useSeed` does not fill `publicKey` of the message.
* `rsaGenerateKeyPair`, `rsaSignWithKeyPair` and `rsaExportSlotPub` return
  `InternalError` without `recordCrys` (`docs/API_REFERENCE.md` 1066-1068 reads
  `lastBackendError()` after it): `KeyGenFails`, `InstallKey`, `CC310Sign`.
* `rsaRelease` of a valid handle answers Ok on OnChip, where "all RSA APIs return
  Unsupported" (line 876): `DefaultRelease`.
* With two `CryptoEngine` objects, `end()` of one stops the backend of the other,
  whose `NC_GUARD` still lets calls through (`CryptoBackend.h` 18-19); the backend's
  own `started_` test then answers `NotStarted`, except in
  `rsaReleaseKeyPair`, which finds no ready slot.
* A null pointer to a stream's update is Ok and hashes nothing (line 93):
  `shaUpdate`.
* `aesCbcSeal`, `aesCbcOpen` and `aesCtrTransform` refuse an empty message with
  null pointers (`CryptoPackets.h` 6-7): `aesCbcSeal`, `aesCtrTransform` in
  `ApiDispatch`.
* `supports()` of two engines: `OnChipBackend::begin()` of the second stores the outcome
  of its ECB self test in the shared `started_` (`OnChipBackend.cpp`), so a failure
  there makes the first one's `supports()` say no of calls that still answer:
  `SupportsIsHonest` fails with two engines, as `GuardedBackendRuns` does.
* The streaming calls answer Ok and their capabilities are supported before
  `begin()` (line 203, `CryptoEngine.h` 56): `Streams`, `supports`.

## 6. What is not modelled, and the plan

Not modelled: the hash compression functions, ChaCha20, GHASH, Poly1305 and curve
arithmetic (pure functions of inputs beyond a model checker; kept symbolic);
timing and dead-store elimination, which is what `secureEqual` and `wipe` are for;
known-answer vectors; the vendored library, which is external, and the stub
compiled without it, whose calls cannot be reached because its `begin()` fails;
scripts, examples and host tests.

Every safety invariant and action property of the passing runs is proved but
`AesIsFips`. That one, FIPS-197's table and example, and the liveness of the calls under
fairness stay with TLC.
