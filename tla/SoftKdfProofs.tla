--------------------------- MODULE SoftKdfProofs ---------------------------
(***************************************************************************)
(* Proofs about SoftKdf, for keys, messages, salts, infos and outputs of   *)
(* any length, and digests, hash blocks and block counters of any size.    *)
(***************************************************************************)
EXTENDS SoftKdf, SequenceTheorems, WellFoundedInduction, TLAPS

\* Bytes are terms of any depth: a string is a sequence of some set of them
IsString(s) == \E S : s \in Seq(S)

\* The i-th block of RFC 5869, from the block before it
StepOf(prk, info, t, i) == HMAC(prk, t \o info \o <<<<"count", i>>>>)

\* The constants.
LEMMA Sizes ==
  /\ HashLen \in Nat \ {0} /\ BlockLen \in Nat /\ HashLen <= BlockLen
  /\ CounterMod \in Nat /\ CounterMod >= 2 /\ OkmCap \in Nat
  /\ KeyLens \subseteq Nat /\ MsgLens \subseteq Nat /\ OkmLens \subseteq 0..OkmCap
  BY SizeAssumption, LenAssumption

\* One string after another, as an operator the provers do not look into
Join(s, t) == s \o t

\* One string after another.
LEMMA JoinFacts ==
  ASSUME NEW s, IsString(s), NEW t, IsString(t)
  PROVE  /\ IsString(Join(s, t)) /\ Len(s) \in Nat /\ Len(t) \in Nat
         /\ Len(Join(s, t)) = Len(s) + Len(t)
         /\ \A i \in 1..Len(s) : Join(s, t)[i] = s[i]
         /\ \A i \in 1..Len(t) : Join(s, t)[Len(s) + i] = t[i]
  <1>1. PICK S, U : s \in Seq(S) /\ t \in Seq(U)
    BY DEF IsString
  <1>2. PICK A : A = S \cup U
    OBVIOUS
  <1>3. s \in Seq(A) /\ t \in Seq(A)
    BY <1>1, <1>2, SeqMonotonic
  <1>4. s \o t \in Seq(A)
    BY <1>3, ConcatProperties
  <1>5. Len(s) \in Nat /\ Len(t) \in Nat /\ Len(s \o t) = Len(s) + Len(t)
    BY <1>3
  <1>6. \A i \in 1..Len(s) : (s \o t)[i] = s[i]
    BY <1>3
  <1>7. \A i \in 1..Len(t) : (s \o t)[Len(s) + i] = t[i]
    BY <1>3
  <1> QED BY <1>4, <1>5, <1>6, <1>7 DEF IsString, Join

\* Joining is associative.
LEMMA JoinAssociative ==
  ASSUME NEW s, IsString(s), NEW t, IsString(t), NEW u, IsString(u)
  PROVE  Join(Join(s, t), u) = Join(s, Join(t, u))
  <1>1. PICK S, P, Q : s \in Seq(S) /\ t \in Seq(P) /\ u \in Seq(Q)
    BY DEF IsString
  <1>2. PICK A : A = S \cup P \cup Q
    OBVIOUS
  <1>3. s \in Seq(A) /\ t \in Seq(A) /\ u \in Seq(A)
    BY <1>1, <1>2, SeqMonotonic
  <1>4. (s \o t) \o u = s \o (t \o u)
    BY <1>3, ConcatAssociative
  <1> QED BY <1>4 DEF Join

\* A fresh hasher holds nothing.
LEMMA JoinEmpty ==
  ASSUME NEW s, IsString(s)
  PROVE  Join(<<>>, s) = s
  BY ConcatEmptySeq DEF IsString, Join

\* Strings of the same length and bytes are the same.
LEMMA SameString ==
  ASSUME NEW s, IsString(s), NEW t, IsString(t), Len(s) = Len(t),
         \A i \in 1..Len(s) : s[i] = t[i]
  PROVE  s = t
  <1>1. PICK S, U : s \in Seq(S) /\ t \in Seq(U)
    BY DEF IsString
  <1>2. PICK A : A = S \cup U
    OBVIOUS
  <1>3. s \in Seq(A) /\ t \in Seq(A)
    BY <1>1, <1>2, SeqMonotonic
  <1> QED BY <1>3, SeqEqual

\* Two equal strings have the same first part of the same length, and the same rest.
LEMMA JoinInjective ==
  ASSUME NEW s, IsString(s), NEW t, IsString(t), NEW u, IsString(u), NEW v, IsString(v)
  PROVE  Len(s) = Len(u) /\ Join(s, t) = Join(u, v) => s = u /\ t = v
  <1>1. /\ Len(s) \in Nat /\ Len(t) \in Nat /\ Len(Join(s, t)) = Len(s) + Len(t)
        /\ \A i \in 1..Len(s) : Join(s, t)[i] = s[i]
        /\ \A i \in 1..Len(t) : Join(s, t)[Len(s) + i] = t[i]
    BY JoinFacts
  <1>2. /\ Len(v) \in Nat /\ Len(Join(u, v)) = Len(u) + Len(v)
        /\ \A i \in 1..Len(u) : Join(u, v)[i] = u[i]
        /\ \A i \in 1..Len(v) : Join(u, v)[Len(u) + i] = v[i]
    BY JoinFacts
  <1>3. SUFFICES ASSUME Len(s) = Len(u), Join(s, t) = Join(u, v) PROVE s = u /\ t = v
    OBVIOUS
  <1>4. s = u
    BY <1>1, <1>2, <1>3, SameString
  <1>5. Len(t) = Len(v)
    BY <1>1, <1>2, <1>3
  <1>6. \A i \in 1..Len(t) : t[i] = v[i]
    BY <1>1, <1>2, <1>3, <1>5
  <1>7. t = v
    BY <1>5, <1>6, SameString
  <1> QED BY <1>4, <1>7

\* A string of n bytes.
LEMMA FunString ==
  ASSUME NEW n \in Nat, NEW s, NEW S, s \in [1..n -> S]
  PROVE  IsString(s) /\ Len(s) = n
  <1>1. s \in Seq(S)
    BY SeqDef
  <1>2. Len(s) = n
    BY LenProperties, <1>1
  <1> QED BY <1>1, <1>2 DEF IsString

\* A digest is a string of HashLen bytes, and tells what was hashed.
LEMMA DigestFacts ==
  ASSUME NEW h
  PROVE  /\ IsString(Digest(h)) /\ Len(Digest(h)) = HashLen
         /\ \A g : Digest(g) = Digest(h) => g = h
  <1>1. PICK S : S = {<<"H", j, h>> : j \in 1..HashLen}
    OBVIOUS
  <1>2. Digest(h) \in [1..HashLen -> S]
    BY <1>1 DEF Digest
  <1>3. ASSUME NEW g, Digest(g) = Digest(h) PROVE g = h
    <2>1. 1 \in 1..HashLen
      BY Sizes
    <2>2. Digest(g)[1] = <<"H", 1, g>> /\ Digest(h)[1] = <<"H", 1, h>>
      BY <2>1 DEF Digest
    <2> QED BY <1>3, <2>2
  <1>4. HashLen \in Nat
    BY Sizes
  <1> QED BY <1>2, <1>3, <1>4, FunString

\* A pad is a block.
LEMMA PadFacts ==
  ASSUME NEW p, NEW k0
  PROVE  IsString(Pad(p, k0)) /\ Len(Pad(p, k0)) = BlockLen
  <1>1. PICK S : S = {<<p, k0[i]>> : i \in 1..BlockLen}
    OBVIOUS
  <1>2. Pad(p, k0) \in [1..BlockLen -> S]
    BY <1>1 DEF Pad
  <1>3. BlockLen \in Nat
    BY Sizes
  <1> QED BY <1>2, <1>3, FunString

\* The bytes of a buffer, and zeros.
LEMMA BytesFacts ==
  ASSUME NEW b, NEW n \in Nat
  PROVE  /\ IsString(Bytes(b, n)) /\ Len(Bytes(b, n)) = n
         /\ IsString(Zeros(n)) /\ Len(Zeros(n)) = n
         /\ IsString(<<>>) /\ Len(<<>>) = 0 /\ Bytes(b, 0) = <<>>
         /\ Bytes(b, n) = <<>> <=> n = 0
  <1>1. PICK S : S = {<<b, i>> : i \in 1..n}
    OBVIOUS
  <1>2. Bytes(b, n) \in [1..n -> S]
    BY <1>1 DEF Bytes
  <1>3. Zeros(n) \in [1..n -> {<<"zero", 0>>}]
    BY DEF Zeros
  <1>4. IsString(Bytes(b, n)) /\ Len(Bytes(b, n)) = n
    BY <1>2, FunString
  <1>5. IsString(Zeros(n)) /\ Len(Zeros(n)) = n
    BY <1>3, FunString
  <1>6. IsString(<<>>) /\ Len(<<>>) = 0
    BY EmptySeq DEF IsString
  <1>7. Bytes(b, 0) = <<>>
    BY DEF Bytes
  <1> QED BY <1>4, <1>5, <1>6, <1>7

-----------------------------------------------------------------------------
(* HMAC *)

\* A MAC is a digest.
LEMMA HmacFacts ==
  ASSUME NEW key, NEW msg
  PROVE  IsString(HMAC(key, msg)) /\ Len(HMAC(key, msg)) = HashLen
  BY DigestFacts DEF HMAC

\* The software HMAC, with its one hasher, is RFC 2104's.
LEMMA HmacIsStandard ==
  ASSUME NEW key, NEW msg
  PROVE  hmacSha256(key, msg) = HMAC(key, msg)
  <1> DEFINE k0 == KeyBlock(key)
             ipad == Pad("ipad", k0)
             opad == Pad("opad", k0)
  <1>1. IsString(ipad) /\ IsString(opad)
    BY PadFacts
  <1>2. Join(<<>>, ipad) = ipad /\ Join(<<>>, opad) = opad
    BY <1>1, JoinEmpty
  <1> HIDE DEF ipad, opad, k0
  <1>3. hmacSha256(key, msg)
          = Digest(Join(Join(<<>>, opad), Digest(Join(Join(<<>>, ipad), msg))))
    BY DEF hmacSha256, update, AfterFinish, Fresh, k0, ipad, opad, Join
  <1>4. HMAC(key, msg) = Digest(Join(opad, Digest(Join(ipad, msg))))
    BY DEF HMAC, k0, ipad, opad, Join
  <1> QED BY <1>2, <1>3, <1>4

\* A MAC tells the string it is of.
LEMMA HmacInjective ==
  ASSUME NEW key, NEW s, IsString(s), NEW t, IsString(t), HMAC(key, s) = HMAC(key, t)
  PROVE  s = t
  <1> DEFINE k0 == KeyBlock(key)
             ipad == Pad("ipad", k0)
             opad == Pad("opad", k0)
  <1>1. IsString(ipad) /\ IsString(opad)
    BY PadFacts
  <1> HIDE DEF ipad, opad, k0
  <1>2. PICK c, d : c = Digest(Join(ipad, s)) /\ d = Digest(Join(ipad, t))
    OBVIOUS
  <1>3. Digest(Join(opad, c)) = Digest(Join(opad, d))
    BY <1>2 DEF HMAC, k0, ipad, opad, Join
  <1>4. Join(opad, c) = Join(opad, d)
    BY <1>3, DigestFacts
  <1>5. c = d
    BY <1>1, <1>2, <1>4, DigestFacts, JoinInjective
  <1>6. Join(ipad, s) = Join(ipad, t)
    BY <1>2, <1>5, DigestFacts
  <1> QED BY <1>1, <1>6, JoinInjective

\* A counter byte.
LEMMA CountFacts ==
  ASSUME NEW i
  PROVE  IsString(<<<<"count", i>>>>) /\ Len(<<<<"count", i>>>>) = 1
  <1>1. <<<<"count", i>>>> \in [1..1 -> {<<"count", i>>}]
    OBVIOUS
  <1> QED BY <1>1, FunString

\* hmacSha256Parts is HMAC of its parts, with a key no longer than a block.
LEMMA PartsAreHmac ==
  ASSUME NEW prk, Len(prk) = HashLen, NEW t, IsString(t), NEW info, IsString(info), NEW i
  PROVE  hmacSha256Parts(prk, t, info, i) = StepOf(prk, info, t, i)
  <1> DEFINE k0 == ZeroPadded(prk)
             ipad == Pad("ipad", k0)
             opad == Pad("opad", k0)
             count == <<<<"count", i>>>>
  <1>1. IsString(ipad) /\ IsString(opad) /\ IsString(count)
    BY PadFacts, CountFacts
  <1>2. KeyBlock(prk) = k0
    BY Sizes DEF KeyBlock
  <1>3. Join(<<>>, ipad) = ipad /\ Join(<<>>, opad) = opad
    BY <1>1, JoinEmpty
  <1> HIDE DEF ipad, opad, k0, count
  <1>4. hmacSha256Parts(prk, t, info, i)
          = Digest(Join(Join(<<>>, opad),
                        Digest(Join(Join(Join(Join(<<>>, ipad), t), info), count))))
    BY DEF hmacSha256Parts, update, Fresh, k0, ipad, opad, count, Join
  <1>5. StepOf(prk, info, t, i)
          = Digest(Join(opad, Digest(Join(ipad, Join(Join(t, info), count)))))
    BY <1>2 DEF StepOf, HMAC, k0, ipad, opad, count, Join
  <1>6. Join(Join(ipad, t), info) = Join(ipad, Join(t, info))
    BY <1>1, JoinAssociative
  <1>7. Join(Join(ipad, Join(t, info)), count) = Join(ipad, Join(Join(t, info), count))
    BY <1>1, JoinFacts, JoinAssociative
  <1> QED BY <1>3, <1>4, <1>5, <1>6, <1>7

\* A block is a digest, and tells the block before it.
LEMMA StepFacts ==
  ASSUME NEW prk, NEW info, IsString(info), NEW t, IsString(t), NEW i
  PROVE  /\ IsString(StepOf(prk, info, t, i)) /\ Len(StepOf(prk, info, t, i)) = HashLen
         /\ \A u, j : IsString(u) /\ StepOf(prk, info, t, i) = StepOf(prk, info, u, j) => t = u
  <1>1. ASSUME NEW u, NEW j, IsString(u), StepOf(prk, info, t, i) = StepOf(prk, info, u, j)
        PROVE  t = u
    <2> DEFINE ci == <<<<"count", i>>>>
               cj == <<<<"count", j>>>>
    <2>1. IsString(ci) /\ Len(ci) = 1 /\ IsString(cj) /\ Len(cj) = 1
      BY CountFacts
    <2>2. StepOf(prk, info, t, i) = HMAC(prk, Join(Join(t, info), ci))
      BY DEF StepOf, Join
    <2>3. StepOf(prk, info, u, j) = HMAC(prk, Join(Join(u, info), cj))
      BY DEF StepOf, Join
    <2> HIDE DEF ci, cj
    <2>4. /\ IsString(Join(t, info)) /\ Len(Join(t, info)) = Len(t) + Len(info)
          /\ Len(t) \in Nat /\ Len(info) \in Nat
      BY JoinFacts
    <2>5. /\ IsString(Join(u, info)) /\ Len(Join(u, info)) = Len(u) + Len(info)
          /\ Len(u) \in Nat
      BY <1>1, JoinFacts
    <2>6. /\ IsString(Join(Join(t, info), ci))
          /\ Len(Join(Join(t, info), ci)) = Len(Join(t, info)) + Len(ci)
      BY <2>1, <2>4, JoinFacts
    <2>7. /\ IsString(Join(Join(u, info), cj))
          /\ Len(Join(Join(u, info), cj)) = Len(Join(u, info)) + Len(cj)
      BY <2>1, <2>5, JoinFacts
    <2>8. Join(Join(t, info), ci) = Join(Join(u, info), cj)
      BY <1>1, <2>2, <2>3, <2>6, <2>7, HmacInjective
    <2>9. Len(Join(t, info)) = Len(Join(u, info)) /\ Len(t) = Len(u)
      BY <2>1, <2>4, <2>5, <2>6, <2>7, <2>8
    <2>10. Join(t, info) = Join(u, info)
      BY <2>1, <2>4, <2>5, <2>8, <2>9, JoinInjective
    <2> QED BY <1>1, <2>9, <2>10, JoinInjective
  <1>2. IsString(StepOf(prk, info, t, i)) /\ Len(StepOf(prk, info, t, i)) = HashLen
    BY HmacFacts DEF StepOf
  <1> QED BY <1>1, <1>2

-----------------------------------------------------------------------------
(* RFC 5869's blocks: the recursive function T is defined for every n *)

\* Induction over the natural numbers, for a set of them.
LEMMA SetInduction ==
  ASSUME NEW S, 0 \in S, \A n \in Nat : n \in S => n + 1 \in S
  PROVE  Nat \subseteq S
  <1> DEFINE R == OpToRel(<, Nat)
             rest == Nat \ S
  <1>1. \A m, n \in Nat : m < n => <<m, n>> \in R
    BY DEF OpToRel
  <1>2. IsWellFoundedOn(R, Nat)
    BY NatLessThanWellFounded
  <1> HIDE DEF R
  <1>3. ASSUME rest # {} PROVE FALSE
    <2>1. PICK x \in rest : \A y \in rest : ~(<<y, x>> \in R)
      BY <1>2, <1>3, WFMin, Zenon
    <2>2. x \in Nat /\ x # 0
      OBVIOUS
    <2>3. x - 1 \in Nat /\ (x - 1) + 1 = x /\ x - 1 < x
      BY <2>2
    <2>4. x - 1 \in rest
      BY <2>2, <2>3
    <2> QED BY <1>1, <2>1, <2>2, <2>3, <2>4
  <1> QED BY <1>3

\* f is the function T is defined by
IsChain(f, prk, info, n) ==
  f = [i \in 0..n |-> IF i = 0 THEN <<>> ELSE StepOf(prk, info, f[i - 1], i)]

\* What T stands for.
LEMMA TIs ==
  ASSUME NEW prk, NEW info, NEW n
  PROVE  T(prk, info, n) = (CHOOSE f : IsChain(f, prk, info, n))[n]
  BY DEF T, IsChain, StepOf

\* A chain and one block more.
LEMMA ChainGrows ==
  ASSUME NEW prk, NEW info, NEW n \in Nat, NEW f, IsChain(f, prk, info, n)
  PROVE  \E g : IsChain(g, prk, info, n + 1) /\ \A i \in 0..n : g[i] = f[i]
  <1> DEFINE g == [i \in 0..n + 1 |-> IF i <= n THEN f[i] ELSE StepOf(prk, info, f[n], n + 1)]
  <1>1. \A i \in 0..n : f[i] = IF i = 0 THEN <<>> ELSE StepOf(prk, info, f[i - 1], i)
    BY DEF IsChain
  <1>2. \A i \in 0..n + 1 : g[i] = IF i = 0 THEN <<>> ELSE StepOf(prk, info, g[i - 1], i)
    <2> TAKE i \in 0..n + 1
    <2>1. CASE i <= n
      <3>1. i \in 0..n /\ (i # 0 => i - 1 \in 0..n /\ i - 1 <= n /\ i - 1 \in 0..n + 1)
        BY <2>1
      <3>2. g[i] = f[i] /\ (i # 0 => g[i - 1] = f[i - 1])
        BY <3>1
      <3> HIDE DEF g
      <3> QED BY <1>1, <3>1, <3>2
    <2>2. CASE ~(i <= n)
      <3>1. i = n + 1 /\ n \in 0..n + 1 /\ i # 0 /\ i - 1 = n
        BY <2>2
      <3>2. g[i] = StepOf(prk, info, f[n], i) /\ g[n] = f[n]
        BY <2>2, <3>1
      <3> HIDE DEF g
      <3> QED BY <3>1, <3>2
    <2> QED BY <2>1, <2>2
  <1>3. g = [i \in 0..n + 1 |-> g[i]]
    OBVIOUS
  <1>4. \A i \in 0..n : g[i] = f[i]
    OBVIOUS
  <1> HIDE DEF g
  <1>5. IsChain(g, prk, info, n + 1)
    BY <1>2, <1>3 DEF IsChain
  <1> QED BY <1>4, <1>5

\* There is a chain of every length.
LEMMA ChainExists ==
  ASSUME NEW prk, NEW info
  PROVE  \A n \in Nat : \E f : IsChain(f, prk, info, n)
  <1> DEFINE S == {n \in Nat : \E f : IsChain(f, prk, info, n)}
  <1>1. 0 \in S
    <2>1. \A i \in 0..0 : i = 0
      OBVIOUS
    <2>2. PICK f : f = [i \in 0..0 |-> <<>>]
      OBVIOUS
    <2>3. [i \in 0..0 |-> <<>>]
            = [i \in 0..0 |-> IF i = 0 THEN <<>> ELSE StepOf(prk, info, f[i - 1], i)]
      BY <2>1
    <2>4. IsChain(f, prk, info, 0)
      BY <2>2, <2>3 DEF IsChain
    <2> QED BY <2>4
  <1>2. \A n \in Nat : n \in S => n + 1 \in S
    BY ChainGrows
  <1> HIDE DEF S
  <1>3. Nat \subseteq S
    BY <1>1, <1>2, SetInduction
  <1> QED BY <1>3 DEF S

\* Two chains agree as far as both go.
LEMMA ChainsAgree ==
  ASSUME NEW prk, NEW info, NEW m \in Nat, NEW n \in Nat,
         NEW f, IsChain(f, prk, info, m), NEW g, IsChain(g, prk, info, n)
  PROVE  \A i \in Nat : i <= m /\ i <= n => f[i] = g[i]
  <1> DEFINE S == {i \in Nat : i <= m /\ i <= n => f[i] = g[i]}
  <1>1. \A i \in 0..m : f[i] = IF i = 0 THEN <<>> ELSE StepOf(prk, info, f[i - 1], i)
    BY DEF IsChain
  <1>2. \A i \in 0..n : g[i] = IF i = 0 THEN <<>> ELSE StepOf(prk, info, g[i - 1], i)
    BY DEF IsChain
  <1>3. 0 \in S
    BY <1>1, <1>2
  <1>4. ASSUME NEW i \in Nat, i \in S PROVE i + 1 \in S
    <2> SUFFICES ASSUME i + 1 <= m, i + 1 <= n PROVE f[i + 1] = g[i + 1]
      OBVIOUS
    <2>1. f[i] = g[i]
      BY <1>4
    <2>2. i + 1 \in 0..m /\ i + 1 \in 0..n /\ i + 1 # 0 /\ (i + 1) - 1 = i
      OBVIOUS
    <2>3. f[i + 1] = StepOf(prk, info, f[i], i + 1)
      BY <1>1, <2>2
    <2>4. g[i + 1] = StepOf(prk, info, g[i], i + 1)
      BY <1>2, <2>2
    <2> QED BY <2>1, <2>3, <2>4
  <1> HIDE DEF S
  <1>5. Nat \subseteq S
    BY <1>3, <1>4, SetInduction
  <1> QED BY <1>5 DEF S

\* RFC 5869's blocks: T(0) is empty, and each block is made from the one before.
LEMMA TUnfolds ==
  ASSUME NEW prk, NEW info
  PROVE  /\ T(prk, info, 0) = <<>>
         /\ \A n \in Nat : T(prk, info, n + 1) = StepOf(prk, info, T(prk, info, n), n + 1)
  <1>1. \A n \in Nat : \E f : IsChain(f, prk, info, n) /\ T(prk, info, n) = f[n]
    <2> TAKE n \in Nat
    <2>1. PICK f : f = CHOOSE h : IsChain(h, prk, info, n)
      OBVIOUS
    <2>2. \E h : IsChain(h, prk, info, n)
      BY ChainExists
    <2>3. IsChain(f, prk, info, n)
      BY <2>1, <2>2
    <2>4. T(prk, info, n) = f[n]
      BY <2>1, TIs
    <2> QED BY <2>3, <2>4
  <1>2. T(prk, info, 0) = <<>>
    <2>1. PICK f : IsChain(f, prk, info, 0) /\ T(prk, info, 0) = f[0]
      BY <1>1
    <2> QED BY <2>1 DEF IsChain
  <1>3. ASSUME NEW n \in Nat
        PROVE  T(prk, info, n + 1) = StepOf(prk, info, T(prk, info, n), n + 1)
    <2>1. PICK f : IsChain(f, prk, info, n) /\ T(prk, info, n) = f[n]
      BY <1>1
    <2>2. PICK g : IsChain(g, prk, info, n + 1) /\ T(prk, info, n + 1) = g[n + 1]
      BY <1>1
    <2>3. f[n] = g[n]
      BY <2>1, <2>2, ChainsAgree
    <2>4. n + 1 \in 0..n + 1 /\ n + 1 # 0 /\ (n + 1) - 1 = n
      OBVIOUS
    <2>5. g[n + 1] = StepOf(prk, info, g[n], n + 1)
      BY <2>2, <2>4 DEF IsChain
    <2> QED BY <2>1, <2>2, <2>3, <2>5
  <1> QED BY <1>2, <1>3

-----------------------------------------------------------------------------
(* The blocks of one expansion *)

\* The blocks the loop makes, with its counter of one byte; f[0] is the empty
\* string before the first
IsRun(f, prk, info, n) ==
  /\ f[0] = <<>>
  /\ \A k \in 1..n : f[k] = StepOf(prk, info, f[k - 1], k % CounterMod)

\* Every block is a digest.
LEMMA RunStrings ==
  ASSUME NEW f, NEW prk, NEW info, NEW n \in Nat, IsRun(f, prk, info, n)
  PROVE  \A k \in 0..n : IsString(f[k]) /\ Len(f[k]) = IF k = 0 THEN 0 ELSE HashLen
  <1> TAKE k \in 0..n
  <1>1. CASE k = 0
    BY <1>1, BytesFacts DEF IsRun
  <1>2. CASE k # 0
    <2>1. f[k] = StepOf(prk, info, f[k - 1], k % CounterMod)
      BY <1>2 DEF IsRun
    <2> QED BY <1>2, <2>1, HmacFacts DEF StepOf
  <1> QED BY <1>1, <1>2

\* No block is like an earlier one: the blocks before them would be alike, and so
\* on to the first, before which there is nothing.
LEMMA RunDiffers ==
  ASSUME NEW f, NEW prk, NEW info, IsString(info), NEW n \in Nat, IsRun(f, prk, info, n)
  PROVE  \A j, k \in 0..n : j < k => f[j] # f[k]
  <1> DEFINE S == {j \in Nat : \A k \in 0..n : j < k => f[j] # f[k]}
  <1>1. \A k \in 0..n : IsString(f[k]) /\ Len(f[k]) = IF k = 0 THEN 0 ELSE HashLen
    BY RunStrings
  <1>2. 0 \in S
    <2> SUFFICES ASSUME NEW k \in 0..n, 0 < k PROVE f[0] # f[k]
      OBVIOUS
    <2>1. Len(f[0]) = 0 /\ Len(f[k]) = HashLen /\ HashLen # 0
      BY <1>1, Sizes
    <2> QED BY <2>1
  <1>3. ASSUME NEW j \in Nat, j \in S PROVE j + 1 \in S
    <2> SUFFICES ASSUME NEW k \in 0..n, j + 1 < k PROVE f[j + 1] # f[k]
      OBVIOUS
    <2>1. /\ j + 1 \in 1..n /\ (j + 1) - 1 = j /\ j \in 0..n
          /\ k \in 1..n /\ k - 1 \in 0..n /\ j < k - 1
      OBVIOUS
    <2>2. f[j] # f[k - 1] /\ IsString(f[j]) /\ IsString(f[k - 1])
      BY <1>1, <1>3, <2>1
    <2>3. f[j + 1] = StepOf(prk, info, f[j], (j + 1) % CounterMod)
      BY <2>1 DEF IsRun
    <2>4. f[k] = StepOf(prk, info, f[k - 1], k % CounterMod)
      BY <2>1 DEF IsRun
    <2> QED BY <2>2, <2>3, <2>4, StepFacts
  <1> HIDE DEF S
  <1>4. Nat \subseteq S
    BY <1>2, <1>3, SetInduction
  <1> QED BY <1>4 DEF S

\* Until the counter wraps the blocks are RFC 5869's.
LEMMA RunIsStandard ==
  ASSUME NEW f, NEW prk, NEW info, NEW n \in Nat, IsRun(f, prk, info, n)
  PROVE  \A k \in 0..n : k < CounterMod => f[k] = T(prk, info, k)
  <1> DEFINE S == {k \in Nat : k <= n /\ k < CounterMod => f[k] = T(prk, info, k)}
  <1>1. 0 \in S
    BY TUnfolds DEF IsRun
  <1>2. ASSUME NEW k \in Nat, k \in S PROVE k + 1 \in S
    <2> SUFFICES ASSUME k + 1 <= n, k + 1 < CounterMod PROVE f[k + 1] = T(prk, info, k + 1)
      OBVIOUS
    <2>1. f[k] = T(prk, info, k)
      BY <1>2, Sizes
    <2>2. k + 1 \in 1..n /\ (k + 1) - 1 = k /\ (k + 1) % CounterMod = k + 1
      BY Sizes
    <2>3. f[k + 1] = StepOf(prk, info, f[k], k + 1)
      BY <2>2 DEF IsRun
    <2>4. T(prk, info, k + 1) = StepOf(prk, info, T(prk, info, k), k + 1)
      BY TUnfolds
    <2> QED BY <2>1, <2>3, <2>4
  <1> HIDE DEF S
  <1>3. Nat \subseteq S
    BY <1>1, <1>2, SetInduction
  <1> QED BY <1>3 DEF S

\* One block more.
LEMMA RunGrows ==
  ASSUME NEW f, NEW prk, NEW info, NEW n \in Nat, IsRun(f, prk, info, n)
  PROVE  \E g : /\ IsRun(g, prk, info, n + 1)
                /\ \A k \in 0..n : g[k] = f[k]
                /\ g[n + 1] = StepOf(prk, info, f[n], (n + 1) % CounterMod)
  <1> DEFINE new == StepOf(prk, info, f[n], (n + 1) % CounterMod)
             g == [k \in 0..n + 1 |-> IF k <= n THEN f[k] ELSE new]
  <1>1. \A k \in 0..n : g[k] = f[k]
    OBVIOUS
  <1>2. g[n + 1] = new
    OBVIOUS
  <1> HIDE DEF g
  <1>3. g[0] = <<>>
    BY <1>1 DEF IsRun
  <1>4. \A k \in 1..n + 1 : g[k] = StepOf(prk, info, g[k - 1], k % CounterMod)
    <2> TAKE k \in 1..n + 1
    <2>1. CASE k <= n
      <3>1. k \in 1..n /\ k \in 0..n /\ k - 1 \in 0..n
        BY <2>1
      <3>2. f[k] = StepOf(prk, info, f[k - 1], k % CounterMod)
        BY <3>1 DEF IsRun
      <3> HIDE DEF new
      <3> QED BY <1>1, <3>1, <3>2
    <2>2. CASE k = n + 1
      <3>1. k - 1 = n /\ n \in 0..n
        BY <2>2
      <3>2. g[n] = f[n]
        BY <1>1, <3>1
      <3> QED BY <1>2, <2>2, <3>1, <3>2
    <2> QED BY <2>1, <2>2
  <1> HIDE DEF new
  <1>5. IsRun(g, prk, info, n + 1)
    BY <1>3, <1>4 DEF IsRun
  <1> QED BY <1>1, <1>2, <1>5 DEF new

-----------------------------------------------------------------------------
(* Numbers *)

\* Multiples of the length of a digest.
LEMMA Multiples ==
  ASSUME NEW m \in Nat, NEW n \in Nat
  PROVE  /\ m * HashLen \in Nat /\ (m + 1) * HashLen = m * HashLen + HashLen
         /\ m <= n => m * HashLen <= n * HashLen
         /\ m < n => m * HashLen + HashLen <= n * HashLen
  <1>1. PICK h \in Nat \ {0} : h = HashLen
    BY Sizes
  <1>2. m * h \in Nat /\ (m + 1) * h = m * h + h
    OBVIOUS
  <1>3. ASSUME m <= n PROVE m * h <= n * h
    <2>1. PICK d \in Nat : n = m + d
      BY <1>3
    <2>2. n * h = m * h + d * h /\ d * h >= 0
      BY <2>1
    <2> QED BY <2>2
  <1>4. ASSUME m < n PROVE m * h + h <= n * h
    <2>1. PICK d \in Nat : n = (m + 1) + d
      <3>1. n - (m + 1) \in Nat /\ n = (m + 1) + (n - (m + 1))
        BY <1>4
      <3> QED BY <3>1
    <2>2. n * h = (m * h + h) + d * h /\ d * h >= 0
      BY <2>1
    <2> QED BY <2>2
  <1> QED BY <1>1, <1>2, <1>3, <1>4

\* The block a byte of the output is in.
LEMMA PlaceFacts ==
  ASSUME NEW i \in Nat \ {0}
  PROVE  \E q \in Nat : /\ q = (i - 1) \div HashLen
                        /\ q * HashLen < i /\ i <= q * HashLen + HashLen
  <1>1. PICK h \in Nat \ {0} : h = HashLen
    BY Sizes
  <1>2. PICK a \in Nat : a = i - 1
    OBVIOUS
  <1>3. a \div h \in Nat /\ (a % h) \in 0 .. h - 1 /\ (a \div h) * h + (a % h) = a
    OBVIOUS
  <1> QED BY <1>1, <1>2, <1>3

\* Of two quotients with remainder, neither is larger.
LEMMA QuotientLeq ==
  ASSUME NEW m \in Nat \ {0}, NEW p \in Nat, NEW q \in Nat,
         NEW r \in 0 .. m - 1, NEW s \in 0 .. m - 1, p * m + r = q * m + s
  PROVE  ~(p < q)
  <1> SUFFICES ASSUME p < q PROVE FALSE
    OBVIOUS
  <1>1. PICK d \in Nat : q = (p + 1) + d
    <2>1. q - (p + 1) \in Nat /\ q = (p + 1) + (q - (p + 1))
      OBVIOUS
    <2> QED BY <2>1
  <1>2. q * m = p * m + m + d * m /\ d * m >= 0 /\ p * m \in Nat
    BY <1>1
  <1> QED BY <1>2

\* A number is its quotient and its remainder only.
LEMMA RemainderIs ==
  ASSUME NEW m \in Nat \ {0}, NEW q \in Nat, NEW r \in 0 .. m - 1,
         NEW a \in Nat, a = q * m + r
  PROVE  a % m = r
  <1>1. PICK p \in Nat, s \in 0 .. m - 1 : s = a % m /\ a = p * m + s
    OBVIOUS
  <1>2. p * m + s = q * m + r /\ q * m + r = p * m + s
    BY <1>1
  <1>3. p = q
    BY <1>2, QuotientLeq
  <1> QED BY <1>1, <1>2, <1>3

\* The counter of the next block.
LEMMA NextCounter ==
  ASSUME NEW n \in Nat
  PROVE  ((n % CounterMod) + 1) % CounterMod = (n + 1) % CounterMod
  <1>1. PICK m \in Nat \ {0, 1} : m = CounterMod
    BY Sizes
  <1>2. PICK q \in Nat, r \in 0 .. m - 1 : r = n % m /\ n = q * m + r
    OBVIOUS
  <1>3. CASE r + 1 < m
    <2>1. PICK a \in Nat, b \in 0 .. m - 1 : a = n + 1 /\ b = r + 1
      BY <1>3
    <2>2. a = q * m + b
      BY <1>2, <2>1
    <2>3. a % m = b
      BY <2>2, RemainderIs
    <2>4. b % m = b
      OBVIOUS
    <2> QED BY <1>1, <1>2, <2>1, <2>3, <2>4
  <1>4. CASE r + 1 = m
    <2>1. PICK a \in Nat, p \in Nat, b \in 0 .. m - 1 : a = n + 1 /\ p = q + 1 /\ b = 0
      OBVIOUS
    <2>2. a = p * m + b
      BY <1>2, <1>4, <2>1
    <2>3. a % m = b
      BY <2>2, RemainderIs
    <2>4. m % m = 0
      OBVIOUS
    <2> QED BY <1>1, <1>2, <1>4, <2>1, <2>3, <2>4
  <1> QED BY <1>2, <1>3, <1>4

-----------------------------------------------------------------------------
(* The inductive invariant *)

Fields == {"op", "st", "key", "msg", "mac", "ikm", "salt", "info", "len", "prk",
           "t", "off", "counter", "okm"}

\* n blocks were made, the strings f[1] to f[n]
Expanded(f, n) ==
  /\ IsRun(f, call.prk, call.info, n) /\ call.t = f[n]
  /\ IsString(call.info) /\ Len(call.prk) = HashLen /\ call.prk = PRK(call)
  /\ call.len \in 0..OkmCap /\ call.off \in 0..call.len
  /\ call.off <= n * HashLen /\ (call.off < call.len => call.off = n * HashLen)
  /\ \A k \in Nat : k < n => k * HashLen < call.off
  /\ call.counter = (n + 1) % CounterMod
  /\ \A i \in 1..OkmCap : call.off < i => call.okm[i] = Junk
  /\ \A k \in Nat, i \in 1..OkmCap :
       k < n /\ i <= call.off /\ k * HashLen < i /\ i <= k * HashLen + HashLen =>
         call.okm[i] = f[k + 1][i - k * HashLen]

KdfInv ==
  /\ Fields \subseteq DOMAIN call
  /\ MacIsStandard
  /\ call.st = "running" => call.op = "hkdf"
  /\ call.op = "hkdf" => \E n \in Nat : \E f : Expanded(f, n)

\* A call of HKDF has made no block when it begins.
LEMMA HkdfBegins ==
  ASSUME NEW k \in Nat, NEW s \in Nat, NEW n \in Nat, NEW len \in OkmLens, Hkdf(k, s, n, len)
  PROVE  KdfInv'
  <1> DEFINE ikm == Bytes("ikm", k)
             salt == Bytes("salt", s)
             info == Bytes("info", n)
             prk == hmacSha256(IF s = 0 THEN Zeros(HashLen) ELSE salt, ikm)
  <1>1. IsString(info) /\ (salt = <<>> <=> s = 0)
    BY BytesFacts
  <1>2. prk = HMAC(IF s = 0 THEN Zeros(HashLen) ELSE salt, ikm)
    BY HmacIsStandard
  <1>3. Len(prk) = HashLen
    BY <1>2, HmacFacts
  <1> HIDE DEF ikm, salt, info, prk
  <1>4. /\ Fields \subseteq DOMAIN call' /\ call'.op = "hkdf" /\ call'.t = <<>>
        /\ call'.off = 0 /\ call'.counter = 1 /\ call'.len = len
        /\ call'.okm = [i \in 1..OkmCap |-> Junk]
        /\ call'.ikm = ikm /\ call'.salt = salt /\ call'.info = info /\ call'.prk = prk
    BY DEF Hkdf, NoCall, Fields, ikm, salt, info, prk
  <1>5. PRK(call') = prk
    BY <1>1, <1>2, <1>4 DEF PRK
  <1>6. PICK f : f = [i \in 0..0 |-> <<>>]
    OBVIOUS
  <1>7. IsRun(f, prk, info, 0) /\ f[0] = <<>>
    BY <1>6 DEF IsRun
  <1>8. 0 * HashLen = 0 /\ 1 % CounterMod = 1 /\ len \in 0..OkmCap
    BY Sizes
  <1>9. Expanded(f, 0)'
    BY <1>1, <1>3, <1>4, <1>5, <1>7, <1>8, Sizes DEF Expanded
  <1>10. MacIsStandard'
    BY <1>4 DEF MacIsStandard
  <1> QED BY <1>4, <1>9, <1>10 DEF KdfInv

\* A call of HMAC is over at once.
LEMMA HmacKeeps ==
  ASSUME NEW k \in Nat, NEW m \in Nat, Hmac(k, m)
  PROVE  KdfInv'
  <1> DEFINE key == Bytes("key", k)
             msg == Bytes("msg", m)
  <1>1. /\ Fields \subseteq DOMAIN call' /\ call'.op = "hmac" /\ call'.st = "Ok"
        /\ call'.key = key /\ call'.msg = msg /\ call'.mac = hmacSha256(key, msg)
    BY DEF Hmac, NoCall, Fields
  <1> HIDE DEF key, msg
  <1>2. call'.mac = HMAC(call'.key, call'.msg)
    BY <1>1, HmacIsStandard
  <1> QED BY <1>1, <1>2 DEF KdfInv, MacIsStandard

\* One pass of the expansion.
LEMMA ExpandKeeps ==
  ASSUME KdfInv, call.op = "hkdf", Expand
  PROVE  KdfInv'
  <1>0. PICK n \in Nat : \E f : Expanded(f, n)
    BY DEF KdfInv
  <1>1. PICK f : Expanded(f, n)
    BY <1>0
  <1>2. PICK off \in Nat, len \in Nat, h \in Nat \ {0} :
          /\ off = call.off /\ len = call.len /\ h = HashLen
          /\ off < len /\ len <= OkmCap /\ off = n * h
    BY <1>1, Sizes DEF Expand, Expanded
  <1>3. PICK t, m : t = StepOf(call.prk, call.info, f[n], (n + 1) % CounterMod) /\ m = Take(call)
    OBVIOUS
  <1>4. m \in 1..h /\ off + m <= len /\ (off + m < len => m = h)
    <2>1. m = IF len - off > h THEN h ELSE len - off
      BY <1>2, <1>3 DEF Take
    <2> QED BY <1>2, <2>1
  <1>5. t = hmacSha256Parts(call.prk, Chained(call), call.info, call.counter)
    <2>1. IsString(f[n])
      BY <1>1, RunStrings DEF Expanded
    <2>2. /\ Chained(call) = f[n] /\ call.counter = (n + 1) % CounterMod
          /\ IsString(call.info) /\ Len(call.prk) = HashLen
      BY <1>1 DEF Expanded, Chained
    <2>3. PICK prk, info, prev, i :
            /\ prk = call.prk /\ info = call.info /\ prev = f[n]
            /\ i = (n + 1) % CounterMod
      OBVIOUS
    <2>4. hmacSha256Parts(prk, prev, info, i) = StepOf(prk, info, prev, i)
      <3>1. IsString(prev) /\ IsString(info) /\ Len(prk) = HashLen
        BY <2>1, <2>2, <2>3
      <3> QED BY <3>1, PartsAreHmac
    <2> QED BY <1>3, <2>2, <2>3, <2>4
  <1>6. call' = [call EXCEPT !.t = t, !.off = off + m,
                             !.counter = (call.counter + 1) % CounterMod,
                             !.okm = Copied(call, t, m)]
    BY <1>2, <1>3, <1>5 DEF Expand, Pass
  <1>7. /\ DOMAIN call' = DOMAIN call /\ call'.op = call.op
        /\ call'.ikm = call.ikm /\ call'.salt = call.salt /\ call'.info = call.info
        /\ call'.len = call.len /\ call'.prk = call.prk /\ call'.t = t /\ call'.off = off + m
        /\ call'.counter = (call.counter + 1) % CounterMod
        /\ call'.okm = Copied(call, t, m)
    BY <1>6 DEF KdfInv, Fields
  <1>8. PICK g : /\ IsRun(g, call.prk, call.info, n + 1)
                 /\ \A k \in 0..n : g[k] = f[k]
                 /\ g[n + 1] = t
    <2>1. PICK prk, info, i : prk = call.prk /\ info = call.info /\ i = (n + 1) % CounterMod
      OBVIOUS
    <2>2. IsRun(f, prk, info, n)
      BY <1>1, <2>1 DEF Expanded
    <2>3. t = StepOf(prk, info, f[n], i)
      BY <1>3, <2>1
    <2>4. \E g : /\ IsRun(g, prk, info, n + 1)
                 /\ \A k \in 0..n : g[k] = f[k]
                 /\ g[n + 1] = StepOf(prk, info, f[n], (n + 1) % CounterMod)
      BY <2>2, RunGrows
    <2> QED BY <2>1, <2>3, <2>4
  <1>9. \A i \in 1..OkmCap :
          call'.okm[i] = IF off < i /\ i <= off + m THEN t[i - off] ELSE call.okm[i]
    BY <1>2, <1>7 DEF Copied
  <1>10. (n + 1) * h = off + h
    BY <1>2
  <1>11. call'.counter = ((n + 1) + 1) % CounterMod
    <2>1. (((n + 1) % CounterMod) + 1) % CounterMod = ((n + 1) + 1) % CounterMod
      BY NextCounter
    <2> QED BY <1>1, <1>7, <2>1 DEF Expanded
  <1>12. \A k \in Nat : k < n + 1 => k * HashLen < call'.off
    <2> TAKE k \in Nat
    <2> HAVE k < n + 1
    <2>1. CASE k < n
      <3>1. k * HashLen < call.off
        BY <1>1, <2>1 DEF Expanded
      <3>2. k * HashLen \in Nat
        BY Multiples
      <3> QED BY <1>2, <1>4, <1>7, <3>1, <3>2
    <2>2. CASE k = n
      BY <1>2, <1>4, <1>7, <2>2
    <2> QED BY <2>1, <2>2
  <1>13. \A i \in 1..OkmCap : call'.off < i => call'.okm[i] = Junk
    <2> TAKE i \in 1..OkmCap
    <2> HAVE call'.off < i
    <2>1. off < i /\ ~(i <= off + m)
      BY <1>2, <1>4, <1>7
    <2>2. call.okm[i] = Junk
      BY <1>1, <1>2, <2>1 DEF Expanded
    <2> QED BY <1>9, <2>1, <2>2
  <1>14. \A k \in Nat, i \in 1..OkmCap :
           k < n + 1 /\ i <= call'.off /\ k * HashLen < i /\ i <= k * HashLen + HashLen =>
             call'.okm[i] = g[k + 1][i - k * HashLen]
    <2> TAKE k \in Nat, i \in 1..OkmCap
    <2> HAVE k < n + 1 /\ i <= call'.off /\ k * HashLen < i /\ i <= k * HashLen + HashLen
    <2>1. CASE k < n
      <3>1. k * h + h <= n * h /\ k * h \in Nat
        BY <1>2, <2>1, Multiples
      <3>2. i <= off
        BY <1>2, <3>1
      <3>3. call'.okm[i] = call.okm[i]
        BY <1>2, <1>9, <3>2
      <3>4. call.okm[i] = f[k + 1][i - k * HashLen]
        BY <1>1, <1>2, <2>1, <3>2 DEF Expanded
      <3>5. g[k + 1] = f[k + 1]
        BY <1>8, <2>1
      <3> QED BY <3>3, <3>4, <3>5
    <2>2. CASE k = n
      <3>1. k * HashLen = off
        BY <1>2, <2>2
      <3>2. call'.okm[i] = t[i - off]
        BY <1>7, <1>9, <3>1
      <3> QED BY <1>8, <2>2, <3>1, <3>2
    <2> QED BY <2>1, <2>2
  <1>15. PRK(call') = PRK(call)
    BY <1>7 DEF PRK
  <1>16. /\ call'.off \in 0..call'.len /\ call'.len \in 0..OkmCap
         /\ call'.off <= (n + 1) * HashLen
         /\ call'.off < call'.len => call'.off = (n + 1) * HashLen
    BY <1>2, <1>4, <1>7, <1>10
  <1>17. Expanded(g, n + 1)'
    BY <1>1, <1>7, <1>8, <1>11, <1>12, <1>13, <1>14, <1>15, <1>16 DEF Expanded
  <1>18. MacIsStandard'
    BY <1>7 DEF MacIsStandard
  <1> QED BY <1>7, <1>17, <1>18 DEF KdfInv

\* The return, which changes nothing but the status.
LEMMA ReturnKeeps ==
  ASSUME KdfInv, Return
  PROVE  KdfInv'
  <1>1. /\ DOMAIN call' = DOMAIN call
        /\ \A x \in Fields \ {"st"} : call'[x] = call[x]
    BY DEF Return, KdfInv, Fields
  <1>2. /\ call'.op = call.op /\ call'.key = call.key /\ call'.msg = call.msg
        /\ call'.mac = call.mac /\ call'.ikm = call.ikm /\ call'.salt = call.salt
        /\ call'.info = call.info /\ call'.len = call.len /\ call'.prk = call.prk
        /\ call'.t = call.t /\ call'.off = call.off /\ call'.counter = call.counter
        /\ call'.okm = call.okm
    BY <1>1 DEF Fields
  <1>5. call'.st = "Ok"
    BY DEF Return, KdfInv, Fields
  <1>3. PRK(call') = PRK(call)
    BY <1>2 DEF PRK
  <1>4. \A f, n : Expanded(f, n) => Expanded(f, n)'
    BY <1>2, <1>3 DEF Expanded
  <1> QED BY <1>1, <1>2, <1>4, <1>5 DEF KdfInv, MacIsStandard

\* In every state the output is made of the blocks of a run.
LEMMA KdfInductive == Spec => []KdfInv
  <1>1. Init => KdfInv
    BY DEF Init, NoCall, KdfInv, Fields, MacIsStandard
  <1>2. KdfInv /\ [Next]_call => KdfInv'
    <2> SUFFICES ASSUME KdfInv, [Next]_call PROVE KdfInv'
      OBVIOUS
    <2>1. ASSUME NEW k \in KeyLens, NEW m \in MsgLens, Hmac(k, m) PROVE KdfInv'
      BY <2>1, HmacKeeps, Sizes
    <2>2. ASSUME NEW k \in KeyLens, NEW m \in MsgLens, NEW s \in KeyLens,
                 NEW len \in OkmLens, Hkdf(k, s, m, len)
          PROVE  KdfInv'
      BY <2>2, HkdfBegins, Sizes
    <2>3. CASE Expand
      <3>1. CASE call.op = "hkdf"
        BY <2>3, <3>1, ExpandKeeps
      <3>2. call.op = "hkdf"
        BY <2>3 DEF KdfInv, Expand
      <3> QED BY <3>1, <3>2
    <2>4. CASE Return
      BY <2>4, ReturnKeeps
    <2>5. CASE UNCHANGED call
      <3>1. \A f, n : Expanded(f, n) => Expanded(f, n)'
        BY <2>5 DEF Expanded, PRK
      <3> QED BY <2>5, <3>1 DEF KdfInv, MacIsStandard
    <2> QED BY <2>1, <2>2, <2>3, <2>4, <2>5 DEF Next, Start
  <1> QED BY <1>1, <1>2, PTL DEF Spec

-----------------------------------------------------------------------------
(* What the calls compute *)

\* The software HMAC is RFC 2104's: for keys and messages of any length.
THEOREM MacStandard == Spec => []MacIsStandard
  <1>1. KdfInv => MacIsStandard
    BY DEF KdfInv
  <1> QED BY <1>1, KdfInductive, PTL

\* The software HKDF is RFC 5869's, up to a last ragged block, for salts, infos and
\* output lengths of any size, while the block counter has not wrapped; and it
\* writes no more than it was asked for.
THEOREM OkmStandard == Spec => []OkmIsStandard
  <1>1. KdfInv => OkmIsStandard
    <2> SUFFICES ASSUME KdfInv, call.op = "hkdf", call.off <= (CounterMod - 1) * HashLen,
                        NEW i \in 1..OkmCap
                 PROVE  LET n == (i - 1) \div HashLen + 1 IN
                        call.okm[i] = IF i <= call.off
                                      THEN T(PRK(call), call.info, n)[i - (n - 1) * HashLen]
                                      ELSE Junk
      BY DEF OkmIsStandard
    <2>0. PICK n \in Nat : \E f : Expanded(f, n)
      BY DEF KdfInv
    <2>1. PICK f : Expanded(f, n)
      BY <2>0
    <2>2. call.off \in Nat /\ i \in Nat \ {0}
      BY <2>1, Sizes DEF Expanded
    <2>3. PICK q \in Nat : /\ q = (i - 1) \div HashLen
                           /\ q * HashLen < i /\ i <= q * HashLen + HashLen
      BY <2>2, PlaceFacts
    <2>4. CASE i <= call.off
      <3>1. q < n
        <4>1. ASSUME n <= q PROVE FALSE
          <5>1. n * HashLen <= q * HashLen /\ n * HashLen \in Nat /\ q * HashLen \in Nat
            BY <4>1, Multiples
          <5>2. call.off <= n * HashLen
            BY <2>1 DEF Expanded
          <5> QED BY <2>2, <2>3, <2>4, <5>1, <5>2
        <4> QED BY <4>1
      <3>2. q + 1 < CounterMod
        <4>1. PICK m \in Nat : m = CounterMod - 1
          BY Sizes
        <4>2. ASSUME m <= q PROVE FALSE
          <5>1. m * HashLen <= q * HashLen /\ m * HashLen \in Nat /\ q * HashLen \in Nat
            BY <4>2, Multiples
          <5> QED BY <2>2, <2>3, <2>4, <4>1, <5>1
        <4> QED BY <4>1, <4>2, Sizes
      <3>3. call.okm[i] = f[q + 1][i - q * HashLen]
        BY <2>1, <2>3, <2>4, <3>1 DEF Expanded
      <3>4. f[q + 1] = T(call.prk, call.info, q + 1)
        <4>1. IsRun(f, call.prk, call.info, n)
          BY <2>1 DEF Expanded
        <4>2. \A k \in 0..n : k < CounterMod => f[k] = T(call.prk, call.info, k)
          BY <4>1, RunIsStandard
        <4> QED BY <3>1, <3>2, <4>2
      <3>5. call.prk = PRK(call) /\ (q + 1) - 1 = q
        BY <2>1 DEF Expanded
      <3> QED BY <2>3, <2>4, <3>3, <3>4, <3>5
    <2>5. CASE ~(i <= call.off)
      <3>1. call.okm[i] = Junk
        BY <2>1, <2>2, <2>5 DEF Expanded
      <3> QED BY <2>5, <3>1
    <2> QED BY <2>4, <2>5
  <1> QED BY <1>1, KdfInductive, PTL

\* No two blocks of the output of a call are alike, however long it is and however
\* often the block counter has wrapped.
THEOREM BlocksAllDiffer == Spec => []BlocksDiffer
  <1>1. KdfInv => BlocksDiffer
    <2> SUFFICES ASSUME KdfInv, call.op = "hkdf", NEW m \in WholeBlocks, NEW n \in WholeBlocks,
                        m # n
                 PROVE  Block(m) # Block(n)
      BY DEF BlocksDiffer
    <2>0. PICK last \in Nat : \E f : Expanded(f, last)
      BY DEF KdfInv
    <2>1. PICK f : Expanded(f, last)
      BY <2>0
    <2>2. PICK off \in Nat, h \in Nat \ {0} :
            off = call.off /\ h = HashLen /\ off <= OkmCap /\ off <= last * h
      BY <2>1, Sizes DEF Expanded
    <2>3. ASSUME NEW k \in WholeBlocks PROVE k \in 1..last /\ Block(k) = f[k]
      <3>1. PICK q \in Nat : q = off \div h /\ q * h <= off
        <4>1. off \div h \in Nat /\ (off % h) \in 0 .. h - 1 /\ (off \div h) * h + (off % h) = off
          OBVIOUS
        <4> QED BY <4>1
      <3>2. k \in 1..q
        BY <2>2, <3>1 DEF WholeBlocks
      <3>3. PICK j \in Nat : k = j + 1
        BY <3>2
      <3>4. j * h + h <= q * h /\ j * h \in Nat /\ q * h \in Nat
        BY <2>2, <3>2, <3>3, Multiples
      <3>5. j * h + h <= off
        BY <3>1, <3>4
      <3>6. j < last
        <4>1. ASSUME last <= j PROVE FALSE
          <5>1. last * h <= j * h /\ last * h \in Nat
            BY <2>2, <4>1, Multiples
          <5> QED BY <2>2, <3>4, <3>5, <5>1
        <4> QED BY <4>1
      <3>7. \A i \in 1..h : call.okm[j * h + i] = f[j + 1][i]
        <4> TAKE i \in 1..h
        <4>1. PICK x \in 1..OkmCap : /\ x = j * h + i /\ x <= off /\ j * h < x
                                     /\ x <= j * h + h /\ x - j * h = i
          BY <2>2, <3>4, <3>5, Sizes
        <4>2. call.okm[x] = f[j + 1][x - j * HashLen]
          BY <2>1, <2>2, <3>6, <4>1 DEF Expanded
        <4> QED BY <2>2, <4>1, <4>2
      <3>8. Block(k) = [i \in 1..h |-> f[k][i]]
        <4>1. Block(k) = [i \in 1..h |-> call.okm[(k - 1) * h + i]]
          BY <2>2 DEF Block
        <4>2. k - 1 = j
          BY <3>3
        <4> QED BY <3>3, <3>7, <4>1, <4>2
      <3>9. f[k] = [i \in 1..h |-> f[k][i]]
        <4>1. f[k] = StepOf(call.prk, call.info, f[k - 1], k % CounterMod)
          <5>1. k \in 1..last /\ IsRun(f, call.prk, call.info, last)
            BY <2>1, <3>3, <3>6 DEF Expanded
          <5> QED BY <5>1 DEF IsRun
        <4> QED BY <2>2, <4>1 DEF StepOf, HMAC, Digest
      <3> QED BY <3>3, <3>6, <3>8, <3>9
    <2>4. \A j, k \in 0..last : j < k => f[j] # f[k]
      <3>1. PICK prk, info : prk = call.prk /\ info = call.info
        OBVIOUS
      <3>2. IsString(info) /\ IsRun(f, prk, info, last)
        BY <2>1, <3>1 DEF Expanded
      <3> QED BY <3>2, RunDiffers
    <2>5. m \in 1..last /\ n \in 1..last /\ Block(m) = f[m] /\ Block(n) = f[n]
      BY <2>3
    <2>6. m < n \/ n < m
      BY <2>5
    <2> QED BY <2>4, <2>5, <2>6
  <1> QED BY <1>1, KdfInductive, PTL

-----------------------------------------------------------------------------
(* The expansion comes to an end *)

\* A bound on the steps the running call still takes: every pass of the expansion
\* makes at least one byte
BytesLeft == IF call.st = "running" THEN call.len - call.off + 1 ELSE 0

\* A call that has returned has made every byte it was asked for
MadeAll == call.op = "hkdf" /\ call.st = "Ok" => call.off >= call.len

LEMMA HkdfRange ==
  ASSUME KdfInv, call.op = "hkdf"
  PROVE  call.len \in Nat /\ call.off \in 0..call.len
  <1>1. PICK n \in Nat : \E f : Expanded(f, n)
    BY DEF KdfInv
  <1> QED BY <1>1, Sizes DEF Expanded

LEMMA BytesLeftType ==
  ASSUME KdfInv
  PROVE  BytesLeft \in Nat
  <1>1. CASE call.st = "running"
    <2>1. call.len \in Nat /\ call.off \in 0..call.len
      BY <1>1, HkdfRange DEF KdfInv
    <2> QED BY <1>1, <2>1 DEF BytesLeft
  <1> QED BY <1>1 DEF BytesLeft

\* A pass of the expansion advances by the bytes it copies, at least one.
LEMMA ExpandAdvances ==
  ASSUME KdfInv, Expand
  PROVE  BytesLeft' < BytesLeft
  <1>1. call.st = "running" /\ call.off < call.len /\ call' = Pass(call)
    BY DEF Expand
  <1>2. call.len \in Nat /\ call.off \in 0..call.len
    BY <1>1, HkdfRange DEF KdfInv
  <1>3. Fields \subseteq DOMAIN call
    BY DEF KdfInv
  <1>4. PICK m : m = Take(call)
    OBVIOUS
  <1>5. m \in Nat /\ 1 <= m /\ m <= call.len - call.off
    BY <1>1, <1>2, <1>4, Sizes DEF Take
  <1>6. call'.st = "running" /\ call'.len = call.len /\ call'.off = call.off + m
    BY <1>1, <1>3, <1>4 DEF Pass, Fields
  <1> QED BY <1>1, <1>2, <1>5, <1>6 DEF BytesLeft

\* Every step of a running hkdfSha256 brings its return nearer, for outputs of any
\* length and whatever the block counter does when it wraps; and the call returns
\* Ok only when the last byte it was asked for is in the caller's buffer, never
\* after one less.
THEOREM HkdfRunsOut ==
  Spec => /\ [](BytesLeft \in Nat)
          /\ [](call.op = "hkdf" /\ call.st = "Ok" => call.off = call.len)
          /\ [][call.st = "running" => BytesLeft' < BytesLeft]_call
  <1>1. Init => MadeAll
    BY DEF Init, NoCall, MadeAll
  <1>2. KdfInv /\ MadeAll /\ [Next]_call => MadeAll'
    <2> SUFFICES ASSUME KdfInv, MadeAll, [Next]_call PROVE MadeAll'
      OBVIOUS
    <2>1. ASSUME NEW k \in KeyLens, NEW m \in MsgLens, Hmac(k, m) PROVE MadeAll'
      BY <2>1 DEF Hmac, NoCall, MadeAll
    <2>2. ASSUME NEW k \in KeyLens, NEW m \in MsgLens, NEW s \in KeyLens,
                 NEW len \in OkmLens, Hkdf(k, s, m, len)
          PROVE  MadeAll'
      BY <2>2 DEF Hkdf, NoCall, MadeAll
    <2>3. CASE Expand
      <3>1. call'.st = call.st /\ call.st = "running"
        BY <2>3 DEF Expand, Pass, KdfInv, Fields
      <3> QED BY <3>1 DEF MadeAll
    <2>4. CASE Return
      <3>1. call.off >= call.len /\ call'.off = call.off /\ call'.len = call.len
        BY <2>4 DEF Return, KdfInv, Fields
      <3> QED BY <3>1 DEF MadeAll
    <2>5. CASE UNCHANGED call
      BY <2>5 DEF MadeAll
    <2> QED BY <2>1, <2>2, <2>3, <2>4, <2>5 DEF Next, Start
  <1>3. KdfInv /\ MadeAll => (call.op = "hkdf" /\ call.st = "Ok" => call.off = call.len)
    <2> SUFFICES ASSUME KdfInv, MadeAll, call.op = "hkdf", call.st = "Ok"
                 PROVE  call.off = call.len
      OBVIOUS
    <2>1. call.len \in Nat /\ call.off \in 0..call.len
      BY HkdfRange
    <2> QED BY <2>1 DEF MadeAll
  <1>4. KdfInv => BytesLeft \in Nat
    BY BytesLeftType
  <1>5. KdfInv /\ [Next]_call => [call.st = "running" => BytesLeft' < BytesLeft]_call
    <2> SUFFICES ASSUME KdfInv, Next, call.st = "running" PROVE BytesLeft' < BytesLeft
      OBVIOUS
    <2>1. ~Start
      BY DEF Start, Hmac, Hkdf, Idle
    <2>2. CASE Expand
      BY <2>2, ExpandAdvances
    <2>3. CASE Return
      <3>1. call.off >= call.len /\ call'.st = "Ok"
        BY <2>3 DEF Return, KdfInv, Fields
      <3>2. call.len \in Nat /\ call.off \in 0..call.len
        BY HkdfRange DEF KdfInv
      <3> QED BY <3>1, <3>2 DEF BytesLeft
    <2> QED BY <2>1, <2>2, <2>3 DEF Next
  <1> QED BY <1>1, <1>2, <1>3, <1>4, <1>5, KdfInductive, PTL DEF Spec
=============================================================================
