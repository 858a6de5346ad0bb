---------------------------- MODULE AesCtr_proofs ----------------------------
(* Proofs about the counter mode: for every block length, every byte size     *)
(* and every nonce, the calls a stream is cut into leave no trace in it.      *)
EXTENDS AesCtr, WellFoundedInduction, TLAPS

StreamByte == [block : Counter, at : 0 .. BlockLen - 1]

(***************************************************************************)
(* What the caller keeps and the running call between them say of the last *)
(* byte: the next one is the byte After it.                                *)
(***************************************************************************)

Ready ==
  IF output = <<>> THEN n = 0 /\ nonce_counter = first
  ELSE /\ n = (output[Len(output)].at + 1) % BlockLen
       /\ stream_block = output[Len(output)].block
       /\ nonce_counter = Increment(output[Len(output)].block)

OffsetKept == length = NoCall => nc_off = n

\* The bytes still to come are within the bound.
Room == length # NoCall => Len(output) + length <= MaxBytes

IInv == TypeOK /\ Room /\ Ready /\ OffsetKept /\ BytesInOrder

-----------------------------------------------------------------------------
(* Lemmas. *)

LEMMA IncrementType == ASSUME NEW c \in Counter PROVE Increment(c) \in Counter
<1> SUFFICES ASSUME NEW d \in 1 .. BlockLen
             PROVE (IF \A e \in d + 1 .. BlockLen : c[e] = Base - 1
                    THEN (c[d] + 1) % Base ELSE c[d]) \in 0 .. Base - 1
  BY DEF Increment, Counter
<1>1. c[d] \in 0 .. Base - 1 /\ Base \in Nat /\ Base > 1
  BY CtrAssumption DEF Counter
<1>2. (c[d] + 1) % Base \in 0 .. Base - 1
  BY <1>1
<1> QED BY <1>1, <1>2

LEMMA NextOffset ==
  ASSUME NEW at \in 0 .. BlockLen - 1
  PROVE  (at + 1) % BlockLen \in 0 .. BlockLen - 1
BY CtrAssumption

\* One byte at the end of a sequence.
LEMMA AppendFacts ==
  ASSUME NEW S, NEW s \in Seq(S), NEW x \in S
  PROVE  /\ Append(s, x) \in Seq(S)
         /\ Append(s, x) # <<>>
         /\ Len(Append(s, x)) = Len(s) + 1
         /\ Append(s, x)[Len(s) + 1] = x
         /\ \A k \in 1 .. Len(s) : Append(s, x)[k] = s[k]
OBVIOUS

LEMMA EmptyFacts ==
  ASSUME NEW S, NEW s \in Seq(S)
  PROVE  /\ Len(s) \in Nat
         /\ s = <<>> <=> Len(s) = 0
         /\ \A k \in 1 .. Len(s) : s[k] \in S
OBVIOUS

LEMMA AfterType ==
  ASSUME NEW b \in StreamByte
  PROVE  /\ After(b) \in StreamByte
         /\ After(b).at = (b.at + 1) % BlockLen
         /\ After(b).block = IF (b.at + 1) % BlockLen = 0 THEN Increment(b.block) ELSE b.block
<1>1. b.block \in Counter /\ b.at \in 0 .. BlockLen - 1
  BY DEF StreamByte
<1>2. Increment(b.block) \in Counter
  BY <1>1, IncrementType
<1>3. (b.at + 1) % BlockLen \in 0 .. BlockLen - 1
  BY <1>1, NextOffset
<1> QED  BY <1>1, <1>2, <1>3 DEF After, StreamByte

-----------------------------------------------------------------------------
(* The steps. *)

LEMMA InitInv == Init => IInv
<1> SUFFICES ASSUME Init PROVE IInv  OBVIOUS
<1>1. TypeOK
  <2>1. first \in Counter /\ stream_block \in Counter
    BY CtrAssumption DEF Init, Counter
  <2>2. output \in Seq([block : Counter, at : 0 .. BlockLen - 1]) /\ Len(output) = 0
    BY DEF Init
  <2>3. 0 \in 0 .. BlockLen - 1 /\ MaxBytes >= 0
    BY CtrAssumption
  <2> QED  BY <2>1, <2>2, <2>3 DEF Init, TypeOK
<1>2. Ready /\ OffsetKept /\ Room
  BY DEF Init, Ready, OffsetKept, Room
<1>3. BytesInOrder
  BY DEF Init, BytesInOrder
<1> QED  BY <1>1, <1>2, <1>3 DEF IInv

LEMMA MangleStep ==
  ASSUME IInv, NEW len \in 0 .. MaxBytes, Mangle(len)
  PROVE  IInv'
<1>1. TypeOK'
  <2>1. first' \in Counter /\ nonce_counter' \in Counter /\ stream_block' \in Counter
    BY CtrAssumption DEF Mangle, Counter
  <2>2. output' \in Seq([block : Counter, at : 0 .. BlockLen - 1])' /\ Len(output') = 0
    BY DEF Mangle
  <2>3. 0 \in 0 .. BlockLen - 1 /\ MaxBytes >= 0
    BY CtrAssumption
  <2> QED  BY <2>1, <2>2, <2>3 DEF Mangle, TypeOK, Counter
<1>2. Ready' /\ OffsetKept' /\ Room'
  <2>1. Ready' /\ OffsetKept'
    BY CtrAssumption DEF Mangle, Ready, OffsetKept, NoCall
  <2>2. Len(output') = 0 /\ length' = len
    BY DEF Mangle
  <2>3. Room'
    BY <2>2, CtrAssumption DEF Room
  <2> QED  BY <2>1, <2>3
<1>3. BytesInOrder'
  BY DEF Mangle, BytesInOrder
<1> QED  BY <1>1, <1>2, <1>3 DEF IInv

LEMMA CryptStep ==
  ASSUME IInv, NEW len \in 0 .. MaxBytes - Len(output), Crypt(len)
  PROVE  IInv'
<1>1. length = NoCall /\ nc_off = n /\ n' = n /\ UNCHANGED <<nonce_counter, stream_block, nc_off, output, first>>
  BY DEF IInv, OffsetKept, Crypt, stream
<1>2. length' \in 0 .. MaxBytes
  <2>1. Len(output) \in Nat
    BY EmptyFacts DEF IInv, TypeOK
  <2> QED  BY <2>1, CtrAssumption DEF Crypt
<1>3. TypeOK'
  BY <1>1, <1>2 DEF IInv, TypeOK, Counter
<1>4. Ready' /\ BytesInOrder'
  BY <1>1 DEF IInv, Ready, BytesInOrder, After, Increment
<1>5. OffsetKept'
  BY <1>1 DEF OffsetKept
<1>6. Room'
  <2>1. Len(output) \in Nat
    BY EmptyFacts DEF IInv, TypeOK
  <2>2. length' = len
    BY DEF Crypt
  <2> QED  BY <1>1, <2>1, <2>2, CtrAssumption DEF Room
<1> QED  BY <1>3, <1>4, <1>5, <1>6 DEF IInv

LEMMA ReturnStep == ASSUME IInv, Return PROVE IInv'
<1>1. TypeOK'
  BY DEF IInv, TypeOK, Return, Counter
<1>2. Ready' /\ BytesInOrder'
  BY DEF IInv, Return, Ready, BytesInOrder, After, Increment
<1>3. OffsetKept' /\ Room'
  BY DEF Return, OffsetKept, Room
<1> QED  BY <1>1, <1>2, <1>3 DEF IInv

\* The byte an iteration of the loop puts out is the next of the key stream.
LEMMA NextByte ==
  ASSUME IInv, CryptByte
  PROVE  /\ output' = Append(output, [block |-> stream_block', at |-> n])
         /\ [block |-> stream_block', at |-> n] \in StreamByte
         /\ [block |-> stream_block', at |-> n] =
              IF output = <<>> THEN [block |-> first, at |-> 0]
              ELSE After(output[Len(output)])
         /\ nonce_counter' = Increment(stream_block')
<1>1. output' = Append(output, [block |-> stream_block', at |-> n])
  BY DEF CryptByte
<1>2. /\ stream_block' = IF n = 0 THEN nonce_counter ELSE stream_block
      /\ nonce_counter' = IF n = 0 THEN Increment(nonce_counter) ELSE nonce_counter
  BY DEF CryptByte
<1>3. [block |-> stream_block', at |-> n] \in StreamByte
  BY <1>2 DEF IInv, TypeOK, StreamByte
<1>4. CASE output = <<>>
  <2>1. n = 0 /\ nonce_counter = first
    BY <1>4 DEF IInv, Ready
  <2> QED  BY <1>1, <1>2, <1>3, <1>4, <2>1
<1>5. CASE output # <<>>
  <2> DEFINE b == output[Len(output)]
  <2>1. n = (b.at + 1) % BlockLen /\ stream_block = b.block /\ nonce_counter = Increment(b.block)
    BY <1>5 DEF IInv, Ready
  <2>2. After(b) = [block |-> IF n = 0 THEN Increment(b.block) ELSE b.block, at |-> n]
    BY <2>1 DEF After
  <2>3. stream_block' = IF n = 0 THEN Increment(b.block) ELSE b.block
    BY <1>2, <2>1
  <2>4. nonce_counter' = Increment(stream_block')
    BY <1>2, <2>1, <2>3
  <2> QED  BY <1>1, <1>3, <1>5, <2>2, <2>3, <2>4
<1> QED  BY <1>4, <1>5

LEMMA ByteStep == ASSUME IInv, CryptByte PROVE IInv'
<1> DEFINE b == [block |-> stream_block', at |-> n]
<1>1. output \in Seq(StreamByte) /\ n \in 0 .. BlockLen - 1
  BY DEF IInv, TypeOK, StreamByte
<1>2. output' = Append(output, b) /\ b \in StreamByte
  BY NextByte
<1>3. /\ output' \in Seq(StreamByte)
      /\ output' # <<>>
      /\ Len(output') = Len(output) + 1
      /\ output'[Len(output) + 1] = b
      /\ \A k \in 1 .. Len(output) : output'[k] = output[k]
  <2> HIDE DEF b
  <2> QED  BY <1>1, <1>2, AppendFacts
<1>4. Len(output) \in Nat /\ (output = <<>> <=> Len(output) = 0)
  BY <1>1, EmptyFacts
<1>5. n' = (n + 1) % BlockLen /\ n' \in 0 .. BlockLen - 1
  BY <1>1, NextOffset DEF CryptByte
<1>6. TypeOK' /\ Room'
  <2>1. b.block = stream_block' /\ stream_block' \in Counter
    BY <1>2 DEF StreamByte
  <2>2. nonce_counter' \in Counter
    BY <2>1, NextByte, IncrementType
  <2>3. length \in 1 .. MaxBytes /\ length' = length - 1
    BY CtrAssumption DEF CryptByte, IInv, TypeOK, NoCall
  <2>4. Len(output) + length <= MaxBytes
    BY <2>3 DEF IInv, Room, NoCall
  <2>5. Len(output') <= MaxBytes /\ Len(output') + length' <= MaxBytes
    BY <1>3, <1>4, <2>3, <2>4, CtrAssumption
  <2>6. length' \in {NoCall} \cup 0 .. MaxBytes
    BY <2>3, CtrAssumption
  <2>7. UNCHANGED <<nc_off, first>>
    BY DEF CryptByte
  <2> QED  BY <1>3, <1>5, <2>1, <2>2, <2>5, <2>6, <2>7 DEF IInv, TypeOK, Room, StreamByte, Counter
<1>7. Ready'
  <2>1. output'[Len(output')] = b /\ b.at = n /\ b.block = stream_block'
    BY <1>3
  <2> QED  BY <1>3, <1>5, <2>1, NextByte DEF Ready, Increment
<1>8. OffsetKept'
  BY DEF CryptByte, OffsetKept, IInv, TypeOK, NoCall
<1>9. BytesInOrder'
  <2> SUFFICES ASSUME NEW k \in 1 .. Len(output')
               PROVE output'[k] = IF k = 1 THEN [block |-> first, at |-> 0] ELSE After(output'[k - 1])
    BY DEF BytesInOrder, After, Increment, CryptByte
  <2>1. CASE k \in 1 .. Len(output)
    <3>1. output'[k] = output[k] /\ (k # 1 => output'[k - 1] = output[k - 1])
      BY <1>3, <1>4, <2>1
    <3> QED  BY <2>1, <3>1 DEF IInv, BytesInOrder
  <2>2. CASE k = Len(output) + 1
    <3>1. output'[k] = b
      BY <1>3, <2>2
    <3>2. k # 1 => output'[k - 1] = output[Len(output)] /\ output # <<>>
      BY <1>3, <1>4, <2>2
    <3>3. k = 1 => output = <<>>
      BY <1>4, <2>2
    <3> QED  BY <3>1, <3>2, <3>3, NextByte
  <2> QED  BY <1>3, <1>4, <2>1, <2>2
<1> QED  BY <1>6, <1>7, <1>8, <1>9 DEF IInv

LEMMA NextInv == IInv /\ [Next]_vars => IInv'
<1> SUFFICES ASSUME IInv, [Next]_vars PROVE IInv'  OBVIOUS
<1>1. CASE \E len \in 0 .. MaxBytes : Mangle(len)
  BY <1>1, MangleStep
<1>2. CASE \E len \in 0 .. MaxBytes - Len(output) : Crypt(len)
  BY <1>2, CryptStep
<1>3. CASE CryptByte
  BY <1>3, ByteStep
<1>4. CASE Return
  BY <1>4, ReturnStep
<1>5. CASE UNCHANGED vars
  BY <1>5 DEF vars, stream, IInv, TypeOK, Room, Ready, OffsetKept, BytesInOrder, After, Increment, Counter
<1> QED  BY <1>1, <1>2, <1>3, <1>4, <1>5 DEF Next

-----------------------------------------------------------------------------
(* The theorems. *)

\* The counter and the offset of mbedtls_aes_crypt_ctr stay in their ranges.
THEOREM TypeCorrect == Spec => []TypeOK
<1>1. IInv => TypeOK  BY DEF IInv
<1> QED  BY InitInv, NextInv, <1>1, PTL DEF Spec

\* Cutting a stream into calls of any lengths loses and repeats no byte.
THEOREM CutsLeaveNoTrace == Spec => []BytesInOrder
<1>1. IInv => BytesInOrder  BY DEF IInv
<1> QED  BY InitInv, NextInv, <1>1, PTL DEF Spec

-----------------------------------------------------------------------------
(***************************************************************************)
(* The counter as a number.  The induction over its digits, and later over *)
(* the bytes of a stream, is the one of a set of numbers.                  *)
(***************************************************************************)

LEMMA Least ==
  ASSUME NEW S \in SUBSET Nat, S # {}
  PROVE  \E m \in S : \A k \in S : m <= k
<1> DEFINE R == {ss \in Nat \X Nat : ss[1] < ss[2]}
<1>1. IsWellFoundedOn(R, Nat)
  BY NatLessThanWellFounded DEF OpToRel
<1>2. \A x, y \in Nat : y < x => <<y, x>> \in R
  OBVIOUS
<1> HIDE DEF R
<1>3. PICK x \in S : \A y \in S : <<y, x>> \notin R
  BY <1>1, WFMin
<1>4. \A k \in S : k \in Nat /\ x \in Nat /\ ~(k < x)
  BY <1>2, <1>3
<1>5. QED BY <1>4

LEMMA UpTo ==
  ASSUME NEW N \in Nat, NEW S, 0 \in S, \A d \in 1 .. N : d - 1 \in S => d \in S
  PROVE  \A d \in 0 .. N : d \in S
<1> DEFINE Missing == {d \in 0 .. N : d \notin S}
<1> SUFFICES ASSUME Missing # {} PROVE FALSE
  OBVIOUS
<1>1. Missing \in SUBSET Nat
  OBVIOUS
<1>2. PICK m \in Missing : \A k \in Missing : m <= k
  <2> HIDE DEF Missing
  <2>1. QED BY <1>1, Least
<1>3. m \in 1 .. N /\ m - 1 \in 0 .. N /\ ~(m <= m - 1)
  OBVIOUS
<1>4. m - 1 \in S
  BY <1>2, <1>3
<1>5. QED BY <1>3, <1>4

\* The numbers the first d digits of c make, and how many there are
Prefixes(c) == CHOOSE v : v = [d \in 0 .. BlockLen |-> IF d = 0 THEN 0 ELSE v[d - 1] * Base + c[d]]
Powers == CHOOSE p : p = [d \in 0 .. BlockLen |-> IF d = 0 THEN 1 ELSE p[d - 1] * Base]

LEMMA PrefixesAre ==
  ASSUME NEW c
  PROVE  /\ Value(c) = Prefixes(c)[BlockLen] /\ Prefixes(c)[0] = 0
         /\ \A d \in 1 .. BlockLen : Prefixes(c)[d] = Prefixes(c)[d - 1] * Base + c[d]
<1> DEFINE Exists(N) == \E v : v = [d \in 0 .. N |-> IF d = 0 THEN 0 ELSE v[d - 1] * Base + c[d]]
           S == {N \in Nat : Exists(N)}
<1>1. 0 \in S
  <2> DEFINE v == [d \in 0 .. 0 |-> 0]
  <2>1. v = [d \in 0 .. 0 |-> IF d = 0 THEN 0 ELSE v[d - 1] * Base + c[d]]
    OBVIOUS
  <2> HIDE DEF v
  <2>2. QED BY <2>1
<1>2. ASSUME NEW N \in 1 .. BlockLen, N - 1 \in S
      PROVE  N \in S
  <2>1. PICK v : v = [d \in 0 .. N - 1 |-> IF d = 0 THEN 0 ELSE v[d - 1] * Base + c[d]]
    BY <1>2
  <2> DEFINE u == [d \in 0 .. N |-> IF d < N THEN v[d] ELSE v[N - 1] * Base + c[N]]
  <2>2. u = [d \in 0 .. N |-> IF d = 0 THEN 0 ELSE u[d - 1] * Base + c[d]]
    <3>1. ASSUME NEW d \in 0 .. N
          PROVE  u[d] = IF d = 0 THEN 0 ELSE u[d - 1] * Base + c[d]
      <4>1. CASE d = 0
        BY <2>1, <4>1
      <4>2. CASE d \in 1 .. N - 1
        <5>1. u[d] = v[d] /\ u[d - 1] = v[d - 1]
          BY <4>2
        <5>2. v[d] = v[d - 1] * Base + c[d]
          BY <2>1, <4>2
        <5>3. QED BY <4>2, <5>1, <5>2
      <4>3. CASE d = N
        BY <4>3
      <4>4. QED BY <4>1, <4>2, <4>3
    <3>2. u = [d \in 0 .. N |-> u[d]]
      OBVIOUS
    <3> HIDE DEF u
    <3>3. QED BY <3>1, <3>2
  <2> HIDE DEF u
  <2>3. Exists(N)
    BY <2>2
  <2>4. QED BY <2>3
<1>3. BlockLen \in S
  <2> HIDE DEF S
  <2>1. BlockLen \in Nat /\ BlockLen \in 0 .. BlockLen
    BY CtrAssumption
  <2>2. QED BY <1>1, <1>2, <2>1, UpTo
<1>4. Prefixes(c) = [d \in 0 .. BlockLen |-> IF d = 0 THEN 0 ELSE Prefixes(c)[d - 1] * Base + c[d]]
  BY <1>3 DEF Prefixes
<1>5. Value(c) = Prefixes(c)[BlockLen]
  BY DEF Value, Prefixes
<1> HIDE DEF S, Exists
<1>6. Prefixes(c)[0] = 0
  BY <1>4, CtrAssumption
<1>7. \A d \in 1 .. BlockLen : Prefixes(c)[d] = Prefixes(c)[d - 1] * Base + c[d]
  BY <1>4, CtrAssumption
<1>8. QED BY <1>5, <1>6, <1>7

\* The same recursion, without digits
LEMMA PowersAre ==
  /\ Counters = Powers[BlockLen] /\ Powers[0] = 1
  /\ \A d \in 1 .. BlockLen : Powers[d] = Powers[d - 1] * Base
<1> DEFINE Exists(N) == \E p : p = [d \in 0 .. N |-> IF d = 0 THEN 1 ELSE p[d - 1] * Base]
           S == {N \in Nat : Exists(N)}
<1>1. 0 \in S
  <2> DEFINE p == [d \in 0 .. 0 |-> 1]
  <2>1. p = [d \in 0 .. 0 |-> IF d = 0 THEN 1 ELSE p[d - 1] * Base]
    OBVIOUS
  <2> HIDE DEF p
  <2>2. QED BY <2>1
<1>2. ASSUME NEW N \in 1 .. BlockLen, N - 1 \in S
      PROVE  N \in S
  <2>1. PICK p : p = [d \in 0 .. N - 1 |-> IF d = 0 THEN 1 ELSE p[d - 1] * Base]
    BY <1>2
  <2> DEFINE u == [d \in 0 .. N |-> IF d < N THEN p[d] ELSE p[N - 1] * Base]
  <2>2. u = [d \in 0 .. N |-> IF d = 0 THEN 1 ELSE u[d - 1] * Base]
    <3>1. ASSUME NEW d \in 0 .. N
          PROVE  u[d] = IF d = 0 THEN 1 ELSE u[d - 1] * Base
      <4>1. CASE d = 0
        BY <2>1, <4>1
      <4>2. CASE d \in 1 .. N - 1
        <5>1. u[d] = p[d] /\ u[d - 1] = p[d - 1]
          BY <4>2
        <5>2. p[d] = p[d - 1] * Base
          BY <2>1, <4>2
        <5>3. QED BY <4>2, <5>1, <5>2
      <4>3. CASE d = N
        BY <4>3
      <4>4. QED BY <4>1, <4>2, <4>3
    <3>2. u = [d \in 0 .. N |-> u[d]]
      OBVIOUS
    <3> HIDE DEF u
    <3>3. QED BY <3>1, <3>2
  <2> HIDE DEF u
  <2>3. Exists(N)
    BY <2>2
  <2>4. QED BY <2>3
<1>3. BlockLen \in S
  <2> HIDE DEF S
  <2>1. BlockLen \in Nat /\ BlockLen \in 0 .. BlockLen
    BY CtrAssumption
  <2>2. QED BY <1>1, <1>2, <2>1, UpTo
<1>4. Powers = [d \in 0 .. BlockLen |-> IF d = 0 THEN 1 ELSE Powers[d - 1] * Base]
  BY <1>3 DEF Powers
<1>5. Counters = Powers[BlockLen]
  BY DEF Counters, Powers
<1> HIDE DEF S, Exists
<1>6. Powers[0] = 1
  BY <1>4, CtrAssumption
<1>7. \A d \in 1 .. BlockLen : Powers[d] = Powers[d - 1] * Base
  BY <1>4, CtrAssumption
<1>8. QED BY <1>5, <1>6, <1>7

\* One digit more, in the number and in the numbers there are
LEMMA OneDigit ==
  ASSUME NEW B \in Nat \ {0, 1}, NEW v \in Nat, NEW p \in Nat, v < p, NEW x \in 0 .. B - 1
  PROVE  /\ v * B + x \in Nat /\ p * B \in Nat /\ v * B + x < p * B
         /\ v * B + x = p * B - 1 <=> v = p - 1 /\ x = B - 1
         /\ (v + 1) * B = v * B + B
<1>1. (v + 1) * B = v * B + B /\ v * B \in Nat /\ p * B \in Nat
  OBVIOUS
<1>2. CASE v = p - 1
  <2>1. p * B = v * B + B
    BY <1>1, <1>2
  <2>2. QED BY <1>1, <1>2, <2>1
<1>3. CASE v + 2 <= p
  <2>1. p * B >= (v + 2) * B
    BY <1>3
  <2>2. (v + 2) * B = v * B + B + B
    OBVIOUS
  <2>3. QED BY <1>1, <1>3, <2>1, <2>2
<1>4. QED BY <1>2, <1>3

\* Adding one to a remainder
LEMMA RemainderPlusOne ==
  ASSUME NEW L \in Nat \ {0}, NEW j \in Nat
  PROVE  /\ j % L \in 0 .. L - 1 /\ j \div L \in Nat
         /\ ((j % L) + 1) % L = (j + 1) % L
         /\ (j + 1) \div L = IF (j + 1) % L = 0 THEN (j \div L) + 1 ELSE j \div L
<1> DEFINE q == j \div L
           r == j % L
<1>1. r \in 0 .. L - 1 /\ q \in Nat
  OBVIOUS
<1>2. j = L * q + r
  <2>1. j \in Int /\ L \in Int /\ L > 0
    OBVIOUS
  <2>2. QED BY <2>1, Z3
<1>3. ASSUME NEW a \in Nat, NEW b \in 0 .. L - 1
      PROVE  (a * L + b) \div L = a /\ (a * L + b) % L = b
  OBVIOUS
<1> HIDE DEF q, r
<1>4. CASE r + 1 < L
  <2>1. j + 1 = q * L + (r + 1) /\ r + 1 \in 0 .. L - 1
    BY <1>1, <1>2, <1>4
  <2>2. (j + 1) \div L = q /\ (j + 1) % L = r + 1
    BY <1>1, <1>3, <2>1
  <2>3. r + 1 = 0 * L + (r + 1)
    BY <1>1
  <2>4. (r + 1) % L = r + 1
    BY <1>3, <2>1, <2>3
  <2>5. r + 1 # 0
    BY <1>1
  <2>6. QED BY <1>1, <2>2, <2>4, <2>5 DEF q, r
<1>5. CASE r + 1 = L
  <2>1. j + 1 = (q + 1) * L + 0 /\ q + 1 \in Nat /\ 0 \in 0 .. L - 1
    BY <1>1, <1>2, <1>5
  <2>2. (j + 1) \div L = q + 1 /\ (j + 1) % L = 0
    BY <1>3, <2>1
  <2>3. r + 1 = 1 * L + 0
    BY <1>1, <1>5
  <2>4. (r + 1) % L = 0
    BY <1>3, <2>1, <2>3
  <2>5. QED BY <1>1, <2>2, <2>4 DEF q, r
<1>6. QED BY <1>1, <1>4, <1>5

\* The loop over nonce_counter adds one and runs over to zero: a digit is
\* reached by the carry when all behind it are at their greatest.
LEMMA IncrementCounts ==
  ASSUME NEW c \in Counter
  PROVE  /\ Value(Increment(c)) = (Value(c) + 1) % Counters
         /\ Value(c) \in 0 .. Counters - 1 /\ Counters \in Nat \ {0}
<1> DEFINE V == Prefixes(c)
           W == Prefixes(Increment(c))
           P == Powers
           Carry(d) == \A e \in d + 1 .. BlockLen : c[e] = Base - 1
           Good(d) == /\ V[d] \in Nat /\ P[d] \in Nat /\ V[d] < P[d]
                      /\ W[d] = IF ~Carry(d) THEN V[d]
                                ELSE IF V[d] = P[d] - 1 THEN 0 ELSE V[d] + 1
           S == {d \in 0 .. BlockLen : Good(d)}
<1>1. /\ Value(c) = V[BlockLen] /\ V[0] = 0
      /\ \A d \in 1 .. BlockLen : V[d] = V[d - 1] * Base + c[d]
  BY PrefixesAre
<1>2. /\ Value(Increment(c)) = W[BlockLen] /\ W[0] = 0
      /\ \A d \in 1 .. BlockLen : W[d] = W[d - 1] * Base + Increment(c)[d]
  BY PrefixesAre
<1>3. /\ Counters = P[BlockLen] /\ P[0] = 1
      /\ \A d \in 1 .. BlockLen : P[d] = P[d - 1] * Base
  BY PowersAre
<1>4. \A d \in 1 .. BlockLen :
        Increment(c)[d] = IF Carry(d) THEN (c[d] + 1) % Base ELSE c[d]
  BY DEF Increment
<1>5. \A d \in 1 .. BlockLen : Carry(d - 1) <=> Carry(d) /\ c[d] = Base - 1
  <2> SUFFICES ASSUME NEW d \in 1 .. BlockLen PROVE Carry(d - 1) <=> Carry(d) /\ c[d] = Base - 1
    OBVIOUS
  <2>1. d - 1 + 1 .. BlockLen = (d + 1 .. BlockLen) \cup {d}
    BY CtrAssumption
  <2>2. QED BY <2>1
<1>6. Carry(BlockLen)
  BY CtrAssumption
<1> HIDE DEF V, W, P, Carry
<1>7. 0 \in S
  BY <1>1, <1>2, <1>3, CtrAssumption
<1>8. ASSUME NEW d \in 1 .. BlockLen, d - 1 \in S
      PROVE  d \in S
  <2> DEFINE v == V[d - 1]
             p == P[d - 1]
             x == c[d]
  <2>1. Good(d - 1)
    BY <1>8
  <2>2. /\ v \in Nat /\ p \in Nat /\ v < p
        /\ W[d - 1] = IF ~Carry(d - 1) THEN v ELSE IF v = p - 1 THEN 0 ELSE v + 1
    BY <2>1
  <2>3. x \in 0 .. Base - 1 /\ Base \in Nat \ {0, 1}
    BY CtrAssumption DEF Counter
  <2>4. V[d] = v * Base + x /\ P[d] = p * Base
    BY <1>1, <1>3
  <2>5. W[d] = W[d - 1] * Base + (IF Carry(d) THEN (x + 1) % Base ELSE x)
    BY <1>2, <1>4
  <2>6. Carry(d - 1) <=> Carry(d) /\ x = Base - 1
    BY <1>5
  <2> HIDE DEF v, p, x
  <2>7. /\ V[d] \in Nat /\ P[d] \in Nat /\ V[d] < P[d]
        /\ V[d] = P[d] - 1 <=> v = p - 1 /\ x = Base - 1
        /\ (v + 1) * Base = v * Base + Base
    BY <2>2, <2>3, <2>4, OneDigit
  <2>8. CASE ~Carry(d)
    BY <2>2, <2>4, <2>5, <2>6, <2>7, <2>8
  <2>9. CASE Carry(d) /\ x # Base - 1
    <3>1. (x + 1) % Base = x + 1
      BY <2>3, <2>9
    <3>2. W[d] = v * Base + (x + 1)
      BY <2>2, <2>5, <2>6, <2>9, <3>1
    <3>3. W[d] = V[d] + 1
      BY <2>2, <2>3, <2>4, <3>2
    <3>4. QED BY <2>7, <2>9, <3>3
  <2>10. CASE Carry(d) /\ x = Base - 1
    <3>1. (x + 1) % Base = 0
      BY <2>3, <2>10
    <3>2. W[d] = (IF v = p - 1 THEN 0 ELSE v + 1) * Base
      BY <2>2, <2>3, <2>5, <2>6, <2>10, <3>1
    <3>3. CASE v = p - 1
      BY <2>3, <2>7, <2>10, <3>2, <3>3
    <3>4. CASE v # p - 1
      <4>1. W[d] = V[d] + 1
        BY <2>2, <2>3, <2>4, <2>7, <2>10, <3>2, <3>4
      <4>2. QED BY <2>7, <2>10, <3>4, <4>1
    <3>5. QED BY <3>3, <3>4
  <2>11. Good(d)
    BY <2>7, <2>8, <2>9, <2>10
  <2>12. QED BY <2>11
<1>9. BlockLen \in S
  <2> HIDE DEF S
  <2>1. BlockLen \in Nat /\ BlockLen \in 0 .. BlockLen
    BY CtrAssumption
  <2>2. QED BY <1>7, <1>8, <2>1, UpTo
<1>10. Good(BlockLen)
  BY <1>9
<1>11. CASE V[BlockLen] = P[BlockLen] - 1
  <2>1. (P[BlockLen] - 1 + 1) % P[BlockLen] = 0
    BY <1>10
  <2>2. QED BY <1>1, <1>2, <1>3, <1>6, <1>10, <1>11, <2>1
<1>12. CASE V[BlockLen] # P[BlockLen] - 1
  <2>1. V[BlockLen] + 1 \in 0 .. P[BlockLen] - 1 /\ P[BlockLen] \in Nat \ {0}
    BY <1>10, <1>12
  <2>2. (V[BlockLen] + 1) % P[BlockLen] = V[BlockLen] + 1
    BY <2>1
  <2>3. QED BY <1>1, <1>2, <1>3, <1>6, <1>10, <1>12, <2>1, <2>2
<1>13. QED BY <1>11, <1>12

LEMMA BytesByPosition == TypeOK /\ BytesInOrder => KeystreamByPosition
<1> SUFFICES ASSUME TypeOK, BytesInOrder PROVE KeystreamByPosition
  OBVIOUS
<1> DEFINE N == Len(output)
           Placed(k) == /\ output[k].at = (k - 1) % BlockLen
                        /\ Value(output[k].block)
                             = (Value(first) + (k - 1) \div BlockLen) % Counters
           S == {k \in 0 .. N : k = 0 \/ Placed(k)}
<1>1. N \in Nat /\ \A k \in 1 .. N : output[k] \in StreamByte
  BY EmptyFacts DEF TypeOK, StreamByte
<1>2. first \in Counter /\ Value(first) \in 0 .. Counters - 1 /\ Counters \in Nat \ {0}
  BY IncrementCounts DEF TypeOK
<1>3. ASSUME NEW k \in 1 .. N, k - 1 \in S
      PROVE  Placed(k)
  <2>1. CASE k = 1
    <3>1. output[k].at = 0 /\ output[k].block = first
      BY <1>3, <2>1 DEF BytesInOrder
    <3>2. 0 % BlockLen = 0 /\ 0 \div BlockLen = 0
      BY CtrAssumption
    <3>3. (Value(first) + 0) % Counters = Value(first)
      BY <1>2
    <3>4. QED BY <2>1, <3>1, <3>2, <3>3
  <2>2. CASE k # 1
    <3> DEFINE j == k - 2
               b == output[k - 1]
               x == Value(first) + (j \div BlockLen)
    <3>1. j \in Nat /\ j + 1 = k - 1 /\ k - 1 - 1 = j /\ k - 1 \in 1 .. N
      BY <1>1, <2>2
    <3>2. b \in StreamByte /\ output[k] = After(b)
      BY <1>1, <2>2, <3>1 DEF BytesInOrder
    <3>3. b.at = j % BlockLen /\ Value(b.block) = x % Counters
      <4>1. Placed(k - 1)
        BY <1>3, <2>2, <3>1
      <4>2. QED BY <3>1, <4>1
    <3>4. /\ ((j % BlockLen) + 1) % BlockLen = (j + 1) % BlockLen /\ j \div BlockLen \in Nat
          /\ (j + 1) \div BlockLen
               = IF (j + 1) % BlockLen = 0 THEN (j \div BlockLen) + 1 ELSE j \div BlockLen
      BY <3>1, RemainderPlusOne, CtrAssumption
    <3>5. x \in Nat /\ ((x % Counters) + 1) % Counters = (x + 1) % Counters
      <4>1. x \in Nat
        BY <1>2, <3>4
      <4> HIDE DEF x
      <4>2. QED BY <1>2, <4>1, RemainderPlusOne
    <3>6. /\ output[k].at = (b.at + 1) % BlockLen
          /\ output[k].block = IF (b.at + 1) % BlockLen = 0 THEN Increment(b.block) ELSE b.block
      BY <3>2, AfterType
    <3>7. b.block \in Counter
      BY <3>2 DEF StreamByte
    <3>8. Value(Increment(b.block)) = (Value(b.block) + 1) % Counters
      BY <3>7, IncrementCounts
    <3>9. output[k].at = (k - 1) % BlockLen
      BY <3>1, <3>3, <3>4, <3>6
    <3>10. CASE (j + 1) % BlockLen = 0
      <4>1. Value(output[k].block) = (x + 1) % Counters
        BY <3>3, <3>4, <3>5, <3>6, <3>8, <3>10
      <4>2. x + 1 = Value(first) + (j + 1) \div BlockLen
        BY <1>2, <3>4, <3>10
      <4>3. QED BY <3>1, <3>9, <4>1, <4>2
    <3>11. CASE (j + 1) % BlockLen # 0
      <4>1. Value(output[k].block) = x % Counters
        BY <3>3, <3>4, <3>6, <3>11
      <4>2. x = Value(first) + (j + 1) \div BlockLen
        BY <3>4, <3>11
      <4>3. QED BY <3>1, <3>9, <4>1, <4>2
    <3>12. QED BY <3>10, <3>11
  <2>3. QED BY <2>1, <2>2
<1>4. \A k \in 0 .. N : k \in S
  <2>1. 0 \in S /\ \A k \in 1 .. N : k - 1 \in S => k \in S
    BY <1>1, <1>3
  <2> HIDE DEF S, N
  <2>2. QED BY <1>1, <2>1, UpTo
<1>5. QED BY <1>1, <1>4 DEF KeystreamByPosition

\* As numbers: the k-th byte of a stream is combined with byte k % BlockLen of
\* block k / BlockLen after the nonce's, over every carry and the wrap.
THEOREM BytesPlaced == Spec => []KeystreamByPosition
<1>1. IInv => KeystreamByPosition  BY BytesByPosition DEF IInv
<1> QED  BY InitInv, NextInv, <1>1, PTL DEF Spec
=============================================================================
