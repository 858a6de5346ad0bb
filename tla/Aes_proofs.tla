------------------------------ MODULE Aes_proofs ------------------------------
(***************************************************************************)
(* That the AES of aes.cpp is the cipher of the standard, for any threads, *)
(* keys and blocks: the tables it generates are the standard's, and the    *)
(* schedules and rounds over them are those of the standard.               *)
(***************************************************************************)
EXTENDS Aes, SequenceTheorems, WellFoundedInduction, TLAPS

-----------------------------------------------------------------------------
(* Bytes and words. *)

LEMMA TableIs == ASSUME NEW f PROVE Table(f) = f
  BY DEF Table

LEMMA XorType == \A a, b \in Byte : Xor(a, b) \in Byte
  BY DEF Xor, Byte

LEMMA XorComm == \A a, b : Xor(a, b) = Xor(b, a)
  BY DEF Xor

LEMMA XTIMEType == \A a \in Byte : XTIME(a) \in Byte
  BY DEF Xor, XTIME, Byte, Bit, ByteOf

\* XTIME is linear.
LEMMA XTIMEXor == \A a, b \in Byte : XTIME(Xor(a, b)) = Xor(XTIME(a), XTIME(b))
  BY DEF Xor, XTIME, Byte, Bit

LEMMA Tuples ==
  \A a, b, c, d :
    /\ <<a, b, c, d>>[1] = a /\ <<a, b, c, d>>[2] = b
    /\ <<a, b, c, d>>[3] = c /\ <<a, b, c, d>>[4] = d
  OBVIOUS

LEMMA WordTuple == \A a, b, c, d \in Byte : <<a, b, c, d>> \in Word
  BY DEF Word

LEMMA BlockTuple == \A a, b, c, d \in Word : <<a, b, c, d>> \in [1 .. 4 -> Word]
  OBVIOUS

LEMMA WordBytes == \A v \in Word : \A r \in 1 .. 4 : v[r] \in Byte
  BY DEF Word

LEMMA XorWByte ==
  ASSUME NEW v, NEW w, NEW r \in 1 .. 4
  PROVE  XorW(v, w)[r] = Xor(v[r], w[r])
  BY DEF XorW

LEMMA XorWType ==
  ASSUME NEW v \in Word, NEW w \in Word
  PROVE  XorW(v, w) \in Word
  BY WordBytes, XorType DEF XorW, Word

LEMMA XorWComm ==
  ASSUME NEW v, NEW w
  PROVE  XorW(v, w) = XorW(w, v)
  BY XorComm DEF XorW

LEMMA LowWordType == \A b \in Byte : LowWord(b) \in Word
  BY WordTuple DEF LowWord, Byte

-----------------------------------------------------------------------------
(***************************************************************************)
(* The field.  GeneratorAssumption is all that is computed and not proved: *)
(* the tables follow from it, because Times(a, .) is linear and commutes   *)
(* with a multiplication by 3.                                             *)
(***************************************************************************)

LEMMA Least ==
  ASSUME NEW S \in SUBSET Nat, S # {}
  PROVE  \E m \in S : \A k \in S : m <= k
<1> DEFINE R == {ss \in Nat \X Nat : ss[1] < ss[2]}
<1>1. IsWellFoundedOn(R, Nat)
  BY NatLessThanWellFounded DEF OpToRel
<1>2. \A x, y \in Nat : y < x => <<y, x>> \in R
  OBVIOUS
<1> HIDE DEF R
<1>3. PICK x \in S : \A y \in S : <<y, x>> \notin R
  BY <1>1, WFMin
<1>4. \A k \in S : k \in Nat /\ x \in Nat /\ ~(k < x)
  BY <1>2, <1>3
<1>5. QED BY <1>4

LEMMA UpTo ==
  ASSUME NEW N \in Nat, NEW S, 0 \in S, \A d \in 1 .. N : d - 1 \in S => d \in S
  PROVE  \A d \in 0 .. N : d \in S
<1> DEFINE Missing == {d \in 0 .. N : d \notin S}
<1> SUFFICES ASSUME Missing # {} PROVE FALSE
  OBVIOUS
<1>1. Missing \in SUBSET Nat
  OBVIOUS
<1>2. PICK m \in Missing : \A k \in Missing : m <= k
  <2> HIDE DEF Missing
  <2>1. QED BY <1>1, Least
<1>3. m \in 1 .. N /\ m - 1 \in 0 .. N /\ ~(m <= m - 1)
  OBVIOUS
<1>4. m - 1 \in S
  BY <1>2, <1>3
<1>5. QED BY <1>3, <1>4

\* f is the sequence of a, g[a], g[g[a]] and so on.
Iteration(f, N, a, g) ==
  /\ f = [n \in 0 .. N |-> f[n]]
  /\ f[0] = a /\ \A n \in 1 .. N : f[n] = g[f[n - 1]]

LEMMA Iterates ==
  ASSUME NEW N \in Nat, NEW a, NEW g
  PROVE  \E f : Iteration(f, N, a, g)
<1> DEFINE Exists(m) == \E f : f = [n \in 0 .. m |-> IF n = 0 THEN a ELSE g[f[n - 1]]]
           S == {m \in Nat : Exists(m)}
<1>1. 0 \in S
  <2> DEFINE f == [n \in 0 .. 0 |-> a]
  <2>1. f = [n \in 0 .. 0 |-> IF n = 0 THEN a ELSE g[f[n - 1]]]
    OBVIOUS
  <2> HIDE DEF f
  <2>2. QED BY <2>1
<1>2. ASSUME NEW m \in 1 .. N, m - 1 \in S
      PROVE  m \in S
  <2>1. PICK f : f = [n \in 0 .. m - 1 |-> IF n = 0 THEN a ELSE g[f[n - 1]]]
    BY <1>2
  <2> DEFINE u == [n \in 0 .. m |-> IF n < m THEN f[n] ELSE g[f[m - 1]]]
  <2>2. ASSUME NEW n \in 0 .. m
        PROVE  u[n] = IF n = 0 THEN a ELSE g[u[n - 1]]
    <3>1. CASE n = 0
      BY <2>1, <3>1
    <3>2. CASE n \in 1 .. m - 1
      <4>1. u[n] = f[n] /\ u[n - 1] = f[n - 1]
        BY <3>2
      <4>2. f[n] = g[f[n - 1]]
        BY <2>1, <3>2
      <4>3. QED BY <3>2, <4>1, <4>2
    <3>3. CASE n = m
      BY <3>3
    <3>4. QED BY <3>1, <3>2, <3>3
  <2>3. u = [n \in 0 .. m |-> u[n]]
    OBVIOUS
  <2> HIDE DEF u
  <2>4. u = [n \in 0 .. m |-> IF n = 0 THEN a ELSE g[u[n - 1]]]
    BY <2>2, <2>3
  <2>5. Exists(m)
    BY <2>4
  <2>6. QED BY <2>5
<1>3. N \in S
  <2> HIDE DEF S
  <2>1. QED BY <1>1, <1>2, UpTo
<1>4. PICK f : f = [n \in 0 .. N |-> IF n = 0 THEN a ELSE g[f[n - 1]]]
  BY <1>3
<1>5. f[0] = a /\ \A n \in 1 .. N : f[n] = g[f[n - 1]]
  BY <1>4
<1>6. f = [n \in 0 .. N |-> f[n]]
  BY <1>4
<1>7. QED BY <1>5, <1>6 DEF Iteration

\* A byte times 3
Triple(x) == Xor(x, XTIME(x))

LEMMA PowersOf3 ==
  /\ pow[0] = {0}
  /\ \A n \in 0 .. 254 : pow[n + 1] = Triple(pow[n])
  /\ \A n \in 0 .. 255 : pow[n] \in Byte
<1>1. Powers = [n \in 0 .. 255 |-> IF n = 0 THEN {0} ELSE Threefold[Powers[n - 1]]]
  <2>1. \E f : f = [n \in 0 .. 255 |-> IF n = 0 THEN {0} ELSE Threefold[f[n - 1]]]
    <3>1. PICK f : Iteration(f, 255, {0}, Threefold)
      BY Iterates
    <3>2. \A n \in 0 .. 255 : f[n] = IF n = 0 THEN {0} ELSE Threefold[f[n - 1]]
      <4>1. f[0] = {0} /\ \A n \in 1 .. 255 : f[n] = Threefold[f[n - 1]]
        BY <3>1 DEF Iteration
      <4>2. \A n \in 0 .. 255 : n = 0 \/ n \in 1 .. 255
        OBVIOUS
      <4>3. \A n \in 1 .. 255 : n # 0
        OBVIOUS
      <4>4. QED BY <4>1, <4>2, <4>3, Zenon
    <3>3. f = [n \in 0 .. 255 |-> IF n = 0 THEN {0} ELSE Threefold[f[n - 1]]]
      BY <3>1, <3>2 DEF Iteration
    <3>4. QED BY <3>3
  <2>2. QED BY <2>1, Zenon DEF Powers
<1>2. pow = Powers
  BY TableIs DEF pow
<1>3. pow[0] = {0} /\ \A n \in 1 .. 255 : pow[n] = Threefold[pow[n - 1]]
  <2>1. \A n \in 0 .. 255 : Powers[n] = IF n = 0 THEN {0} ELSE Threefold[Powers[n - 1]]
    BY <1>1, Zenon
  <2>2. \A n \in 1 .. 255 : Powers[n] = Threefold[Powers[n - 1]]
    BY <2>1
  <2>3. Powers[0] = {0}
    BY <2>1
  <2>4. QED BY <1>2, <2>2, <2>3
<1>4. \A x \in Byte : Threefold[x] = Triple(x) /\ Triple(x) \in Byte
  BY TableIs, XorType, XTIMEType DEF Threefold, Triple
<1> DEFINE S == {n \in 0 .. 255 : pow[n] \in Byte}
<1>5. \A n \in 0 .. 255 : n \in S
  <2>1. 0 \in S
    BY <1>3 DEF Byte, Bit
  <2>2. \A n \in 1 .. 255 : n - 1 \in S => n \in S
    BY <1>3, <1>4
  <2> HIDE DEF S
  <2>3. QED BY <2>1, <2>2, UpTo
<1>6. \A n \in 0 .. 254 : pow[n + 1] = Threefold[pow[n]] /\ pow[n] \in Byte
  <2>1. \A n \in 0 .. 254 : n + 1 \in 1 .. 255 /\ n + 1 - 1 = n /\ n \in 0 .. 255
    OBVIOUS
  <2>2. QED BY <1>3, <1>5, <2>1
<1>7. QED BY <1>3, <1>4, <1>5, <1>6

LEMMA XorZero == \A a : Xor(a, {}) = a /\ Xor({}, a) = a /\ Xor(a, a) = {}
  BY DEF Xor

LEMMA XorSwap == \A a, b, c, d : Xor(Xor(a, b), Xor(c, d)) = Xor(Xor(a, c), Xor(b, d))
  BY DEF Xor

LEMMA XTIMEZero == XTIME({}) = {}
  BY DEF XTIME, Xor

LEMMA ShiftedType ==
  ASSUME NEW a, NEW b \in Byte, NEW p \in Byte, NEW k
  PROVE  Shifted(a, b, p, k) \in Byte
<1>1. {} \in Byte
  BY DEF Byte
<1>2. QED BY <1>1, XorType, XTIMEType DEF Shifted

LEMMA ShiftedXor ==
  ASSUME NEW a, NEW b \in Byte, NEW c \in Byte, NEW p \in Byte, NEW q \in Byte, NEW k
  PROVE  Shifted(a, Xor(b, c), Xor(p, q), k) = Xor(Shifted(a, b, p, k), Shifted(a, c, q, k))
<1>1. XTIME(Xor(p, q)) = Xor(XTIME(p), XTIME(q))
  BY XTIMEXor
<1>2. Xor(Xor(XTIME(p), XTIME(q)), Xor(b, c)) = Xor(Xor(XTIME(p), b), Xor(XTIME(q), c))
  BY XorSwap
<1>3. Xor(Xor(XTIME(p), XTIME(q)), {}) = Xor(Xor(XTIME(p), {}), Xor(XTIME(q), {}))
  BY XorZero
<1>4. QED BY <1>1, <1>2, <1>3 DEF Shifted

LEMMA ShiftedXTIME ==
  ASSUME NEW a, NEW b \in Byte, NEW p \in Byte, NEW k
  PROVE  Shifted(a, XTIME(b), XTIME(p), k) = XTIME(Shifted(a, b, p, k))
<1>1. CASE k \in a
  BY <1>1, XTIMEXor, XTIMEType, Zenon DEF Shifted
<1>2. CASE k \notin a
  BY <1>2, XorZero, Zenon DEF Shifted
<1>3. QED BY <1>1, <1>2

LEMMA TimesFacts ==
  ASSUME NEW a \in Byte, NEW b \in Byte, NEW c \in Byte
  PROVE  /\ Times(a, b) \in Byte
         /\ Times(a, Xor(b, c)) = Xor(Times(a, b), Times(a, c))
         /\ Times(a, XTIME(b)) = XTIME(Times(a, b))
<1> DEFINE x == Xor(b, c)
           y == XTIME(b)
           p7 == Shifted(a, b, {}, 7)
           p6 == Shifted(a, b, p7, 6)
           p5 == Shifted(a, b, p6, 5)
           p4 == Shifted(a, b, p5, 4)
           p3 == Shifted(a, b, p4, 3)
           p2 == Shifted(a, b, p3, 2)
           p1 == Shifted(a, b, p2, 1)
           p0 == Shifted(a, b, p1, 0)
           q7 == Shifted(a, c, {}, 7)
           q6 == Shifted(a, c, q7, 6)
           q5 == Shifted(a, c, q6, 5)
           q4 == Shifted(a, c, q5, 4)
           q3 == Shifted(a, c, q4, 3)
           q2 == Shifted(a, c, q3, 2)
           q1 == Shifted(a, c, q2, 1)
           q0 == Shifted(a, c, q1, 0)
           r7 == Shifted(a, x, {}, 7)
           r6 == Shifted(a, x, r7, 6)
           r5 == Shifted(a, x, r6, 5)
           r4 == Shifted(a, x, r5, 4)
           r3 == Shifted(a, x, r4, 3)
           r2 == Shifted(a, x, r3, 2)
           r1 == Shifted(a, x, r2, 1)
           r0 == Shifted(a, x, r1, 0)
           s7 == Shifted(a, y, {}, 7)
           s6 == Shifted(a, y, s7, 6)
           s5 == Shifted(a, y, s6, 5)
           s4 == Shifted(a, y, s5, 4)
           s3 == Shifted(a, y, s4, 3)
           s2 == Shifted(a, y, s3, 2)
           s1 == Shifted(a, y, s2, 1)
           s0 == Shifted(a, y, s1, 0)
<1>1. Times(a, b) = p0 /\ Times(a, c) = q0 /\ Times(a, x) = r0 /\ Times(a, y) = s0
  BY Zenon DEF Times
<1>2. /\ {} \in Byte
      /\ {} = Xor({}, {}) /\ {} = XTIME({})
  BY XorZero, XTIMEZero DEF Byte
<1>3. /\ p7 \in Byte /\ q7 \in Byte
      /\ r7 = Xor(p7, q7) /\ s7 = XTIME(p7)
  <2>1. p7 \in Byte /\ q7 \in Byte
    BY <1>2, ShiftedType
  <2>2. Shifted(a, x, Xor({}, {}), 7) = Xor(p7, q7)
    BY <1>2, ShiftedXor
  <2>3. Shifted(a, y, XTIME({}), 7) = XTIME(p7)
    BY <1>2, ShiftedXTIME
  <2>4. QED BY <1>2, <2>1, <2>2, <2>3
<1> HIDE DEF p7, q7, r7, s7
<1>4. /\ p6 \in Byte /\ q6 \in Byte
      /\ r6 = Xor(p6, q6) /\ s6 = XTIME(p6)
  <2>1. p6 \in Byte /\ q6 \in Byte
    BY <1>3, ShiftedType
  <2>2. Shifted(a, x, Xor(p7, q7), 6) = Xor(p6, q6)
    BY <1>3, ShiftedXor
  <2>3. Shifted(a, y, XTIME(p7), 6) = XTIME(p6)
    BY <1>3, ShiftedXTIME
  <2>4. QED BY <1>3, <2>1, <2>2, <2>3
<1> HIDE DEF p6, q6, r6, s6
<1>5. /\ p5 \in Byte /\ q5 \in Byte
      /\ r5 = Xor(p5, q5) /\ s5 = XTIME(p5)
  <2>1. p5 \in Byte /\ q5 \in Byte
    BY <1>4, ShiftedType
  <2>2. Shifted(a, x, Xor(p6, q6), 5) = Xor(p5, q5)
    BY <1>4, ShiftedXor
  <2>3. Shifted(a, y, XTIME(p6), 5) = XTIME(p5)
    BY <1>4, ShiftedXTIME
  <2>4. QED BY <1>4, <2>1, <2>2, <2>3
<1> HIDE DEF p5, q5, r5, s5
<1>6. /\ p4 \in Byte /\ q4 \in Byte
      /\ r4 = Xor(p4, q4) /\ s4 = XTIME(p4)
  <2>1. p4 \in Byte /\ q4 \in Byte
    BY <1>5, ShiftedType
  <2>2. Shifted(a, x, Xor(p5, q5), 4) = Xor(p4, q4)
    BY <1>5, ShiftedXor
  <2>3. Shifted(a, y, XTIME(p5), 4) = XTIME(p4)
    BY <1>5, ShiftedXTIME
  <2>4. QED BY <1>5, <2>1, <2>2, <2>3
<1> HIDE DEF p4, q4, r4, s4
<1>7. /\ p3 \in Byte /\ q3 \in Byte
      /\ r3 = Xor(p3, q3) /\ s3 = XTIME(p3)
  <2>1. p3 \in Byte /\ q3 \in Byte
    BY <1>6, ShiftedType
  <2>2. Shifted(a, x, Xor(p4, q4), 3) = Xor(p3, q3)
    BY <1>6, ShiftedXor
  <2>3. Shifted(a, y, XTIME(p4), 3) = XTIME(p3)
    BY <1>6, ShiftedXTIME
  <2>4. QED BY <1>6, <2>1, <2>2, <2>3
<1> HIDE DEF p3, q3, r3, s3
<1>8. /\ p2 \in Byte /\ q2 \in Byte
      /\ r2 = Xor(p2, q2) /\ s2 = XTIME(p2)
  <2>1. p2 \in Byte /\ q2 \in Byte
    BY <1>7, ShiftedType
  <2>2. Shifted(a, x, Xor(p3, q3), 2) = Xor(p2, q2)
    BY <1>7, ShiftedXor
  <2>3. Shifted(a, y, XTIME(p3), 2) = XTIME(p2)
    BY <1>7, ShiftedXTIME
  <2>4. QED BY <1>7, <2>1, <2>2, <2>3
<1> HIDE DEF p2, q2, r2, s2
<1>9. /\ p1 \in Byte /\ q1 \in Byte
      /\ r1 = Xor(p1, q1) /\ s1 = XTIME(p1)
  <2>1. p1 \in Byte /\ q1 \in Byte
    BY <1>8, ShiftedType
  <2>2. Shifted(a, x, Xor(p2, q2), 1) = Xor(p1, q1)
    BY <1>8, ShiftedXor
  <2>3. Shifted(a, y, XTIME(p2), 1) = XTIME(p1)
    BY <1>8, ShiftedXTIME
  <2>4. QED BY <1>8, <2>1, <2>2, <2>3
<1> HIDE DEF p1, q1, r1, s1
<1>10. /\ p0 \in Byte /\ q0 \in Byte
      /\ r0 = Xor(p0, q0) /\ s0 = XTIME(p0)
  <2>1. p0 \in Byte /\ q0 \in Byte
    BY <1>9, ShiftedType
  <2>2. Shifted(a, x, Xor(p1, q1), 0) = Xor(p0, q0)
    BY <1>9, ShiftedXor
  <2>3. Shifted(a, y, XTIME(p1), 0) = XTIME(p0)
    BY <1>9, ShiftedXTIME
  <2>4. QED BY <1>9, <2>1, <2>2, <2>3
<1> HIDE DEF p0, q0, r0, s0
<1>11. QED BY <1>1, <1>10

LEMMA TimesTriple ==
  \A a, b \in Byte : Times(a, Triple(b)) = Triple(Times(a, b))
  BY TimesFacts, XTIMEType DEF Triple

LEMMA TimesOne == ASSUME NEW a \in Byte PROVE Times(a, {0}) = a
<1> DEFINE Above(k) == {j - k : j \in {q \in a : q >= k}}
<1>1. ASSUME NEW k \in 0 .. 7
      PROVE  Shifted(a, {0}, Above(k + 1), k) = Above(k)
  <2>1. \A m : m \in Above(k + 1) <=> m \in 0 .. 6 /\ m + k + 1 \in a
    BY DEF Byte, Bit
  <2>2. \A m : m \in Above(k) <=> m \in 0 .. 7 /\ m + k \in a
    BY DEF Byte, Bit
  <2> DEFINE U == Above(k + 1)
             V == Above(k)
  <2> HIDE DEF U, V, Above
  <2>3. 7 \notin U /\ U \subseteq 0 .. 6
    BY <2>1 DEF U
  <2>4. XTIME(U) = {m + 1 : m \in U}
    BY <2>3 DEF XTIME, Xor
  <2>5. \A m : m \in {j + 1 : j \in U} <=> m \in 1 .. 7 /\ m + k \in a
    <3>1. \A j : j \in U <=> j \in 0 .. 6 /\ j + k + 1 \in a
      BY <2>1 DEF U
    <3>2. ASSUME NEW j \in U
          PROVE  j + 1 \in 1 .. 7 /\ j + 1 + k \in a
      <4>1. j \in 0 .. 6 /\ j + k + 1 \in a
        BY <3>1
      <4>2. j + k + 1 = j + 1 + k
        BY <4>1
      <4>3. QED BY <4>1, <4>2
    <3>3. ASSUME NEW m \in 1 .. 7, m + k \in a
          PROVE  m - 1 \in U /\ m = m - 1 + 1
      <4>1. m - 1 \in 0 .. 6 /\ m - 1 + k + 1 = m + k /\ m = m - 1 + 1
        OBVIOUS
      <4>2. QED BY <3>1, <3>3, <4>1
    <3>4. QED BY <3>2, <3>3
  <2>6. \A m : m \in V <=> m \in 0 .. 7 /\ m + k \in a
    BY <2>2 DEF V
  <2>7. Xor(XTIME(U), IF k \in a THEN {0} ELSE {}) = V
    BY <2>4, <2>5, <2>6 DEF Xor
  <2>8. QED BY <2>7 DEF Shifted, U, V
<1>2. Above(8) = {} /\ Above(0) = a
  <2>1. a \subseteq 0 .. 7
    BY DEF Byte, Bit
  <2>2. \A q \in a : ~(q >= 8) /\ q >= 0 /\ q - 0 = q
    BY <2>1
  <2>3. {q \in a : q >= 8} = {} /\ {q \in a : q >= 0} = a
    BY <2>2, Zenon
  <2>4. QED BY <2>2, <2>3, Zenon
<1> HIDE DEF Above
<1>3. Shifted(a, {0}, {}, 7) = Above(7)
  BY <1>1, <1>2
<1>4. /\ Shifted(a, {0}, Above(7), 6) = Above(6) /\ Shifted(a, {0}, Above(6), 5) = Above(5)
      /\ Shifted(a, {0}, Above(5), 4) = Above(4) /\ Shifted(a, {0}, Above(4), 3) = Above(3)
      /\ Shifted(a, {0}, Above(3), 2) = Above(2) /\ Shifted(a, {0}, Above(2), 1) = Above(1)
      /\ Shifted(a, {0}, Above(1), 0) = a
  BY <1>1, <1>2
<1>5. QED BY <1>3, <1>4 DEF Times

\* A product adds the exponents.
LEMMA PowerTimesPower ==
  ASSUME NEW m \in 0 .. 255
  PROVE  \A n \in 0 .. 255 : Times(pow[m], pow[n]) = pow[(m + n) % 255]
<1> DEFINE S == {n \in 0 .. 255 : Times(pow[m], pow[n]) = pow[(m + n) % 255]}
<1>1. 0 \in S
  <2>1. Times(pow[m], pow[0]) = pow[m]
    BY PowersOf3, TimesOne
  <2>2. (m + 0) % 255 = IF m = 255 THEN 0 ELSE m
    OBVIOUS
  <2>3. pow[255] = pow[0]
    BY PowersOf3, GeneratorAssumption
  <2>4. Times(pow[m], pow[0]) = pow[(m + 0) % 255]
    BY <2>1, <2>2, <2>3
  <2>5. QED BY <2>4
<1>2. ASSUME NEW n \in 1 .. 255, n - 1 \in S
      PROVE  n \in S
  <2> DEFINE e == (m + n - 1) % 255
  <2>1. e \in 0 .. 254 /\ e = (m + (n - 1)) % 255
    OBVIOUS
  <2>2. (m + n) % 255 = IF e = 254 THEN 0 ELSE e + 1
    OBVIOUS
  <2> HIDE DEF e
  <2>3. Times(pow[m], pow[n - 1]) = pow[e]
    BY <1>2, <2>1
  <2>4. pow[n] = Triple(pow[n - 1]) /\ pow[n - 1] \in Byte /\ pow[m] \in Byte
    <3>1. n - 1 \in 0 .. 254 /\ n - 1 + 1 = n
      OBVIOUS
    <3>2. QED BY <3>1, PowersOf3
  <2>5. Times(pow[m], pow[n]) = Triple(pow[e])
    BY <2>3, <2>4, TimesTriple
  <2>6. Triple(pow[e]) = pow[e + 1]
    BY <2>1, PowersOf3
  <2>7. pow[255] = pow[0]
    BY PowersOf3, GeneratorAssumption
  <2>8. pow[e + 1] = pow[(m + n) % 255]
    BY <2>1, <2>2, <2>7
  <2>9. QED BY <2>5, <2>6, <2>8
<1>3. \A n \in 0 .. 255 : n \in S
  <2> HIDE DEF S
  <2>1. QED BY <1>1, <1>2, UpTo
<1>4. QED BY <1>3

LEMMA Logs ==
  ASSUME NEW x \in Byte, x # {}
  PROVE  log[x] \in 1 .. 255 /\ pow[log[x]] = x
<1>1. \E n \in 1 .. 255 : pow[n] = x
  BY GeneratorAssumption
<1>2. log[x] = CHOOSE n \in 1 .. 255 : pow[n] = x
  BY TableIs DEF log
<1>3. QED BY <1>1, <1>2

LEMMA TimesZero == ASSUME NEW a \in Byte PROVE Times(a, {}) = {}
<1>1. {} \in Byte
  BY DEF Byte
<1>2. Times(a, Xor({}, {})) = Xor(Times(a, {}), Times(a, {}))
  BY <1>1, TimesFacts
<1>3. QED BY <1>2, XorZero

\* The inverse the standard asks for is the power the code looks up.
LEMMA InverseIs ==
  ASSUME NEW b \in Byte, b # {}
  PROVE  /\ InverseOf(b) = pow[255 - log[b]] /\ InverseOf(b) \in Byte
         /\ Times(b, InverseOf(b)) = {0} /\ Times(InverseOf(b), b) = {0}
         /\ \A d \in Byte : Times(b, d) = {0} => d = InverseOf(b)
<1> DEFINE k == log[b]
           c == pow[255 - k]
<1>1. k \in 1 .. 255 /\ pow[k] = b /\ 255 - k \in 0 .. 254
  BY Logs
<1>2. (k + (255 - k)) % 255 = 0
  BY <1>1
<1>3. c \in Byte /\ Times(b, c) = {0} /\ Times(c, b) = {0}
  <2>1. Times(pow[k], pow[255 - k]) = pow[(k + (255 - k)) % 255]
    <3>1. k \in 0 .. 255 /\ 255 - k \in 0 .. 255
      BY <1>1
    <3>2. QED BY <3>1, PowerTimesPower
  <2>2. Times(pow[255 - k], pow[k]) = pow[((255 - k) + k) % 255]
    <3>1. k \in 0 .. 255 /\ 255 - k \in 0 .. 255
      BY <1>1
    <3>2. QED BY <3>1, PowerTimesPower
  <2>3. (255 - k) + k = k + (255 - k)
    BY <1>1
  <2>4. QED BY <1>1, <1>2, <2>1, <2>2, <2>3, PowersOf3
<1>4. ASSUME NEW d \in Byte, Times(b, d) = {0}
      PROVE  d = c
  <2>1. d # {}
    BY <1>4, TimesZero
  <2> DEFINE j == log[d]
  <2>2. j \in 1 .. 255 /\ pow[j] = d
    BY <2>1, Logs
  <2> HIDE DEF j, k
  <2> DEFINE e == (k + j) % 255
  <2>3. e \in 0 .. 254 /\ \E q \in 0 .. 2 : k + j = 255 * q + e
    BY <1>1, <2>2
  <2>4. pow[e] = {0}
    <3>1. Times(pow[k], pow[j]) = pow[e]
      <4>1. k \in 0 .. 255 /\ j \in 0 .. 255
        BY <1>1, <2>2
      <4>2. QED BY <4>1, PowerTimesPower
    <3>2. QED BY <1>1, <1>4, <2>2, <3>1
  <2> HIDE DEF e
  <2>5. Times(pow[e], pow[255 - k]) = pow[j % 255]
    <3>1. (e + (255 - k)) % 255 = j % 255
      <4>1. PICK q \in 0 .. 2 : k + j = 255 * q + e
        BY <2>3
      <4>2. CASE q = 0
        BY <1>1, <2>2, <2>3, <4>1, <4>2
      <4>3. CASE q = 1
        BY <1>1, <2>2, <2>3, <4>1, <4>3
      <4>4. CASE q = 2
        BY <1>1, <2>2, <2>3, <4>1, <4>4
      <4>5. QED BY <4>2, <4>3, <4>4
    <3>2. e \in 0 .. 255 /\ 255 - k \in 0 .. 255
      BY <1>1, <2>3
    <3>3. Times(pow[e], pow[255 - k]) = pow[(e + (255 - k)) % 255]
      BY <3>2, PowerTimesPower
    <3>4. QED BY <3>1, <3>3
  <2>6. Times(pow[0], pow[255 - k]) = pow[(0 + (255 - k)) % 255]
    <3>1. 0 \in 0 .. 255 /\ 255 - k \in 0 .. 255
      BY <1>1
    <3>2. QED BY <3>1, PowerTimesPower
  <2>7. (0 + (255 - k)) % 255 = 255 - k
    BY <1>1
  <2>8. pow[j % 255] = pow[j]
    <3>1. pow[255] = pow[0]
      BY PowersOf3, GeneratorAssumption
    <3>2. j % 255 = IF j = 255 THEN 0 ELSE j
      BY <2>2
    <3>3. QED BY <3>1, <3>2
  <2>9. pow[e] = pow[0]
    BY <2>4, PowersOf3
  <2>10. QED BY <2>2, <2>5, <2>6, <2>7, <2>8, <2>9
<1> HIDE DEF c, k
<1>5. InverseOf(b) = c
  BY <1>3, <1>4 DEF InverseOf
<1>6. QED BY <1>3, <1>4, <1>5 DEF c, k

-----------------------------------------------------------------------------
(* The tables. *)

LEMMA Rotated ==
  ASSUME NEW x \in Byte, NEW n \in 0 .. 7, NEW k \in Bit
  PROVE  k \in {(j + n) % 8 : j \in x} <=> (k + 8 - n) % 8 \in x
<1>1. (k + 8 - n) % 8 \in Bit /\ (((k + 8 - n) % 8) + n) % 8 = k
  BY DEF Bit
<1>2. ASSUME NEW j \in x, k = (j + n) % 8
      PROVE  (k + 8 - n) % 8 = j
  <2>1. j \in 0 .. 7
    BY DEF Byte, Bit
  <2>2. QED BY <1>2, <2>1
<1>3. QED BY <1>1, <1>2

\* The sum of a byte and its rotations to which the S-box adds 16#63#
Sum(x) ==
  LET rotated(n) == {(k + n) % 8 : k \in x}
  IN Xor(Xor(Xor(Xor(x, rotated(1)), rotated(2)), rotated(3)), rotated(4))

LEMMA AffineIs == ASSUME NEW x \in Byte PROVE Affine(x) = Xor(Sum(x), ByteOf(99))
<1> DEFINE r(n) == {(k + n) % 8 : k \in x}
           bit(k) == k % 8 \in x
<1>1. ASSUME NEW k \in Bit
      PROVE  /\ k \in x <=> bit(k)
             /\ k \in r(4) <=> bit(k + 4)
             /\ k \in r(3) <=> bit(k + 5)
             /\ k \in r(2) <=> bit(k + 6)
             /\ k \in r(1) <=> bit(k + 7)
  <2>1. k + 8 - 4 = k + 4 /\ k + 8 - 3 = k + 5 /\ k + 8 - 2 = k + 6 /\ k + 8 - 1 = k + 7 /\ k % 8 = k
    BY DEF Bit
  <2>2. QED BY <2>1, Rotated
<1>2. r(1) \subseteq Bit /\ r(2) \subseteq Bit /\ r(3) \subseteq Bit /\ r(4) \subseteq Bit
      /\ x \subseteq Bit /\ ByteOf(99) \subseteq Bit
  <2>1. \A n \in 1 .. 4 : \A k \in x : (k + n) % 8 \in Bit
    BY DEF Byte, Bit
  <2>2. QED BY <2>1 DEF Byte, ByteOf
<1>3. ASSUME NEW k \in Bit
      PROVE  k \in Affine(x) <=>
         (((((k % 8 \in x) # ((k + 4) % 8 \in x)) # ((k + 5) % 8 \in x)) # ((k + 6) % 8 \in x)) # ((k + 7) % 8 \in x)) # (k \in ByteOf(99))
  BY Zenon DEF Affine
<1>4. \A k \in Bit : k \in Affine(x) <=>
        ((((((k \in x) # (k \in r(4))) # (k \in r(3))) # (k \in r(2))) # (k \in r(1))) # (k \in ByteOf(99)))
  BY <1>1, <1>3
<1> DEFINE R1 == r(1)
           R2 == r(2)
           R3 == r(3)
           R4 == r(4)
           c == ByteOf(99)
<1>5. Affine(x) \subseteq Bit
  BY DEF Affine
<1>6. Sum(x) = Xor(Xor(Xor(Xor(x, R1), R2), R3), R4)
  BY Zenon DEF Sum
<1>7. \A k \in Bit : k \in Affine(x) <=>
        ((((((k \in x) # (k \in R4)) # (k \in R3)) # (k \in R2)) # (k \in R1)) # (k \in c))
  BY <1>4
<1>8. R1 \subseteq Bit /\ R2 \subseteq Bit /\ R3 \subseteq Bit /\ R4 \subseteq Bit /\ c \subseteq Bit
      /\ x \subseteq Bit
  BY <1>2 
<1> HIDE DEF R1, R2, R3, R4, c
<1>9. \A k \in Bit : k \in Affine(x) <=> k \in Xor(Xor(Xor(Xor(Xor(x, R1), R2), R3), R4), c)
  BY <1>7 DEF Xor
<1>10. Xor(Xor(Xor(Xor(Xor(x, R1), R2), R3), R4), c) \subseteq Bit
  BY <1>8 DEF Xor
<1>11. Affine(x) = Xor(Xor(Xor(Xor(Xor(x, R1), R2), R3), R4), c)
  BY <1>5, <1>9, <1>10
<1>12. QED BY <1>6, <1>11 DEF c

LEMMA ByteOf99 == ByteOf(99) \in Byte /\ Affine({}) = ByteOf(99)
<1>1. ByteOf(99) \in Byte
  BY DEF ByteOf, Byte
<1>2. {} \in Byte /\ Sum({}) = {}
  BY DEF Sum, Xor, Byte
<1>3. QED BY <1>1, <1>2, AffineIs, XorZero

\* The S-box the code generates from its logarithms is the standard's.
LEMMA SboxIsStandard ==
  ASSUME NEW b \in Byte
  PROVE  /\ SboxTable[b] = Affine(InverseOf(b)) /\ StandardSBox[b] = SboxTable[b]
         /\ SboxTable[b] \in Byte /\ InverseOf(b) \in Byte
<1>1. SboxTable = [a \in Byte |-> IF a = {} THEN ByteOf(99) ELSE Xor(Sum(pow[255 - log[a]]), ByteOf(99))]
  BY TableIs, Zenon DEF SboxTable, Sum
<1>2. StandardSBox[b] = Affine(InverseOf(b))
  BY TableIs DEF StandardSBox
<1>3. CASE b = {}
  <2>1. InverseOf(b) = {} /\ InverseOf(b) \in Byte
    BY <1>3 DEF InverseOf, Byte
  <2>2. QED BY <1>1, <1>2, <1>3, <2>1, ByteOf99
<1>4. CASE b # {}
  <2>1. InverseOf(b) = pow[255 - log[b]] /\ InverseOf(b) \in Byte
    BY <1>4, InverseIs
  <2>2. SboxTable[b] = Xor(Sum(InverseOf(b)), ByteOf(99))
    BY <1>1, <1>4, <2>1
  <2>3. Affine(InverseOf(b)) = Xor(Sum(InverseOf(b)), ByteOf(99))
    BY <2>1, AffineIs
  <2>4. Affine(InverseOf(b)) \in Byte
    BY DEF Affine, Byte
  <2>5. QED BY <1>2, <2>1, <2>2, <2>3, <2>4
<1>5. QED BY <1>3, <1>4

\* The affine transformation loses nothing: it is undone by a sum of three bits.
LEMMA AffineInjective ==
  ASSUME NEW x \in Byte, NEW y \in Byte, Affine(x) = Affine(y)
  PROVE  x = y
<1> DEFINE A(k) == k \in x
           B(k) == k \in y
<1>1. ASSUME NEW k \in Bit, NEW z \in Byte
      PROVE  k \in Affine(z) <=>
         (((((k \in z) # ((k + 4) % 8 \in z)) # ((k + 5) % 8 \in z)) # ((k + 6) % 8 \in z)) # ((k + 7) % 8 \in z)) # (k \in ByteOf(99))
  <2>1. k % 8 = k
    BY DEF Bit
  <2>2. k \in Affine(z) <=>
         (((((k % 8 \in z) # ((k + 4) % 8 \in z)) # ((k + 5) % 8 \in z)) # ((k + 6) % 8 \in z)) # ((k + 7) % 8 \in z)) # (k \in ByteOf(99))
    BY Zenon DEF Affine
  <2>3. QED BY <2>1, <2>2
<1>2. ASSUME NEW k \in Bit
      PROVE  ((((k \in x) # ((k + 4) % 8 \in x)) # ((k + 5) % 8 \in x)) # ((k + 6) % 8 \in x)) # ((k + 7) % 8 \in x)
         <=> ((((k \in y) # ((k + 4) % 8 \in y)) # ((k + 5) % 8 \in y)) # ((k + 6) % 8 \in y)) # ((k + 7) % 8 \in y)
  BY <1>1
<1>3. /\ ((((A(0)) # (A(4))) # (A(5))) # (A(6))) # (A(7)) <=> ((((B(0)) # (B(4))) # (B(5))) # (B(6))) # (B(7))
      /\ ((((A(1)) # (A(5))) # (A(6))) # (A(7))) # (A(0)) <=> ((((B(1)) # (B(5))) # (B(6))) # (B(7))) # (B(0))
      /\ ((((A(2)) # (A(6))) # (A(7))) # (A(0))) # (A(1)) <=> ((((B(2)) # (B(6))) # (B(7))) # (B(0))) # (B(1))
      /\ ((((A(3)) # (A(7))) # (A(0))) # (A(1))) # (A(2)) <=> ((((B(3)) # (B(7))) # (B(0))) # (B(1))) # (B(2))
      /\ ((((A(4)) # (A(0))) # (A(1))) # (A(2))) # (A(3)) <=> ((((B(4)) # (B(0))) # (B(1))) # (B(2))) # (B(3))
      /\ ((((A(5)) # (A(1))) # (A(2))) # (A(3))) # (A(4)) <=> ((((B(5)) # (B(1))) # (B(2))) # (B(3))) # (B(4))
      /\ ((((A(6)) # (A(2))) # (A(3))) # (A(4))) # (A(5)) <=> ((((B(6)) # (B(2))) # (B(3))) # (B(4))) # (B(5))
      /\ ((((A(7)) # (A(3))) # (A(4))) # (A(5))) # (A(6)) <=> ((((B(7)) # (B(3))) # (B(4))) # (B(5))) # (B(6))
  BY <1>2 DEF Bit
<1>4. /\ (A(0) <=> B(0)) /\ (A(1) <=> B(1)) /\ (A(2) <=> B(2)) /\ (A(3) <=> B(3))
      /\ (A(4) <=> B(4)) /\ (A(5) <=> B(5)) /\ (A(6) <=> B(6)) /\ (A(7) <=> B(7))
  BY <1>3
<1>5. \A k \in Bit : k \in x <=> k \in y
  BY <1>4 DEF Bit
<1>6. QED BY <1>5 DEF Byte

LEMMA InverseInjective ==
  ASSUME NEW b \in Byte, NEW c \in Byte, InverseOf(b) = InverseOf(c)
  PROVE  b = c
<1>1. \A x \in Byte : InverseOf(x) = {} <=> x = {}
  <2>1. {0} # {}
    OBVIOUS
  <2>2. ASSUME NEW x \in Byte, x # {}
        PROVE  InverseOf(x) # {}
    <3>1. Times(x, InverseOf(x)) = {0}
      BY <2>2, InverseIs
    <3>2. QED BY <2>1, <3>1, TimesZero
  <2>3. QED BY <2>2 DEF InverseOf
<1>2. CASE b # {} /\ c # {}
  <2>1. InverseOf(b) \in Byte /\ InverseOf(b) # {}
    BY <1>1, <1>2, InverseIs
  <2>2. Times(InverseOf(b), b) = {0} /\ Times(InverseOf(b), c) = {0}
    BY <1>2, InverseIs
  <2>3. b = InverseOf(InverseOf(b)) /\ c = InverseOf(InverseOf(b))
    BY <2>1, <2>2, InverseIs
  <2>4. QED BY <2>3
<1>3. QED BY <1>1, <1>2

\* So that the reverse S-box, which the code fills as it goes, has one entry
\* for each byte.
LEMMA ReverseSboxInverts == ASSUME NEW b \in Byte PROVE ReverseSbox[SboxTable[b]] = b
<1>1. \A c \in Byte : SboxTable[c] = SboxTable[b] => c = b
  BY SboxIsStandard, AffineInjective, InverseInjective
<1>2. ReverseSbox[SboxTable[b]] = CHOOSE c \in Byte : SboxTable[c] = SboxTable[b]
  <2>1. ReverseSbox = [a \in Byte |-> CHOOSE c \in Byte : SboxTable[c] = a]
    BY TableIs DEF ReverseSbox
  <2>2. QED BY <2>1, SboxIsStandard
<1>3. QED BY <1>1, <1>2

\* The product MUL looks up is the product.
LEMMA MULIs ==
  ASSUME NEW m, ByteOf(m) \in Byte, ByteOf(m) # {}, NEW x \in Byte
  PROVE  MUL(m, x) = Times(ByteOf(m), x)
<1>1. CASE x = {}
  BY <1>1, TimesZero DEF MUL
<1>2. CASE x # {}
  <2> DEFINE p == log[ByteOf(m)]
             q == log[x]
  <2>1. p \in 0 .. 255 /\ pow[p] = ByteOf(m) /\ q \in 0 .. 255 /\ pow[q] = x
    <3>1. p \in 1 .. 255 /\ pow[p] = ByteOf(m) /\ q \in 1 .. 255 /\ pow[q] = x
      BY <1>2, Logs
    <3>2. QED BY <3>1
  <2>2. Times(pow[p], pow[q]) = pow[(p + q) % 255]
    <3> HIDE DEF p, q
    <3>1. QED BY <2>1, PowerTimesPower
  <2>3. QED BY <1>2, <2>1, <2>2 DEF MUL
<1>3. QED BY <1>1, <1>2

\* The multiples MixColumns and its inverse take of a byte
Multiple9(x)  == Xor(XTIME(XTIME(XTIME(x))), x)
Multiple11(x) == Xor(XTIME(Xor(XTIME(XTIME(x)), x)), x)
Multiple13(x) == Xor(XTIME(XTIME(Xor(XTIME(x), x))), x)
Multiple14(x) == XTIME(Xor(XTIME(Xor(XTIME(x), x)), x))

LEMMA ByteOfMultiples ==
  /\ ByteOf(9) = {0, 3} /\ ByteOf(11) = {0, 1, 3}
  /\ ByteOf(13) = {0, 2, 3} /\ ByteOf(14) = {1, 2, 3}
  BY DEF ByteOf, Bit

LEMMA TimesByBit ==
  ASSUME NEW a, NEW b, 7 \notin a, 6 \notin a, 5 \notin a, 4 \notin a, 3 \in a
  PROVE  Times(a, b) = Shifted(a, b, Shifted(a, b, Shifted(a, b, b, 2), 1), 0)
<1>1. \A k : k \notin a => Shifted(a, b, {}, k) = {}
  BY XTIMEZero, XorZero DEF Shifted
<1>2. Shifted(a, b, {}, 3) = b
  BY XTIMEZero, XorZero DEF Shifted
<1>3. /\ Shifted(a, b, {}, 7) = {} /\ Shifted(a, b, {}, 6) = {} /\ Shifted(a, b, {}, 5) = {}
      /\ Shifted(a, b, {}, 4) = {}
  BY <1>1
<1>4. QED BY <1>2, <1>3, Zenon DEF Times

LEMMA ShiftedIs ==
  /\ \A a, b, p, k : k \in a => Shifted(a, b, p, k) = Xor(XTIME(p), b)
  /\ \A a, b, p, k : k \notin a => Shifted(a, b, p, k) = XTIME(p)
  BY XorZero DEF Shifted

LEMMA MULMultiples ==
  ASSUME NEW x \in Byte
  PROVE  /\ MUL(9, x) = Multiple9(x) /\ MUL(11, x) = Multiple11(x)
         /\ MUL(13, x) = Multiple13(x) /\ MUL(14, x) = Multiple14(x)
<1>1. \A m : m \in {9, 11, 13, 14} => ByteOf(m) \in Byte /\ ByteOf(m) # {}
  BY ByteOfMultiples DEF Byte, Bit
<1>2. \A m : m \in {9, 11, 13, 14} => MUL(m, x) = Times(ByteOf(m), x)
  BY <1>1, MULIs
<1>3. Times({0, 3}, x) = Multiple9(x)
  <2> DEFINE A == {0, 3}
  <2>1. 7 \notin A /\ 6 \notin A /\ 5 \notin A /\ 4 \notin A /\ 3 \in A
    OBVIOUS
  <2>2. 0 \in A /\ 1 \notin A /\ 2 \notin A
    OBVIOUS
  <2> HIDE DEF A
  <2>3. Times(A, x) = Shifted(A, x, Shifted(A, x, Shifted(A, x, x, 2), 1), 0)
    BY <2>1, TimesByBit
  <2>4. Shifted(A, x, x, 2) = XTIME(x) /\ Shifted(A, x, XTIME(x), 1) = XTIME(XTIME(x))
    BY <2>2, ShiftedIs
  <2>5. Shifted(A, x, XTIME(XTIME(x)), 0) = Multiple9(x)
    BY <2>2, ShiftedIs DEF Multiple9
  <2>6. QED BY <2>3, <2>4, <2>5 DEF A
<1>4. Times({0, 1, 3}, x) = Multiple11(x)
  <2> DEFINE A == {0, 1, 3}
  <2>1. 7 \notin A /\ 6 \notin A /\ 5 \notin A /\ 4 \notin A /\ 3 \in A
    OBVIOUS
  <2>2. 0 \in A /\ 1 \in A /\ 2 \notin A
    OBVIOUS
  <2> HIDE DEF A
  <2>3. Times(A, x) = Shifted(A, x, Shifted(A, x, Shifted(A, x, x, 2), 1), 0)
    BY <2>1, TimesByBit
  <2>4. Shifted(A, x, x, 2) = XTIME(x) /\ Shifted(A, x, XTIME(x), 1) = Xor(XTIME(XTIME(x)), x)
    BY <2>2, ShiftedIs
  <2>5. Shifted(A, x, Xor(XTIME(XTIME(x)), x), 0) = Multiple11(x)
    BY <2>2, ShiftedIs DEF Multiple11
  <2>6. QED BY <2>3, <2>4, <2>5 DEF A
<1>5. Times({0, 2, 3}, x) = Multiple13(x)
  <2> DEFINE A == {0, 2, 3}
  <2>1. 7 \notin A /\ 6 \notin A /\ 5 \notin A /\ 4 \notin A /\ 3 \in A
    OBVIOUS
  <2>2. 0 \in A /\ 1 \notin A /\ 2 \in A
    OBVIOUS
  <2> HIDE DEF A
  <2>3. Times(A, x) = Shifted(A, x, Shifted(A, x, Shifted(A, x, x, 2), 1), 0)
    BY <2>1, TimesByBit
  <2>4. Shifted(A, x, x, 2) = Xor(XTIME(x), x) /\ Shifted(A, x, Xor(XTIME(x), x), 1) = XTIME(Xor(XTIME(x), x))
    BY <2>2, ShiftedIs
  <2>5. Shifted(A, x, XTIME(Xor(XTIME(x), x)), 0) = Multiple13(x)
    BY <2>2, ShiftedIs DEF Multiple13
  <2>6. QED BY <2>3, <2>4, <2>5 DEF A
<1>6. Times({1, 2, 3}, x) = Multiple14(x)
  <2> DEFINE A == {1, 2, 3}
  <2>1. 7 \notin A /\ 6 \notin A /\ 5 \notin A /\ 4 \notin A /\ 3 \in A
    OBVIOUS
  <2>2. 0 \notin A /\ 1 \in A /\ 2 \in A
    OBVIOUS
  <2> HIDE DEF A
  <2>3. Times(A, x) = Shifted(A, x, Shifted(A, x, Shifted(A, x, x, 2), 1), 0)
    BY <2>1, TimesByBit
  <2>4. Shifted(A, x, x, 2) = Xor(XTIME(x), x) /\ Shifted(A, x, Xor(XTIME(x), x), 1) = Xor(XTIME(Xor(XTIME(x), x)), x)
    BY <2>2, ShiftedIs
  <2>5. Shifted(A, x, Xor(XTIME(Xor(XTIME(x), x)), x), 0) = Multiple14(x)
    BY <2>2, ShiftedIs DEF Multiple14
  <2>6. QED BY <2>3, <2>4, <2>5 DEF A
<1>7. MUL(9, x) = Times({0, 3}, x) /\ MUL(11, x) = Times({0, 1, 3}, x)
      /\ MUL(13, x) = Times({0, 2, 3}, x) /\ MUL(14, x) = Times({1, 2, 3}, x)
  BY <1>2, ByteOfMultiples
<1>8. QED BY <1>3, <1>4, <1>5, <1>6, <1>7

LEMMA MultipleSums ==
  ASSUME NEW x \in Byte
  PROVE  LET x1 == XTIME(x) x2 == XTIME(x1) x3 == XTIME(x2)
         IN /\ x1 \in Byte /\ x2 \in Byte /\ x3 \in Byte
            /\ Multiple9(x) = Xor(x3, x) /\ Multiple11(x) = Xor(Xor(x3, x1), x)
            /\ Multiple13(x) = Xor(Xor(x3, x2), x) /\ Multiple14(x) = Xor(Xor(x3, x2), x1)
<1> DEFINE x1 == XTIME(x)
           x2 == XTIME(x1)
           x3 == XTIME(x2)
<1>1. x1 \in Byte /\ x2 \in Byte /\ x3 \in Byte
  BY XTIMEType
<1>2. /\ XTIME(Xor(x2, x)) = Xor(x3, x1) /\ XTIME(Xor(x1, x)) = Xor(x2, x1)
      /\ XTIME(Xor(x2, x1)) = Xor(x3, x2)
  <2> HIDE DEF x1, x2, x3
  <2>1. /\ XTIME(Xor(x2, x)) = Xor(XTIME(x2), XTIME(x)) /\ XTIME(Xor(x1, x)) = Xor(XTIME(x1), XTIME(x))
        /\ XTIME(Xor(x2, x1)) = Xor(XTIME(x2), XTIME(x1))
    BY <1>1, XTIMEXor
  <2>2. QED BY <2>1 DEF x1, x2, x3
<1>3. Multiple14(x) = Xor(Xor(x3, x2), x1)
  <2>1. XTIME(Xor(Xor(x2, x1), x)) = Xor(XTIME(Xor(x2, x1)), XTIME(x))
    <3>1. Xor(x2, x1) \in Byte
      BY <1>1, XorType
    <3>2. QED BY <3>1, XTIMEXor
  <2>2. QED BY <1>2, <2>1 DEF Multiple14
<1>4. QED BY <1>1, <1>2, <1>3 DEF Multiple9, Multiple11, Multiple13

LEMMA MultipleXor ==
  ASSUME NEW a \in Byte, NEW b \in Byte
  PROVE  /\ Multiple9(Xor(a, b)) = Xor(Multiple9(a), Multiple9(b))
         /\ Multiple11(Xor(a, b)) = Xor(Multiple11(a), Multiple11(b))
         /\ Multiple13(Xor(a, b)) = Xor(Multiple13(a), Multiple13(b))
         /\ Multiple14(Xor(a, b)) = Xor(Multiple14(a), Multiple14(b))
<1>1. /\ ByteOf(9) \in Byte /\ ByteOf(9) # {} /\ ByteOf(11) \in Byte /\ ByteOf(11) # {}
      /\ ByteOf(13) \in Byte /\ ByteOf(13) # {} /\ ByteOf(14) \in Byte /\ ByteOf(14) # {}
  BY ByteOfMultiples DEF Byte, Bit
<1>2. ASSUME NEW m \in {9, 11, 13, 14}
      PROVE  MUL(m, Xor(a, b)) = Xor(MUL(m, a), MUL(m, b))
  <2>1. MUL(m, a) = Times(ByteOf(m), a) /\ MUL(m, b) = Times(ByteOf(m), b)
    BY <1>1, MULIs
  <2>2. MUL(m, Xor(a, b)) = Times(ByteOf(m), Xor(a, b))
    BY <1>1, MULIs, XorType
  <2>3. Times(ByteOf(m), Xor(a, b)) = Xor(Times(ByteOf(m), a), Times(ByteOf(m), b))
    BY <1>1, TimesFacts
  <2>4. QED BY <2>1, <2>2, <2>3
<1>3. Xor(a, b) \in Byte
  BY XorType
<1>4. QED BY <1>2, <1>3, MULMultiples

\* InvMixColumns undoes MixColumns: the multiples of what it makes of one byte
\* add up to the byte in its row and to nothing in the others.
LEMMA ColumnUndone ==
  ASSUME NEW x \in Byte
  PROVE  LET y == XTIME(x)
             z == Xor(x, y)
         IN /\ Xor(Xor(Xor(Multiple14(y), Multiple11(x)), Multiple13(x)), Multiple9(z)) = x
            /\ Xor(Xor(Xor(Multiple9(y), Multiple14(x)), Multiple11(x)), Multiple13(z)) = {}
            /\ Xor(Xor(Xor(Multiple13(y), Multiple9(x)), Multiple14(x)), Multiple11(z)) = {}
            /\ Xor(Xor(Xor(Multiple11(y), Multiple13(x)), Multiple9(x)), Multiple14(z)) = {}
<1> DEFINE x1 == XTIME(x)
           x2 == XTIME(x1)
           x3 == XTIME(x2)
           x4 == XTIME(x3)
           z == Xor(x, x1)
<1>1. x1 \in Byte
  BY XTIMEType
<1>2. /\ Multiple9(x) = Xor(x3, x) /\ Multiple11(x) = Xor(Xor(x3, x1), x)
      /\ Multiple13(x) = Xor(Xor(x3, x2), x) /\ Multiple14(x) = Xor(Xor(x3, x2), x1)
  BY MultipleSums
<1>3. /\ Multiple9(x1) = Xor(x4, x1) /\ Multiple11(x1) = Xor(Xor(x4, x2), x1)
      /\ Multiple13(x1) = Xor(Xor(x4, x3), x1) /\ Multiple14(x1) = Xor(Xor(x4, x3), x2)
  BY <1>1, MultipleSums
<1>4. /\ Multiple9(z) = Xor(Multiple9(x), Multiple9(x1)) /\ Multiple11(z) = Xor(Multiple11(x), Multiple11(x1))
      /\ Multiple13(z) = Xor(Multiple13(x), Multiple13(x1)) /\ Multiple14(z) = Xor(Multiple14(x), Multiple14(x1))
  BY <1>1, MultipleXor
<1> HIDE DEF x1, x2, x3, x4, z
<1>5. Xor(Xor(Xor(Multiple14(x1), Multiple11(x)), Multiple13(x)), Multiple9(z)) = x
  BY <1>2, <1>3, <1>4, Zenon DEF Xor
<1>6. Xor(Xor(Xor(Multiple9(x1), Multiple14(x)), Multiple11(x)), Multiple13(z)) = {}
  BY <1>2, <1>3, <1>4 DEF Xor
<1>7. Xor(Xor(Xor(Multiple13(x1), Multiple9(x)), Multiple14(x)), Multiple11(z)) = {}
  BY <1>2, <1>3, <1>4 DEF Xor
<1>8. Xor(Xor(Xor(Multiple11(x1), Multiple13(x)), Multiple9(x)), Multiple14(z)) = {}
  BY <1>2, <1>3, <1>4 DEF Xor
<1>9. QED BY <1>5, <1>6, <1>7, <1>8 DEF x1, z

LEMMA XTIMEByPattern ==
  /\ XTIME({0}) = {1} /\ XTIME({1}) = {2} /\ XTIME({2}) = {3} /\ XTIME({3}) = {4} /\ XTIME({4}) = {5}
  /\ XTIME({5}) = {6} /\ XTIME({6}) = {7} /\ XTIME({7}) = {0, 1, 3, 4} /\ XTIME({0, 1, 3, 4}) = {1, 2, 4, 5}
<1>1. ASSUME NEW k \in 0 .. 6
      PROVE  XTIME({k}) = {k + 1}
  <2>1. 7 \notin {k} /\ {j + 1 : j \in {k} \ {7}} = {k + 1}
    OBVIOUS
  <2>2. QED BY <2>1, XorZero DEF XTIME
<1>2. ByteOf(27) = {0, 1, 3, 4}
  BY DEF ByteOf, Bit
<1>3. XTIME({7}) = {0, 1, 3, 4}
  <2>1. {j + 1 : j \in {7} \ {7}} = {} /\ 7 \in {7}
    OBVIOUS
  <2>2. QED BY <1>2, <2>1, XorZero DEF XTIME
<1>4. XTIME({0, 1, 3, 4}) = {1, 2, 4, 5}
  <2>1. {j + 1 : j \in {0, 1, 3, 4} \ {7}} = {1, 2, 4, 5} /\ 7 \notin {0, 1, 3, 4}
    OBVIOUS
  <2>2. QED BY <2>1, XorZero DEF XTIME
<1>5. /\ XTIME({0}) = {1} /\ XTIME({1}) = {2} /\ XTIME({2}) = {3} /\ XTIME({3}) = {4}
      /\ XTIME({4}) = {5} /\ XTIME({5}) = {6} /\ XTIME({6}) = {7}
  BY <1>1
<1>6. QED BY <1>3, <1>4, <1>5

\* The round constants the code computes are those the standard lists.
LEMMA RconIsStandard ==
  ASSUME NEW n \in 0 .. 9
  PROVE  RconTable[n] = StandardRcon[n + 1] /\ RconTable[n] \in Byte
<1> DEFINE g == [x \in Byte |-> XTIME(x)]
<1>1. PICK f : Iteration(f, 9, {0}, g)
  BY Iterates
<1>2. f = [m \in 0 .. 9 |-> f[m]] /\ f[0] = {0} /\ \A m \in 1 .. 9 : f[m] = g[f[m - 1]]
  BY <1>1 DEF Iteration
<1>3. \A x \in Byte : g[x] = XTIME(x)
  OBVIOUS
<1> HIDE DEF g
<1>4. \A m \in 0 .. 9 : f[m] \in Byte
  <2> DEFINE S == {m \in 0 .. 9 : f[m] \in Byte}
  <2>1. 0 \in S
    BY <1>2 DEF Byte, Bit
  <2>2. \A m \in 1 .. 9 : m - 1 \in S => m \in S
    BY <1>2, <1>3, XTIMEType
  <2> HIDE DEF S
  <2>3. \A m \in 0 .. 9 : m \in S
    BY <2>1, <2>2, UpTo
  <2>4. QED BY <2>3 DEF S
<1>5. \A m \in 1 .. 9 : f[m] = XTIME(f[m - 1])
  BY <1>2, <1>3, <1>4
<1>6. f = [m \in 0 .. 9 |-> IF m = 0 THEN {0} ELSE XTIME(f[m - 1])]
  <2>1. \A m \in 0 .. 9 : f[m] = IF m = 0 THEN {0} ELSE XTIME(f[m - 1])
    BY <1>2, <1>5
  <2>2. QED BY <1>2, <2>1
<1>7. RconTable = [m \in 0 .. 9 |-> IF m = 0 THEN {0} ELSE XTIME(RconTable[m - 1])]
  <2>1. \E h : h = [m \in 0 .. 9 |-> IF m = 0 THEN {0} ELSE XTIME(h[m - 1])]
    BY <1>6
  <2>2. QED BY <2>1, Zenon DEF RconTable
<1>8. \A m \in 0 .. 9 : RconTable[m] = IF m = 0 THEN {0} ELSE XTIME(RconTable[m - 1])
  BY <1>7, Zenon
<1>9. /\ RconTable[0] = {0} /\ RconTable[1] = XTIME(RconTable[0]) /\ RconTable[2] = XTIME(RconTable[1])
      /\ RconTable[3] = XTIME(RconTable[2]) /\ RconTable[4] = XTIME(RconTable[3])
      /\ RconTable[5] = XTIME(RconTable[4]) /\ RconTable[6] = XTIME(RconTable[5])
      /\ RconTable[7] = XTIME(RconTable[6]) /\ RconTable[8] = XTIME(RconTable[7])
      /\ RconTable[9] = XTIME(RconTable[8])
  BY <1>8
<1>10. /\ RconTable[0] = {0} /\ RconTable[1] = {1} /\ RconTable[2] = {2} /\ RconTable[3] = {3}
       /\ RconTable[4] = {4} /\ RconTable[5] = {5} /\ RconTable[6] = {6} /\ RconTable[7] = {7}
       /\ RconTable[8] = {0, 1, 3, 4} /\ RconTable[9] = {1, 2, 4, 5}
  BY <1>9, XTIMEByPattern
<1>11. /\ ByteOf(1) = {0} /\ ByteOf(2) = {1} /\ ByteOf(4) = {2} /\ ByteOf(8) = {3} /\ ByteOf(16) = {4}
       /\ ByteOf(32) = {5} /\ ByteOf(64) = {6} /\ ByteOf(128) = {7} /\ ByteOf(27) = {0, 1, 3, 4}
       /\ ByteOf(54) = {1, 2, 4, 5}
  <2>1. ByteOf(1) = {0} /\ ByteOf(2) = {1} /\ ByteOf(4) = {2} /\ ByteOf(8) = {3}
    BY DEF ByteOf, Bit
  <2>2. ByteOf(16) = {4} /\ ByteOf(32) = {5} /\ ByteOf(64) = {6}
    BY DEF ByteOf, Bit
  <2>3. ByteOf(128) = {7}
    BY DEF ByteOf, Bit
  <2>4. ByteOf(27) = {0, 1, 3, 4}
    BY DEF ByteOf, Bit
  <2>5. ByteOf(54) = {1, 2, 4, 5}
    BY DEF ByteOf, Bit
  <2>6. QED BY <2>1, <2>2, <2>3, <2>4, <2>5
<1>12. /\ StandardRcon[1] = ByteOf(1) /\ StandardRcon[2] = ByteOf(2) /\ StandardRcon[3] = ByteOf(4)
       /\ StandardRcon[4] = ByteOf(8) /\ StandardRcon[5] = ByteOf(16) /\ StandardRcon[6] = ByteOf(32)
       /\ StandardRcon[7] = ByteOf(64) /\ StandardRcon[8] = ByteOf(128) /\ StandardRcon[9] = ByteOf(27)
       /\ StandardRcon[10] = ByteOf(54)
  BY TableIs DEF StandardRcon
<1>13. n \in {0, 1, 2, 3, 4, 5, 6, 7, 8, 9}
  OBVIOUS
<1>14. RconTable[n] = StandardRcon[n + 1]
  <2>1. /\ RconTable[0] = StandardRcon[1] /\ RconTable[1] = StandardRcon[2]
        /\ RconTable[2] = StandardRcon[3] /\ RconTable[3] = StandardRcon[4]
        /\ RconTable[4] = StandardRcon[5] /\ RconTable[5] = StandardRcon[6]
        /\ RconTable[6] = StandardRcon[7] /\ RconTable[7] = StandardRcon[8]
        /\ RconTable[8] = StandardRcon[9] /\ RconTable[9] = StandardRcon[10]
    BY <1>10, <1>11, <1>12
  <2>2. /\ 0 + 1 = 1 /\ 1 + 1 = 2 /\ 2 + 1 = 3 /\ 3 + 1 = 4 /\ 4 + 1 = 5 /\ 5 + 1 = 6
        /\ 6 + 1 = 7 /\ 7 + 1 = 8 /\ 8 + 1 = 9 /\ 9 + 1 = 10
    OBVIOUS
  <2>3. QED BY <1>13, <2>1, <2>2, Zenon
<1>15. RconTable[n] \in Byte
  BY <1>10, <1>13 DEF Byte, Bit
<1>16. QED BY <1>14, <1>15

\* What the theorems below use of the tables
LEMMA TablesAreStandard ==
  /\ \A b \in Byte : SboxTable[b] = StandardSBox[b] /\ SboxTable[b] \in Byte
  /\ \A n \in 0 .. 9 : RconTable[n] = StandardRcon[n + 1] /\ RconTable[n] \in Byte
  BY SboxIsStandard, RconIsStandard

LEMMA SboxType == \A b \in Byte : SboxTable[b] \in Byte
  BY SboxIsStandard

\* One round's byte: what is looked up and added in one order is what the
\* standard adds in another.
LEMMA RoundByte ==
  ASSUME NEW k, NEW p, NEW q, NEW b, NEW c, NEW d
  PROVE  /\ Xor(Xor(Xor(Xor(k, p), Xor(b, q)), c), d)
              = Xor(Xor(Xor(p, q), Xor(b, Xor(c, d))), k)
         /\ Xor(Xor(Xor(Xor(k, d), p), Xor(b, q)), c)
              = Xor(Xor(Xor(p, q), Xor(b, Xor(c, d))), k)
         /\ Xor(Xor(Xor(Xor(k, c), d), p), Xor(b, q))
              = Xor(Xor(Xor(p, q), Xor(b, Xor(c, d))), k)
         /\ Xor(Xor(Xor(Xor(k, Xor(b, q)), c), d), p)
              = Xor(Xor(Xor(p, q), Xor(b, Xor(c, d))), k)
  BY DEF Xor

\* The four entries of the forward tables for one byte
LEMMA ForwardEntry ==
  ASSUME NEW b \in Byte
  PROVE  LET x == SboxTable[b]
             y == XTIME(x)
             z == Xor(x, y)
         IN ForwardTables[b] = << <<y, x, x, z>>, <<z, y, x, x>>, <<x, z, y, x>>, <<x, x, z, y>> >>
<1>1. ForwardTables =
        [a \in Byte |-> LET x == SboxTable[a] y == XTIME(x) IN Rotations(<<y, x, x, Xor(x, y)>>)]
  BY TableIs DEF ForwardTables
<1>2. \A p, q, r, s : Rotations(<<p, q, r, s>>) =
        << <<p, q, r, s>>, <<s, p, q, r>>, <<r, s, p, q>>, <<q, r, s, p>> >>
  BY DEF Rotations, ROTL8
<1>3. QED BY <1>1, <1>2

-----------------------------------------------------------------------------
(* The inductive invariant. *)

\* The tables are generated in order, and all of them before the flag is set
\* or a thread gets past the check of it.
TablesInOrder ==
  /\ aes_init_done = 1 => filled = AllTables
  /\ \A t \in Thread :
       /\ pc[t] = "sbox" => "rcon" \in filled
       /\ pc[t] = "tables" => "rcon" \in filled /\ "sbox" \in filled
       /\ pc[t] \in {"done", "schedule", "expand", "rounds"} => filled = AllTables
       /\ nr[t] # 0 => filled = AllTables

\* RK is at the round key of the round that comes next.
RoundKeyNext ==
  \A t \in Thread : pc[t] = "rounds" =>
    nr[t] # 0 /\ i[t] < nr[t] /\ RK[t] = 4 * (nr[t] - i[t])

\* The length, the rounds and the iterations of a schedule in the making
LengthKnown ==
  \A t \in Thread : pc[t] = "expand" =>
    /\ Len(key[t]) \in {4, 6, 8} /\ nr[t] = Len(key[t]) + 6
    /\ i[t] < Iterations(Len(key[t]))

Inv == TypeOK /\ TablesInOrder /\ RoundKeyNext /\ LengthKnown

LEMMA FTType ==
  ASSUME NEW b \in Byte, NEW n \in 0 .. 3
  PROVE  FT(n, b) \in Word
<1>1. SboxTable[b] \in Byte /\ XTIME(SboxTable[b]) \in Byte
  BY SboxType, XTIMEType
<1>2. Xor(SboxTable[b], XTIME(SboxTable[b])) \in Byte
  BY <1>1, XorType
<1>3. ForwardTables[b][n + 1] \in Word
  <2> DEFINE x == SboxTable[b]
             y == XTIME(x)
             z == Xor(x, y)
  <2>1. ForwardTables[b] = << <<y, x, x, z>>, <<z, y, x, x>>, <<x, z, y, x>>, <<x, x, z, y>> >>
    BY ForwardEntry
  <2>2. x \in Byte /\ y \in Byte /\ z \in Byte
    BY <1>1, <1>2
  <2> HIDE DEF x, y, z
  <2>3. n + 1 \in {1, 2, 3, 4}
    OBVIOUS
  <2>4. QED BY <2>1, <2>2, <2>3, WordTuple
<1>4. {} \in Byte
  BY DEF Byte
<1>5. QED BY <1>3, <1>4, WordTuple DEF FT

LEMMA FSbType == \A b \in Byte : FSb(b) \in Byte
<1>1. {} \in Byte
  BY DEF Byte
<1>2. QED BY <1>1, SboxType DEF FSb

LEMMA RCONType == \A n \in 0 .. 9 : RCON(n) \in Byte
<1>1. {} \in Byte
  BY DEF Byte
<1>2. QED BY <1>1, TablesAreStandard DEF RCON

LEMMA SubType ==
  ASSUME NEW v \in Word
  PROVE  Sub(v) \in Word
  BY WordBytes, FSbType, WordTuple DEF Sub

LEMMA RotateType == \A v \in Word : <<v[2], v[3], v[4], v[1]>> \in Word
  BY WordBytes, WordTuple

LEMMA ExtensionType ==
  ASSUME NEW R \in [1 .. 8 -> Word], NEW n \in {4, 6, 8}, NEW k \in 0 .. 9
  PROVE  \A d \in 1 .. 8 : Extension(R, n, k)[d] \in Word
<1> DEFINE first  == XorW(XorW(R[1], LowWord(RCON(k))), Sub(<<R[n][2], R[n][3], R[n][4], R[n][1]>>))
           second == XorW(R[2], first)
           third  == XorW(R[3], second)
           fourth == XorW(R[4], third)
           fifth  == XorW(R[5], IF n = 8 THEN Sub(fourth) ELSE fourth)
           sixth  == XorW(R[6], fifth)
           last   == XorW(R[7], sixth)
           eighth == XorW(R[8], last)
<1>1. Extension(R, n, k) = <<first, second, third, fourth, fifth, sixth, last, eighth>>
  BY DEF Extension
<1>2. \A j \in 1 .. 8 : R[j] \in Word
  OBVIOUS
<1>3. R[n] \in Word /\ R[1] \in Word /\ R[2] \in Word /\ R[3] \in Word /\ R[4] \in Word
      /\ R[5] \in Word /\ R[6] \in Word /\ R[7] \in Word /\ R[8] \in Word
  BY <1>2
<1>4. first \in Word
  <2>1. LowWord(RCON(k)) \in Word
    BY RCONType, LowWordType
  <2>2. Sub(<<R[n][2], R[n][3], R[n][4], R[n][1]>>) \in Word
    BY <1>3, RotateType, SubType
  <2>3. QED BY <2>1, <2>2, <1>3, XorWType
<1> HIDE DEF first
<1>5. second \in Word
  BY <1>3, <1>4, XorWType
<1> HIDE DEF second
<1>6. third \in Word
  BY <1>3, <1>5, XorWType
<1> HIDE DEF third
<1>7. fourth \in Word
  BY <1>3, <1>6, XorWType
<1> HIDE DEF fourth
<1>8. fifth \in Word
  BY <1>3, <1>7, XorWType, SubType
<1> HIDE DEF fifth
<1>9. sixth \in Word
  BY <1>3, <1>8, XorWType
<1> HIDE DEF sixth
<1>10. last \in Word
  BY <1>3, <1>9, XorWType
<1> HIDE DEF last
<1>11. eighth \in Word
  BY <1>3, <1>10, XorWType
<1> HIDE DEF eighth
<1>12. QED BY <1>1, <1>4, <1>5, <1>6, <1>7, <1>8, <1>9, <1>10, <1>11

LEMMA AddedType ==
  ASSUME TypeOK, NEW t \in Thread, NEW n \in 0 .. 64, NEW Y \in [1 .. 4 -> Word]
  PROVE  Added(t, n, Y) \in [1 .. 4 -> Word]
<1>1. \A c \in 1 .. 4 : n + c \in 1 .. 68 /\ Y[c] \in Word
  OBVIOUS
<1>2. \A c \in 1 .. 4 : buf[t][n + c] \in Word
  BY <1>1 DEF TypeOK
<1>3. \A c \in 1 .. 4 : XorW(buf[t][n + c], Y[c]) \in Word
  BY <1>1, <1>2, XorWType
<1>4. QED BY <1>3, BlockTuple DEF Added

LEMMA FromType ==
  ASSUME NEW Y \in [1 .. 4 -> Word], NEW c \in 1 .. 4, NEW r \in 0 .. 3
  PROVE  From(Y, c, r) \in Byte
<1>1. ((c + r - 1) % 4) + 1 \in 1 .. 4 /\ r + 1 \in 1 .. 4
  OBVIOUS
<1>2. Y[((c + r - 1) % 4) + 1] \in Word
  BY <1>1
<1>3. QED BY <1>1, <1>2, WordBytes DEF From

-----------------------------------------------------------------------------
(* Every action keeps the invariant. *)

LEMMA SetKeyInv ==
  ASSUME Inv, NEW t \in Thread, SetKey(t)
  PROVE  Inv'
<1> USE DEF Inv, SetKey, Returned, Goto, tables, ctx, cipher
<1>1. TypeOK'
  <2>1. PICK k \in Key : key' = [key EXCEPT ![t] = k]
    OBVIOUS
  <2>2. key' \in [Thread -> Key \cup {<<>>}]
    BY <2>1 DEF TypeOK
  <2>3. keys' \in 0 .. MaxKeys
    BY AesAssumption DEF TypeOK
  <2>4. pc' \in [Thread -> {"idle", "rcon", "sbox", "tables", "done", "schedule",
                           "expand", "rounds", "encrypted"}]
    BY DEF TypeOK
  <2>5. \A u \in Thread : pc'[u] = "expand" => pc[u] = "expand" /\ key'[u] = key[u] /\ i'[u] = i[u]
    BY DEF TypeOK
  <2>6. QED BY <2>2, <2>3, <2>4, <2>5 DEF TypeOK
<1>2. TablesInOrder'
  BY DEF TypeOK, TablesInOrder
<1>3. RoundKeyNext'
  BY DEF TypeOK, RoundKeyNext
<1>4. LengthKnown'
  BY DEF TypeOK, LengthKnown
<1>5. QED BY <1>1, <1>2, <1>3, <1>4

LEMMA GenerateInv ==
  ASSUME Inv, NEW t \in Thread, Generate(t)
  PROVE  Inv'
<1> USE DEF Inv, Generate, Goto, tables, ctx, cipher
<1>1. TypeOK'
  BY DEF TypeOK
<1>2. TablesInOrder'
  BY DEF TypeOK, TablesInOrder, AllTables
<1>3. RoundKeyNext'
  BY DEF TypeOK, RoundKeyNext
<1>4. LengthKnown'
  BY DEF TypeOK, LengthKnown
<1>5. QED BY <1>1, <1>2, <1>3, <1>4

LEMMA GeneratedInv ==
  ASSUME Inv, NEW t \in Thread, Generated(t)
  PROVE  Inv'
<1> USE DEF Inv, Generated, Goto, tables, ctx, cipher
<1>1. TypeOK'
  BY DEF TypeOK
<1>2. TablesInOrder'
  BY DEF TypeOK, TablesInOrder
<1>3. RoundKeyNext'
  BY DEF TypeOK, RoundKeyNext
<1>4. LengthKnown'
  BY DEF TypeOK, LengthKnown
<1>5. QED BY <1>1, <1>2, <1>3, <1>4

LEMMA LoadKeyInv ==
  ASSUME Inv, NEW t \in Thread, LoadKey(t)
  PROVE  Inv'
<1> DEFINE n == Len(key[t])
<1> USE DEF Inv, Goto, tables, ctx
<1>1. pc[t] = "schedule" /\ UNCHANGED <<aes_init_done, filled, key, X, RK, output, keys>>
  BY DEF LoadKey
<1>2. CASE n \notin {4, 6, 8}
  <2>1. pc' = [pc EXCEPT ![t] = "idle"] /\ UNCHANGED <<nr, buf, i>>
    BY <1>2 DEF LoadKey
  <2>2. TypeOK'
    BY <1>1, <2>1 DEF TypeOK
  <2>3. TablesInOrder'
    BY <1>1, <2>1 DEF TypeOK, TablesInOrder
  <2>4. RoundKeyNext' /\ LengthKnown'
    BY <1>1, <2>1 DEF TypeOK, RoundKeyNext, LengthKnown
  <2>5. QED BY <2>2, <2>3, <2>4
<1>3. CASE n \in {4, 6, 8}
  <2>1. /\ nr' = [nr EXCEPT ![t] = Rounds(n)]
        /\ buf' = [buf EXCEPT ![t] = [j \in 1 .. 68 |-> IF j <= n THEN key[t][j] ELSE @[j]]]
        /\ i' = [i EXCEPT ![t] = 0]
        /\ pc' = [pc EXCEPT ![t] = "expand"]
    BY <1>3 DEF LoadKey
  <2>2. Rounds(n) = n + 6 /\ Rounds(n) \in {10, 12, 14} /\ 0 < Iterations(n) /\ 2 * n <= 68
    <3>1. CASE n = 4 BY <3>1 DEF Rounds, Iterations
    <3>2. CASE n = 6 BY <3>2 DEF Rounds, Iterations
    <3>3. CASE n = 8 BY <3>3 DEF Rounds, Iterations
    <3>4. QED BY <1>3, <3>1, <3>2, <3>3
  <2>3. key[t] \in Seq(Word)
    <3>1. <<>> \in Seq(Word)
      OBVIOUS
    <3>2. key[t] \in Key \cup {<<>>}
      BY DEF TypeOK
    <3>3. QED BY <3>1, <3>2, AesAssumption
  <2>4. \A j \in 1 .. 68 : j <= n => key[t][j] \in Word
    BY <2>3
  <2>5. [j \in 1 .. 68 |-> IF j <= n THEN key[t][j] ELSE buf[t][j]] \in [1 .. 68 -> Word]
    <3>1. buf[t] \in [1 .. 68 -> Word]
      BY DEF TypeOK
    <3> HIDE DEF n
    <3>2. QED BY <2>4, <3>1
  <2>6. buf' \in [Thread -> [1 .. 68 -> Word]]
    BY <2>1, <2>5 DEF TypeOK
  <2>7. TypeOK'
    <3>1. nr' \in [Thread -> {0, 10, 12, 14}] /\ i' \in [Thread -> 0 .. 13]
      <4> HIDE DEF n
      <4>1. nr' \in [Thread -> {0, 10, 12, 14}]
        BY <2>1, <2>2 DEF TypeOK
      <4>2. i' \in [Thread -> 0 .. 13]
        BY <2>1 DEF TypeOK
      <4>3. QED BY <4>1, <4>2
    <3>2. pc' \in [Thread -> {"idle", "rcon", "sbox", "tables", "done", "schedule",
                             "expand", "rounds", "encrypted"}]
      BY <2>1 DEF TypeOK
    <3>3. (i'[t] + 2) * n <= 68
      <4>1. i'[t] = 0
        BY <2>1 DEF TypeOK
      <4> HIDE DEF n
      <4>2. QED BY <4>1, <1>3
    <3>4. \A u \in Thread \ {t} : pc'[u] = pc[u] /\ i'[u] = i[u]
      BY <2>1 DEF TypeOK
    <3>5. \A u \in Thread : pc'[u] = "expand" =>
            Len(key'[u]) \in {4, 6, 8} /\ (i'[u] + 2) * Len(key'[u]) <= 68
      BY <1>1, <1>3, <3>3, <3>4 DEF TypeOK
    <3>6. QED BY <1>1, <2>6, <3>1, <3>2, <3>5 DEF TypeOK
  <2>8. TablesInOrder'
    BY <1>1, <2>1 DEF TypeOK, TablesInOrder
  <2>9. RoundKeyNext'
    BY <1>1, <2>1 DEF TypeOK, RoundKeyNext
  <2>10. LengthKnown'
    BY <1>1, <1>3, <2>1, <2>2 DEF TypeOK, LengthKnown
  <2>11. QED BY <2>7, <2>8, <2>9, <2>10
<1>4. QED BY <1>2, <1>3

LEMMA IteratedType ==
  ASSUME NEW v \in [1 .. 68 -> Word], NEW n \in {4, 6, 8}, NEW k \in 0 .. 9, k * n \in 0 .. 60
  PROVE  Iterated(v, n, k) \in [1 .. 68 -> Word]
<1> DEFINE m == k * n
           R == [j \in 1 .. 8 |-> v[m + j]]
           words == Extension(R, n, k)
<1>1. m \in 0 .. 60
  OBVIOUS
<1> HIDE DEF m
<1>2. R \in [1 .. 8 -> Word]
  BY <1>1
<1> HIDE DEF R
<1>3. \A d \in 1 .. 8 : words[d] \in Word
  BY <1>2, ExtensionType
<1> HIDE DEF words
<1>4. [j \in 1 .. 68 |-> IF j - m - n \in 1 .. n THEN words[j - m - n] ELSE v[j]]
        \in [1 .. 68 -> Word]
  <2>1. \A j \in 1 .. 68 : j - m - n \in 1 .. n => j - m - n \in 1 .. 8
    BY <1>1
  <2>2. QED BY <1>3, <2>1
<1>5. QED BY <1>4 DEF Iterated, m, R, words

LEMMA ExpandKeyInv ==
  ASSUME Inv, NEW t \in Thread, ExpandKey(t)
  PROVE  Inv'
<1> DEFINE n == Len(key[t])
<1>1. /\ pc[t] = "expand"
      /\ buf' = [buf EXCEPT ![t] = Iterated(buf[t], n, i[t])]
      /\ i' = [i EXCEPT ![t] = @ + 1]
      /\ pc' = [pc EXCEPT ![t] = IF i'[t] = Iterations(n) THEN "idle" ELSE "expand"]
      /\ UNCHANGED <<aes_init_done, filled, key, nr, X, RK, output, keys>>
  BY DEF ExpandKey, Goto, tables
<1>2. n \in {4, 6, 8} /\ nr[t] = n + 6 /\ i[t] < Iterations(n) /\ i[t] \in 0 .. 13
  BY <1>1 DEF Inv, LengthKnown, TypeOK
<1>3. i[t] \in 0 .. 9 /\ i[t] * n + 8 <= 68 /\ i[t] * n \in 0 .. 60
      /\ Iterations(n) \in 7 .. 10 /\ i[t] + 1 <= Iterations(n)
      /\ (i[t] + 1 < Iterations(n) => (i[t] + 3) * n <= 68)
  <2> HIDE DEF n
  <2>1. CASE n = 4 BY <1>2, <2>1 DEF Iterations
  <2>2. CASE n = 6 BY <1>2, <2>2 DEF Iterations
  <2>3. CASE n = 8 BY <1>2, <2>3 DEF Iterations
  <2>4. QED BY <1>2, <2>1, <2>2, <2>3
<1> HIDE DEF n
<1>4. buf' \in [Thread -> [1 .. 68 -> Word]]
  <2>1. buf[t] \in [1 .. 68 -> Word]
    BY DEF Inv, TypeOK
  <2>2. Iterated(buf[t], n, i[t]) \in [1 .. 68 -> Word]
    BY <1>2, <1>3, <2>1, IteratedType
  <2>3. QED BY <1>1, <2>2 DEF Inv, TypeOK
<1>5. /\ i' \in [Thread -> 0 .. 13] /\ i'[t] = i[t] + 1
      /\ pc'[t] = IF i[t] + 1 = Iterations(n) THEN "idle" ELSE "expand"
      /\ \A u \in Thread \ {t} : pc'[u] = pc[u] /\ i'[u] = i[u]
  <2>1. i'[t] = i[t] + 1 /\ \A u \in Thread \ {t} : i'[u] = i[u]
    BY <1>1 DEF Inv, TypeOK
  <2>2. i[t] + 1 \in 0 .. 13
    BY <1>3
  <2>3. i' \in [Thread -> 0 .. 13]
    BY <1>1, <2>2 DEF Inv, TypeOK
  <2>4. pc'[t] = (IF i'[t] = Iterations(n) THEN "idle" ELSE "expand")
    BY <1>1 DEF Inv, TypeOK
  <2>5. \A u \in Thread \ {t} : pc'[u] = pc[u]
    BY <1>1 DEF Inv, TypeOK
  <2>6. QED BY <2>1, <2>3, <2>4, <2>5
<1>6. pc'[t] = "expand" => i'[t] < Iterations(n) /\ (i'[t] + 2) * n <= 68
  BY <1>3, <1>5, <1>2
<1>7. TypeOK'
  <2>1. pc' \in [Thread -> {"idle", "rcon", "sbox", "tables", "done", "schedule",
                            "expand", "rounds", "encrypted"}]
    BY <1>1 DEF Inv, TypeOK
  <2>2. \A u \in Thread : pc'[u] = "expand" =>
          Len(key'[u]) \in {4, 6, 8} /\ (i'[u] + 2) * Len(key'[u]) <= 68
    BY <1>1, <1>2, <1>5, <1>6 DEF n, Inv, TypeOK
  <2>3. QED BY <1>1, <1>4, <1>5, <2>1, <2>2 DEF Inv, TypeOK
<1>8. TablesInOrder'
  BY <1>1, <1>5 DEF Inv, TypeOK, TablesInOrder
<1>9. RoundKeyNext'
  BY <1>1, <1>5 DEF Inv, TypeOK, RoundKeyNext
<1>10. LengthKnown'
  BY <1>1, <1>2, <1>5, <1>6 DEF Inv, TypeOK, LengthKnown, n
<1>11. QED BY <1>7, <1>8, <1>9, <1>10 DEF Inv

LEMMA ClearInv ==
  ASSUME Inv, NEW t \in Thread, Clear(t)
  PROVE  Inv'
<1> USE DEF Inv, Clear, Returned, Goto, tables, cipher
<1>1. TypeOK'
  <2>1. LowWord({}) \in Word
    BY LowWordType DEF Byte
  <2>2. buf' \in [Thread -> [1 .. 68 -> Word]]
    BY <2>1 DEF TypeOK
  <2>3. QED BY <2>2 DEF TypeOK
<1>2. TablesInOrder'
  BY DEF TypeOK, TablesInOrder
<1>3. RoundKeyNext'
  BY DEF TypeOK, RoundKeyNext
<1>4. LengthKnown'
  BY DEF TypeOK, LengthKnown
<1>5. QED BY <1>1, <1>2, <1>3, <1>4

LEMMA EncryptInv ==
  ASSUME Inv, NEW t \in Thread, Encrypt(t)
  PROVE  Inv'
<1>1. PICK b \in Block : X' = [X EXCEPT ![t] = Added(t, 0, b)]
  BY DEF Encrypt
<1>2. X' \in [Thread -> [1 .. 4 -> Word]]
  <2>1. Added(t, 0, b) \in [1 .. 4 -> Word]
    BY AddedType, AesAssumption DEF Inv
  <2>2. QED BY <1>1, <2>1 DEF Inv, TypeOK
<1>3. i' = [i EXCEPT ![t] = nr[t] - 1] /\ nr[t] \in {10, 12, 14}
  <2>1. nr[t] \in {10, 12, 14}
    BY DEF Inv, TypeOK, Encrypt
  <2>2. 2 * ((nr[t] \div 2) - 1) + 1 = nr[t] - 1
    BY <2>1
  <2>3. QED BY <2>1, <2>2 DEF Encrypt
<1>4. /\ RK' = [RK EXCEPT ![t] = 4] /\ pc' = [pc EXCEPT ![t] = "rounds"]
      /\ UNCHANGED <<aes_init_done, filled, key, nr, buf, output, keys>>
  BY DEF Encrypt, Goto, tables, ctx
<1>5. /\ i' \in [Thread -> 0 .. 13] /\ RK' \in [Thread -> 4 .. 60]
      /\ pc'[t] = "rounds" /\ RK'[t] = 4 /\ i'[t] = nr[t] - 1
      /\ \A u \in Thread \ {t} : pc'[u] = pc[u] /\ RK'[u] = RK[u] /\ i'[u] = i[u]
  <2>1. nr[t] - 1 \in 0 .. 13
    BY <1>3
  <2>2. i' \in [Thread -> 0 .. 13]
    BY <1>3, <2>1 DEF Inv, TypeOK
  <2>3. RK' \in [Thread -> 4 .. 60]
    BY <1>4 DEF Inv, TypeOK
  <2>4. QED BY <1>3, <1>4, <2>2, <2>3 DEF Inv, TypeOK
<1>6. TypeOK'
  <2>1. pc' \in [Thread -> {"idle", "rcon", "sbox", "tables", "done", "schedule",
                            "expand", "rounds", "encrypted"}]
    BY <1>4 DEF Inv, TypeOK
  <2>2. \A u \in Thread : pc'[u] = "expand" =>
          Len(key'[u]) \in {4, 6, 8} /\ (i'[u] + 2) * Len(key'[u]) <= 68
    BY <1>4, <1>5 DEF Inv, TypeOK
  <2>3. QED BY <1>2, <1>4, <1>5, <2>1, <2>2 DEF Inv, TypeOK
<1>7. TablesInOrder'
  BY <1>3, <1>4, <1>5 DEF Inv, TablesInOrder
<1>8. RoundKeyNext'
  <2>1. 4 = 4 * (nr[t] - (nr[t] - 1)) /\ nr[t] - 1 < nr[t] /\ nr[t] # 0
    BY <1>3
  <2>2. QED BY <2>1, <1>4, <1>5 DEF Inv, RoundKeyNext
<1>9. LengthKnown'
  BY <1>4, <1>5 DEF Inv, LengthKnown
<1>10. QED BY <1>6, <1>7, <1>8, <1>9 DEF Inv

LEMMA RoundColumn ==
  ASSUME TypeOK, NEW t \in Thread, pc[t] = "rounds", RK[t] <= 64, NEW c \in 1 .. 4
  PROVE  XorW(XorW(XorW(XorW(buf[t][RK[t] + c], FT(0, From(X[t], c, 0))), FT(1, From(X[t], c, 1))),
                   FT(2, From(X[t], c, 2))), FT(3, From(X[t], c, 3))) \in Word
<1>1. X[t] \in [1 .. 4 -> Word] /\ RK[t] + c \in 1 .. 68
  <2>1. X[t] \in [1 .. 4 -> Word] /\ RK[t] \in 4 .. 60
    BY DEF TypeOK
  <2>2. QED BY <2>1
<1>2. buf[t][RK[t] + c] \in Word
  BY <1>1 DEF TypeOK
<1>3. \A r \in 0 .. 3 : FT(r, From(X[t], c, r)) \in Word
  BY <1>1, FromType, FTType
<1>4. XorW(buf[t][RK[t] + c], FT(0, From(X[t], c, 0))) \in Word
  BY <1>2, <1>3, XorWType
<1>5. XorW(XorW(buf[t][RK[t] + c], FT(0, From(X[t], c, 0))), FT(1, From(X[t], c, 1))) \in Word
  BY <1>3, <1>4, XorWType
<1>6. XorW(XorW(XorW(buf[t][RK[t] + c], FT(0, From(X[t], c, 0))), FT(1, From(X[t], c, 1))),
           FT(2, From(X[t], c, 2))) \in Word
  BY <1>3, <1>5, XorWType
<1>7. QED BY <1>3, <1>6, XorWType

LEMMA AES_FROUNDInv ==
  ASSUME Inv, NEW t \in Thread, AES_FROUND(t)
  PROVE  Inv'
<1> DEFINE looked(c, r) == FT(r, From(X[t], c, r))
           column(c) == XorW(XorW(XorW(XorW(buf[t][RK[t] + c],
                          looked(c, 0)), looked(c, 1)), looked(c, 2)), looked(c, 3))
<1>1. /\ pc[t] = "rounds" /\ i[t] > 0
      /\ X' = [X EXCEPT ![t] = <<column(1), column(2), column(3), column(4)>>]
      /\ RK' = [RK EXCEPT ![t] = @ + 4] /\ i' = [i EXCEPT ![t] = @ - 1]
      /\ UNCHANGED <<aes_init_done, filled, pc, key, nr, buf, output, keys>>
  BY DEF AES_FROUND, tables, ctx
<1>2. /\ i[t] \in 1 .. 13 /\ nr[t] \in {10, 12, 14}
      /\ RK[t] = 4 * (nr[t] - i[t]) /\ RK[t] \in 4 .. 52 /\ i[t] < nr[t]
  <2>1. i[t] \in 1 .. 13 /\ nr[t] \in {10, 12, 14} /\ RK[t] \in 4 .. 60
    <3>1. i[t] \in 0 .. 13 /\ nr[t] \in {0, 10, 12, 14} /\ RK[t] \in 4 .. 60
      BY DEF Inv, TypeOK
    <3>2. nr[t] # 0
      BY <1>1 DEF Inv, RoundKeyNext
    <3>3. QED BY <1>1, <3>1, <3>2
  <2>2. RK[t] = 4 * (nr[t] - i[t]) /\ i[t] < nr[t]
    BY <1>1 DEF Inv, RoundKeyNext
  <2>3. QED BY <2>1, <2>2
<1>3. X' \in [Thread -> [1 .. 4 -> Word]]
  <2>1. \A c \in 1 .. 4 : column(c) \in Word
    BY <1>1, <1>2, RoundColumn DEF Inv
  <2> HIDE DEF column
  <2>2. <<column(1), column(2), column(3), column(4)>> \in [1 .. 4 -> Word]
    BY <2>1, BlockTuple
  <2>3. QED BY <1>1, <2>2 DEF Inv, TypeOK
<1>4. /\ RK'[t] = RK[t] + 4 /\ i'[t] = i[t] - 1
      /\ \A u \in Thread \ {t} : RK'[u] = RK[u] /\ i'[u] = i[u]
  BY <1>1 DEF Inv, TypeOK
<1>5. RK' \in [Thread -> 4 .. 60] /\ i' \in [Thread -> 0 .. 13]
  <2>1. RK[t] + 4 \in 4 .. 60 /\ i[t] - 1 \in 0 .. 13
    BY <1>2
  <2>2. QED BY <1>1, <2>1 DEF Inv, TypeOK
<1>6. TypeOK'
  <2>1. \A u \in Thread : pc'[u] = "expand" => pc[u] = "expand" /\ i'[u] = i[u]
    BY <1>1, <1>4
  <2>2. QED BY <1>1, <1>3, <1>5, <2>1 DEF Inv, TypeOK
<1>7. TablesInOrder'
  BY <1>1 DEF Inv, TablesInOrder
<1>8. RoundKeyNext'
  <2>1. RK[t] + 4 = 4 * (nr[t] - (i[t] - 1)) /\ i[t] - 1 < nr[t] /\ nr[t] # 0
    BY <1>2
  <2>2. QED BY <1>1, <1>4, <2>1 DEF Inv, RoundKeyNext
<1>9. LengthKnown'
  BY <1>1, <1>4 DEF Inv, LengthKnown
<1>10. QED BY <1>6, <1>7, <1>8, <1>9 DEF Inv

LEMMA LastRoundInv ==
  ASSUME Inv, NEW t \in Thread, LastRound(t)
  PROVE  Inv'
<1> DEFINE looked(c, r) == FSb(From(X[t], c, r))
           column(c) == <<looked(c, 0), looked(c, 1), looked(c, 2), looked(c, 3)>>
           block == <<column(1), column(2), column(3), column(4)>>
<1>1. /\ pc[t] = "rounds" /\ i[t] = 0
      /\ X' = [X EXCEPT ![t] = Added(t, RK[t], block)]
      /\ RK' = [RK EXCEPT ![t] = @ + 4] /\ output' = [output EXCEPT ![t] = X'[t]]
      /\ pc' = [pc EXCEPT ![t] = "encrypted"]
      /\ UNCHANGED <<aes_init_done, filled, key, nr, buf, i, keys>>
  BY DEF LastRound, Goto, tables, ctx
<1>2. RK[t] \in 4 .. 56
  <2>1. nr[t] \in {10, 12, 14} /\ RK[t] = 4 * (nr[t] - i[t])
    BY <1>1 DEF Inv, TypeOK, RoundKeyNext
  <2>2. QED BY <1>1, <2>1
<1>3. X' \in [Thread -> [1 .. 4 -> Word]] /\ output' \in [Thread -> [1 .. 4 -> Word]]
  <2>1. X[t] \in [1 .. 4 -> Word]
    BY DEF Inv, TypeOK
  <2>2. \A c \in 1 .. 4, r \in 0 .. 3 : looked(c, r) \in Byte
    BY <2>1, FromType, FSbType
  <2> HIDE DEF looked
  <2>3. \A c \in 1 .. 4 : column(c) \in Word
    BY <2>2, WordTuple
  <2> HIDE DEF column
  <2>4. block \in [1 .. 4 -> Word]
    BY <2>3, BlockTuple
  <2> HIDE DEF block
  <2>5. Added(t, RK[t], block) \in [1 .. 4 -> Word]
    BY <1>2, <2>4, AddedType DEF Inv
  <2>6. X' \in [Thread -> [1 .. 4 -> Word]]
    BY <1>1, <2>5 DEF Inv, TypeOK
  <2>7. QED BY <1>1, <2>6 DEF Inv, TypeOK
<1> HIDE DEF block
<1>4. RK' \in [Thread -> 4 .. 60]
  <2>1. RK[t] + 4 \in 4 .. 60
    BY <1>2
  <2>2. QED BY <1>1, <2>1 DEF Inv, TypeOK
<1>5. pc'[t] = "encrypted" /\ \A u \in Thread \ {t} : pc'[u] = pc[u] /\ RK'[u] = RK[u]
  BY <1>1 DEF Inv, TypeOK
<1>6. TypeOK'
  <2>1. pc' \in [Thread -> {"idle", "rcon", "sbox", "tables", "done", "schedule",
                            "expand", "rounds", "encrypted"}]
    BY <1>1 DEF Inv, TypeOK
  <2>2. \A u \in Thread : pc'[u] = "expand" => pc[u] = "expand"
    BY <1>5
  <2>3. QED BY <1>1, <1>3, <1>4, <2>1, <2>2 DEF Inv, TypeOK
<1>7. TablesInOrder'
  BY <1>1, <1>5 DEF Inv, TablesInOrder
<1>8. RoundKeyNext'
  BY <1>1, <1>5 DEF Inv, RoundKeyNext
<1>9. LengthKnown'
  BY <1>1, <1>5 DEF Inv, LengthKnown
<1>10. QED BY <1>6, <1>7, <1>8, <1>9 DEF Inv

LEMMA InitInv == Init => Inv
<1> SUFFICES ASSUME Init PROVE Inv
  OBVIOUS
<1>1. LowWord({}) \in Word
  BY LowWordType DEF Byte
<1>2. TypeOK
  <2>1. buf \in [Thread -> [1 .. 68 -> Word]]
    BY <1>1 DEF Init
  <2>2. X \in [Thread -> [1 .. 4 -> Word]]
    BY AesAssumption DEF Init
  <2>3. keys \in 0 .. MaxKeys
    BY AesAssumption DEF Init
  <2>4. QED BY <2>1, <2>2, <2>3 DEF Init, TypeOK
<1>3. TablesInOrder /\ RoundKeyNext /\ LengthKnown
  BY DEF Init, TablesInOrder, RoundKeyNext, LengthKnown
<1>4. QED BY <1>2, <1>3 DEF Inv

LEMMA NextInv == Inv /\ [Next]_vars => Inv'
<1> SUFFICES ASSUME Inv, [Next]_vars PROVE Inv'
  OBVIOUS
<1>1. CASE UNCHANGED vars
  BY <1>1 DEF vars, tables, ctx, cipher, Inv, TypeOK, TablesInOrder, RoundKeyNext, LengthKnown
<1>2. CASE Next
  BY <1>2, SetKeyInv, GenerateInv, GeneratedInv, LoadKeyInv, ExpandKeyInv, ClearInv,
     EncryptInv, AES_FROUNDInv, LastRoundInv DEF Next
<1>3. QED BY <1>1, <1>2

LEMMA InvHolds == Spec => []Inv
  BY InitInv, NextInv, PTL DEF Spec

\* TypeOK holds for any threads, keys and blocks: no schedule is written past
\* the 68 words of buf, and no round key lies past it.
THEOREM AesTypeCorrect == Spec => []TypeOK
  BY InvHolds, PTL DEF Inv

\* A thread that makes a schedule or has one, however many of them generated
\* the tables at the same time, finds them all generated (aes.cpp 213-218).
THEOREM TablesBeforeUse == Spec => []TablesReady
<1>1. Inv => TablesReady
  BY DEF Inv, TablesInOrder, TablesReady
<1>2. QED BY <1>1, InvHolds, PTL

-----------------------------------------------------------------------------
(* The reverse tables. *)

\* The four entries of the reverse tables for the byte whose S-box value is looked up
LEMMA ReverseEntry ==
  ASSUME NEW v \in Byte
  PROVE  LET e == Multiple14(v)
             n == Multiple9(v)
             d == Multiple13(v)
             l == Multiple11(v)
         IN ReverseTables[SboxTable[v]]
              = << <<e, n, d, l>>, <<l, e, n, d>>, <<d, l, e, n>>, <<n, d, l, e>> >>
<1>1. ReverseTables =
        [b \in Byte |-> LET x == ReverseSbox[b] IN
                        Rotations(<<MUL(14, x), MUL(9, x), MUL(13, x), MUL(11, x)>>)]
  BY TableIs DEF ReverseTables
<1>2. ReverseTables[SboxTable[v]] = Rotations(<<MUL(14, v), MUL(9, v), MUL(13, v), MUL(11, v)>>)
  BY <1>1, SboxType, ReverseSboxInverts
<1>3. \A p, q, r, s : Rotations(<<p, q, r, s>>) =
        << <<p, q, r, s>>, <<s, p, q, r>>, <<r, s, p, q>>, <<q, r, s, p>> >>
  BY DEF Rotations, ROTL8
<1>4. QED BY <1>2, <1>3, MULMultiples

\* What SubBytes and the forward tables make of a byte, the reverse tables undo.
LEMMA ReverseUndoes ==
  ASSUME NEW b \in Byte
  PROVE  LET undone(r) == ReverseTables[SboxTable[ForwardTables[b][1][r]]][r]
         IN XorW(XorW(XorW(undone(1), undone(2)), undone(3)), undone(4)) = LowWord(SboxTable[b])
<1> DEFINE x == SboxTable[b]
           y == XTIME(x)
           z == Xor(x, y)
           undone(r) == ReverseTables[SboxTable[ForwardTables[b][1][r]]][r]
<1>1. x \in Byte /\ y \in Byte /\ z \in Byte
  BY SboxType, XTIMEType, XorType
<1>2. ForwardTables[b][1] = <<y, x, x, z>>
  BY ForwardEntry
<1>3. /\ Xor(Xor(Xor(Multiple14(y), Multiple11(x)), Multiple13(x)), Multiple9(z)) = x
      /\ Xor(Xor(Xor(Multiple9(y), Multiple14(x)), Multiple11(x)), Multiple13(z)) = {}
      /\ Xor(Xor(Xor(Multiple13(y), Multiple9(x)), Multiple14(x)), Multiple11(z)) = {}
      /\ Xor(Xor(Xor(Multiple11(y), Multiple13(x)), Multiple9(x)), Multiple14(z)) = {}
  BY <1>1, ColumnUndone
<1> DEFINE W == LowWord(x)
<1>4. W = <<x, {}, {}, {}>>
  BY DEF LowWord
<1> HIDE DEF x, y, z, W
<1>5. /\ ReverseTables[SboxTable[y]][1] = <<Multiple14(y), Multiple9(y), Multiple13(y), Multiple11(y)>>
      /\ ReverseTables[SboxTable[x]][2] = <<Multiple11(x), Multiple14(x), Multiple9(x), Multiple13(x)>>
      /\ ReverseTables[SboxTable[x]][3] = <<Multiple13(x), Multiple11(x), Multiple14(x), Multiple9(x)>>
      /\ ReverseTables[SboxTable[z]][4] = <<Multiple9(z), Multiple13(z), Multiple11(z), Multiple14(z)>>
  BY <1>1, ReverseEntry
<1>6. /\ undone(1) = <<Multiple14(y), Multiple9(y), Multiple13(y), Multiple11(y)>>
      /\ undone(2) = <<Multiple11(x), Multiple14(x), Multiple9(x), Multiple13(x)>>
      /\ undone(3) = <<Multiple13(x), Multiple11(x), Multiple14(x), Multiple9(x)>>
      /\ undone(4) = <<Multiple9(z), Multiple13(z), Multiple11(z), Multiple14(z)>>
  BY <1>2, <1>5
<1> DEFINE L == XorW(XorW(XorW(undone(1), undone(2)), undone(3)), undone(4))
<1>7. \A r \in 1 .. 4 : L[r] = Xor(Xor(Xor(undone(1)[r], undone(2)[r]), undone(3)[r]), undone(4)[r])
  BY XorWByte
<1>8. L = [r \in 1 .. 4 |-> L[r]]
  BY DEF XorW
<1> HIDE DEF L, undone
<1>9. L[1] = x /\ L[2] = {} /\ L[3] = {} /\ L[4] = {}
  BY <1>3, <1>6, <1>7
<1>10. L = W
  BY <1>4, <1>8, <1>9
<1>11. QED BY <1>10 DEF L, W, undone, x

\* The reverse tables, which no run of the program exercises, undo the forward
\* tables in every byte: FIPS-197's InvSubBytes and InvMixColumns over the S-box
\* and the multiples of 14, 9, 13 and 11 the code looks up by logarithms.
THEOREM ReverseTablesUndo == Spec => []ReverseTablesInvert
<1>1. ReverseTablesInvert
  BY ReverseUndoes DEF ReverseTablesInvert
<1>2. QED BY <1>1, PTL

-----------------------------------------------------------------------------
(* The key schedule is the one of the standard. *)

\* The standard computes with the same bytes.
LEMMA SameBytes ==
  /\ \A a, b : Standard!Xor(a, b) = Xor(a, b)
  /\ \A v, w : Standard!XorW(v, w) = XorW(v, w)
  /\ \A b : Standard!LowWord(b) = LowWord(b)
  /\ \A b : Standard!XTIME(b) = XTIME(b)
  /\ Standard!StandardRcon = StandardRcon
<1>1. \A a, b : Standard!Xor(a, b) = Xor(a, b)
  BY DEF Standard!Xor, Xor
<1>2. \A v, w : Standard!XorW(v, w) = XorW(v, w)
  BY <1>1 DEF Standard!XorW, XorW
<1>3. \A b : Standard!LowWord(b) = LowWord(b)
  BY DEF Standard!LowWord, LowWord
<1>4. \A n : Standard!ByteOf(n) = ByteOf(n)
  BY DEF Standard!ByteOf, ByteOf, Standard!Bit, Bit
<1>5. \A b : Standard!XTIME(b) = XTIME(b)
  BY <1>1, <1>4 DEF Standard!XTIME, XTIME
<1>6. Standard!StandardRcon = StandardRcon
  BY <1>4 DEF Standard!StandardRcon, StandardRcon, Standard!Table, Table
<1>7. QED BY <1>1, <1>2, <1>3, <1>5, <1>6

LEMMA XorWOrder ==
  ASSUME NEW u, NEW v, NEW w
  PROVE  XorW(XorW(u, v), w) = XorW(u, XorW(w, v))
<1>1. \A a, b, c : Xor(Xor(a, b), c) = Xor(a, Xor(c, b))
  BY DEF Xor
<1>2. QED BY <1>1 DEF XorW

LEMMA SubIsSubWord ==
  ASSUME filled = AllTables, NEW v \in Word
  PROVE  Sub(v) = Standard!SubWord(v)
  BY TablesAreStandard, WordBytes DEF AllTables, Sub, FSb, Standard!SubWord

\* The words of one iteration are those the recurrence asks for.
LEMMA ExtensionIsTemp ==
  ASSUME filled = AllTables, NEW R \in [1 .. 8 -> Word], NEW n \in {4, 6, 8}, NEW k \in 0 .. 9,
         NEW d \in 0 .. n - 1
  PROVE  Extension(R, n, k)[d + 1]
           = XorW(R[d + 1], Standard!Temp(IF d = 0 THEN R[n] ELSE Extension(R, n, k)[d],
                                          n, n * (k + 1) + d))
<1> DEFINE E == Extension(R, n, k)
<1>1. E[1] = XorW(R[1], Standard!Temp(R[n], n, n * (k + 1)))
  <2>1. E[1] = XorW(XorW(R[1], LowWord(RCON(k))), Sub(<<R[n][2], R[n][3], R[n][4], R[n][1]>>))
    BY DEF Extension
  <2>2. RCON(k) = StandardRcon[k + 1]
    BY TablesAreStandard DEF RCON, AllTables
  <2>3. Sub(<<R[n][2], R[n][3], R[n][4], R[n][1]>>) = Standard!SubWord(Standard!RotWord(R[n]))
    BY RotateType, SubIsSubWord DEF Standard!RotWord
  <2>4. (n * (k + 1)) % n = 0 /\ (n * (k + 1)) \div n = k + 1
    <3>1. CASE n = 4 BY <3>1
    <3>2. CASE n = 6 BY <3>2
    <3>3. CASE n = 8 BY <3>3
    <3>4. QED BY <3>1, <3>2, <3>3
  <2>5. Standard!Temp(R[n], n, n * (k + 1))
          = XorW(Standard!SubWord(Standard!RotWord(R[n])), LowWord(StandardRcon[k + 1]))
    BY <2>4, SameBytes DEF Standard!Temp
  <2>6. QED BY <2>1, <2>2, <2>3, <2>5, XorWOrder
<1>2. ASSUME d \in 1 .. n - 1
      PROVE  E[d + 1] = XorW(R[d + 1], Standard!Temp(E[d], n, n * (k + 1) + d))
  <2>1. (n * (k + 1) + d) % n = d
    <3>1. CASE n = 4 BY <1>2, <3>1
    <3>2. CASE n = 6 BY <1>2, <3>2
    <3>3. CASE n = 8 BY <1>2, <3>3
    <3>4. QED BY <3>1, <3>2, <3>3
  <2>2. Standard!Temp(E[d], n, n * (k + 1) + d)
          = IF n > 6 /\ d = 4 THEN Standard!SubWord(E[d]) ELSE E[d]
    BY <1>2, <2>1 DEF Standard!Temp
  <2>3. E[d] \in Word
    BY <1>2, ExtensionType
  <2>4. E[d + 1] = XorW(R[d + 1], IF n = 8 /\ d = 4 THEN Sub(E[d]) ELSE E[d])
    <3>1. CASE d = 1 BY <3>1 DEF Extension
    <3>2. CASE d = 2 BY <3>2 DEF Extension
    <3>3. CASE d = 3 BY <3>3 DEF Extension
    <3>4. CASE d = 4 BY <3>4 DEF Extension
    <3>5. CASE d = 5 BY <3>5 DEF Extension
    <3>6. CASE d = 6 BY <3>6 DEF Extension
    <3>7. CASE d = 7 BY <3>7 DEF Extension
    <3>8. d \in {1, 2, 3, 4, 5, 6, 7}
      BY <1>2
    <3>9. QED BY <3>1, <3>2, <3>3, <3>4, <3>5, <3>6, <3>7, <3>8
  <2>5. QED BY <2>2, <2>3, <2>4, SubIsSubWord
<1> HIDE DEF E
<1>3. CASE d = 0
  BY <1>1, <1>3 DEF E
<1>4. CASE d # 0
  BY <1>2, <1>4 DEF E
<1>5. QED BY <1>3, <1>4

\* The first m words of v are those of the standard for the key k.
Expands(v, k, m) ==
  /\ \A j \in 1 .. Len(k) : v[j] = k[j]
  /\ \A j \in Len(k) .. m - 1 :
       v[j + 1] = XorW(v[j + 1 - Len(k)], Standard!Temp(v[j], Len(k), j))

ScheduleSoFar ==
  \A t \in Thread : pc[t] = "expand" => Expands(buf[t], key[t], Len(key[t]) * (i[t] + 1))

\* One iteration makes n words more.
LEMMA IterationExpands ==
  ASSUME filled = AllTables, NEW v \in [1 .. 68 -> Word], NEW k, NEW it \in 0 .. 9,
         Len(k) \in {4, 6, 8}, Len(k) * (it + 2) <= 68, it * Len(k) + 8 <= 68,
         Expands(v, k, Len(k) * (it + 1))
  PROVE  Expands(Iterated(v, Len(k), it), k, Len(k) * (it + 2))
<1> DEFINE n  == Len(k)
           m  == it * n
           R  == [j \in 1 .. 8 |-> v[m + j]]
           E  == Extension(R, n, it)
           v2 == Iterated(v, n, it)
           e  == n * (it + 1)
<1>1. n \in {4, 6, 8} /\ n * (it + 2) <= 68 /\ m + 8 <= 68
  OBVIOUS
<1>2. /\ \A j \in 1 .. n : v[j] = k[j]
      /\ \A j \in n .. e - 1 : v[j + 1] = XorW(v[j + 1 - n], Standard!Temp(v[j], n, j))
  BY DEF Expands
<1> HIDE DEF n
<1>3. /\ m \in 0 .. 72 /\ e = m + n /\ n * (it + 2) = m + n + n
      /\ m + n + n <= 68 /\ m + 8 <= 68
  <2>1. CASE n = 4 BY <1>1, <2>1
  <2>2. CASE n = 6 BY <1>1, <2>2
  <2>3. CASE n = 8 BY <1>1, <2>3
  <2>4. QED BY <1>1, <2>1, <2>2, <2>3
<1>4. v2 = [j \in 1 .. 68 |-> IF j - m - n \in 1 .. n THEN E[j - m - n] ELSE v[j]]
  BY DEF Iterated
<1> HIDE DEF m, e
<1>5. \A d \in 1 .. 8 : R[d] = v[m + d]
  OBVIOUS
<1>6. R \in [1 .. 8 -> Word]
  <2>1. \A j \in 1 .. 8 : m + j \in 1 .. 68
    BY ONLY <1>3
  <2>2. QED BY <2>1
<1> HIDE DEF R
<1>7. \A d \in 0 .. n - 1 :
        E[d + 1] = XorW(R[d + 1], Standard!Temp(IF d = 0 THEN R[n] ELSE E[d], n, m + n + d))
  <2>1. ASSUME NEW d \in 0 .. n - 1
        PROVE  E[d + 1] = XorW(R[d + 1], Standard!Temp(IF d = 0 THEN R[n] ELSE E[d], n, e + d))
    BY <1>1, <1>6, ExtensionIsTemp DEF e
  <2> HIDE DEF E
  <2>2. QED BY <1>3, <2>1
<1> HIDE DEF E, v2
<1>8. \A j \in 1 .. m + n : v2[j] = v[j]
  <2>1. \A j \in 1 .. m + n : j \in 1 .. 68 /\ ~(j - m - n \in 1 .. n)
    BY ONLY <1>1, <1>3
  <2>2. QED BY <1>4, <2>1
<1>9. \A d \in 1 .. n : v2[m + n + d] = E[d]
  <2> SUFFICES ASSUME NEW d \in 1 .. n PROVE v2[m + n + d] = E[d]
    OBVIOUS
  <2> DEFINE j == m + n + d
  <2>1. j \in 1 .. 68 /\ j - m - n = d
    BY ONLY <1>1, <1>3, d \in 1 .. n DEF j
  <2> HIDE DEF j
  <2>2. v2[j] = E[d]
    BY <1>4, <2>1
  <2>3. QED BY <2>2 DEF j
<1>10. \A j \in 1 .. n : v2[j] = k[j]
  <2>1. \A j \in 1 .. n : j \in 1 .. m + n
    BY ONLY <1>1, <1>3
  <2>2. QED BY <1>2, <1>8, <2>1
<1>11. ASSUME NEW j \in n .. m + n - 1
       PROVE  v2[j + 1] = XorW(v2[j + 1 - n], Standard!Temp(v2[j], n, j))
  <2>1. v[j + 1] = XorW(v[j + 1 - n], Standard!Temp(v[j], n, j))
    <3>1. j \in n .. e - 1
      BY ONLY <1>1, <1>3, j \in n .. m + n - 1
    <3>2. QED BY <1>2, <3>1
  <2>2. j + 1 \in 1 .. m + n /\ j + 1 - n \in 1 .. m + n /\ j \in 1 .. m + n
    BY ONLY <1>1, <1>3, j \in n .. m + n - 1
  <2>3. QED BY <1>8, <2>1, <2>2
<1>12. ASSUME NEW d \in 0 .. n - 1
       PROVE  v2[m + n + d + 1] = XorW(v2[m + n + d + 1 - n], Standard!Temp(v2[m + n + d], n, m + n + d))
  <2>1. v2[m + n + d + 1] = E[d + 1]
    <3>1. d + 1 \in 1 .. n /\ m + n + (d + 1) = m + n + d + 1
      BY ONLY <1>1, <1>3, d \in 0 .. n - 1
    <3>2. v2[m + n + (d + 1)] = E[d + 1]
      BY ONLY <1>9, <3>1
    <3>3. QED BY <3>1, <3>2
  <2>2. v2[m + n + d + 1 - n] = R[d + 1]
    <3>1. m + n + d + 1 - n = m + (d + 1) /\ m + (d + 1) \in 1 .. m + n /\ d + 1 \in 1 .. 8
      BY ONLY <1>1, <1>3, d \in 0 .. n - 1
    <3>2. QED BY <1>8, <1>5, <3>1
  <2>3. v2[m + n + d] = IF d = 0 THEN R[n] ELSE E[d]
    <3>1. CASE d = 0
      <4>1. m + n + d = m + n /\ m + n \in 1 .. m + n /\ n \in 1 .. 8
        BY ONLY <1>1, <1>3, <3>1
      <4>2. QED BY <1>8, <1>5, <3>1, <4>1
    <3>2. CASE d # 0
      <4>1. d \in 1 .. n
        BY ONLY <1>1, <3>2, d \in 0 .. n - 1
      <4>2. QED BY <1>9, <3>2, <4>1
    <3>3. QED BY <3>1, <3>2
  <2>4. QED BY <1>7, <2>1, <2>2, <2>3
<1>13. ASSUME NEW j \in n .. m + n + n - 1
       PROVE  v2[j + 1] = XorW(v2[j + 1 - n], Standard!Temp(v2[j], n, j))
  <2>1. CASE j <= m + n - 1
    <3>1. j \in n .. m + n - 1
      BY ONLY <1>1, <1>3, <2>1, j \in n .. m + n + n - 1
    <3>2. QED BY <1>11, <3>1
  <2>2. CASE j > m + n - 1
    <3>1. j - m - n \in 0 .. n - 1 /\ m + n + (j - m - n) = j
      BY ONLY <1>1, <1>3, <2>2, j \in n .. m + n + n - 1
    <3>2. QED BY <1>12, <3>1
  <2>3. j \in Int /\ m \in Int /\ n \in Int
    BY ONLY <1>1, <1>3, j \in n .. m + n + n - 1
  <2>4. QED BY <2>1, <2>2, <2>3
<1>14. Expands(v2, k, n * (it + 2))
  BY <1>3, <1>10, <1>13 DEF Expands, n
<1>15. QED BY <1>14 DEF v2, n

LEMMA ExpandsElsewhere ==
  ASSUME ScheduleSoFar,
         \A u \in Thread : pc'[u] = "expand" =>
           pc[u] = "expand" /\ buf'[u] = buf[u] /\ key'[u] = key[u] /\ i'[u] = i[u]
  PROVE  ScheduleSoFar'
  BY DEF ScheduleSoFar, Expands

LEMMA LoadKeyExpands ==
  ASSUME Inv, ScheduleSoFar, NEW t \in Thread, LoadKey(t)
  PROVE  ScheduleSoFar'
<1> DEFINE n == Len(key[t])
<1>1. CASE n \notin {4, 6, 8}
  <2>1. pc' = [pc EXCEPT ![t] = "idle"] /\ UNCHANGED <<buf, i, key>>
    BY <1>1 DEF LoadKey, Goto, ctx
  <2>2. QED BY <2>1, ExpandsElsewhere DEF Inv, TypeOK
<1>2. CASE n \in {4, 6, 8}
  <2>1. /\ buf' = [buf EXCEPT ![t] = [j \in 1 .. 68 |-> IF j <= n THEN key[t][j] ELSE @[j]]]
        /\ i' = [i EXCEPT ![t] = 0] /\ pc' = [pc EXCEPT ![t] = "expand"] /\ key' = key
    BY <1>2 DEF LoadKey, Goto
  <2>2. i'[t] = 0 /\ buf'[t] = [j \in 1 .. 68 |-> IF j <= n THEN key[t][j] ELSE buf[t][j]]
    BY <2>1 DEF Inv, TypeOK
  <2> HIDE DEF n
  <2>3. \A j \in 1 .. n : buf'[t][j] = key[t][j]
    BY <1>2, <2>2
  <2>4. n .. n * (i'[t] + 1) - 1 = {}
    BY <1>2, <2>2
  <2>5. Expands(buf'[t], key'[t], Len(key'[t]) * (i'[t] + 1))
    BY <2>1, <2>3, <2>4 DEF Expands, n
  <2>6. \A u \in Thread \ {t} :
          pc'[u] = pc[u] /\ buf'[u] = buf[u] /\ key'[u] = key[u] /\ i'[u] = i[u]
    BY <2>1 DEF Inv, TypeOK
  <2>7. \A u \in Thread \ {t} : pc'[u] = "expand" =>
          Expands(buf'[u], key'[u], Len(key'[u]) * (i'[u] + 1))
    BY <2>6 DEF ScheduleSoFar
  <2>8. QED BY <2>5, <2>7 DEF ScheduleSoFar, Expands
<1>3. QED BY <1>1, <1>2

\* The iteration leaves n words more, the last one too.
LEMMA ExpandKeyWords ==
  ASSUME Inv, ScheduleSoFar, NEW t \in Thread, ExpandKey(t)
  PROVE  Expands(buf'[t], key[t], Len(key[t]) * (i[t] + 2))
<1>1. pc[t] = "expand" /\ buf'[t] = Iterated(buf[t], Len(key[t]), i[t])
  BY DEF ExpandKey, Inv, TypeOK
<1>2. /\ filled = AllTables /\ buf[t] \in [1 .. 68 -> Word]
      /\ Len(key[t]) \in {4, 6, 8} /\ i[t] < Iterations(Len(key[t])) /\ i[t] \in 0 .. 13
      /\ Len(key[t]) * (i[t] + 2) <= 68
  <2>1. filled = AllTables
    BY <1>1 DEF Inv, TablesInOrder
  <2>2. Len(key[t]) \in {4, 6, 8} /\ i[t] < Iterations(Len(key[t]))
    BY <1>1 DEF Inv, LengthKnown
  <2>3. buf[t] \in [1 .. 68 -> Word] /\ i[t] \in 0 .. 13
    BY DEF Inv, TypeOK
  <2>4. (i[t] + 2) * Len(key[t]) <= 68
    BY <1>1 DEF Inv, TypeOK
  <2>5. Len(key[t]) * (i[t] + 2) <= 68
    <3>1. CASE Len(key[t]) = 4 BY <2>3, <2>4, <3>1
    <3>2. CASE Len(key[t]) = 6 BY <2>3, <2>4, <3>2
    <3>3. CASE Len(key[t]) = 8 BY <2>3, <2>4, <3>3
    <3>4. QED BY <2>2, <3>1, <3>2, <3>3
  <2>6. QED BY <2>1, <2>2, <2>3, <2>5
<1>3. i[t] \in 0 .. 9 /\ i[t] * Len(key[t]) + 8 <= 68
  <2>1. CASE Len(key[t]) = 4 BY <1>2, <2>1 DEF Iterations
  <2>2. CASE Len(key[t]) = 6 BY <1>2, <2>2 DEF Iterations
  <2>3. CASE Len(key[t]) = 8 BY <1>2, <2>3 DEF Iterations
  <2>4. QED BY <1>2, <2>1, <2>2, <2>3
<1>4. Expands(buf[t], key[t], Len(key[t]) * (i[t] + 1))
  BY <1>1 DEF ScheduleSoFar
<1>5. QED BY <1>1, <1>2, <1>3, <1>4, IterationExpands

LEMMA ExpandKeyExpands ==
  ASSUME Inv, ScheduleSoFar, NEW t \in Thread, ExpandKey(t)
  PROVE  ScheduleSoFar'
<1>1. Expands(buf'[t], key[t], Len(key[t]) * (i[t] + 2))
  BY ExpandKeyWords
<1>2. /\ i'[t] = i[t] + 1 /\ i[t] \in 0 .. 13 /\ key' = key
      /\ \A u \in Thread \ {t} : pc'[u] = pc[u] /\ buf'[u] = buf[u] /\ i'[u] = i[u]
  BY DEF ExpandKey, Goto, Inv, TypeOK
<1>3. i'[t] + 1 = i[t] + 2
  BY <1>2
<1>4. Expands(buf'[t], key'[t], Len(key'[t]) * (i'[t] + 1))
  BY <1>1, <1>2, <1>3
<1>5. \A u \in Thread \ {t} : pc'[u] = "expand" =>
        Expands(buf'[u], key'[u], Len(key'[u]) * (i'[u] + 1))
  BY <1>2 DEF ScheduleSoFar
<1>6. QED BY <1>4, <1>5 DEF ScheduleSoFar, Expands

LEMMA NextExpands == Inv /\ ScheduleSoFar /\ [Next]_vars => ScheduleSoFar'
<1> SUFFICES ASSUME Inv, ScheduleSoFar, [Next]_vars PROVE ScheduleSoFar'
  OBVIOUS
<1>1. CASE UNCHANGED vars
  BY <1>1 DEF vars, ctx, cipher, ScheduleSoFar, Expands
<1>2. ASSUME NEW t \in Thread, SetKey(t) \/ Generate(t) \/ Generated(t) \/ Clear(t)
                                \/ Encrypt(t) \/ AES_FROUND(t) \/ LastRound(t)
      PROVE  ScheduleSoFar'
  <2> USE DEF Inv, TypeOK, Goto, Returned, ctx, cipher
  <2>1. CASE SetKey(t) BY <2>1, ExpandsElsewhere DEF SetKey
  <2>2. CASE Generate(t) BY <2>2, ExpandsElsewhere DEF Generate
  <2>3. CASE Generated(t) BY <2>3, ExpandsElsewhere DEF Generated
  <2>4. CASE Clear(t) BY <2>4, ExpandsElsewhere DEF Clear
  <2>5. CASE Encrypt(t)
    <3>1. UNCHANGED <<buf, key>> /\ pc'[t] = "rounds"
          /\ \A u \in Thread \ {t} : pc'[u] = pc[u] /\ i'[u] = i[u]
      BY <2>5 DEF Encrypt
    <3>2. QED BY <3>1, ExpandsElsewhere
  <2>6. CASE AES_FROUND(t)
    <3>1. UNCHANGED <<pc, buf, key>> /\ pc[t] = "rounds"
          /\ \A u \in Thread \ {t} : i'[u] = i[u]
      BY <2>6 DEF AES_FROUND
    <3>2. QED BY <3>1, ExpandsElsewhere
  <2>7. CASE LastRound(t)
    <3>1. UNCHANGED <<buf, key, i>> /\ pc' = [pc EXCEPT ![t] = "encrypted"]
      BY <2>7 DEF LastRound
    <3>2. QED BY <3>1, ExpandsElsewhere
  <2>8. QED BY <1>2, <2>1, <2>2, <2>3, <2>4, <2>5, <2>6, <2>7
<1>3. CASE Next
  BY <1>2, <1>3, LoadKeyExpands, ExpandKeyExpands DEF Next
<1>4. QED BY <1>1, <1>3

-----------------------------------------------------------------------------
(* A round over the tables is a round of the standard. *)

\* SubBytes and ShiftRows, column by column
LEMMA SubColumn ==
  ASSUME NEW Y \in [1 .. 4 -> Word], NEW c \in 1 .. 4
  PROVE  Standard!ShiftRows(Standard!SubBytes(Y))[c]
           = <<SboxTable[From(Y, c, 0)], SboxTable[From(Y, c, 1)],
               SboxTable[From(Y, c, 2)], SboxTable[From(Y, c, 3)]>>
<1> DEFINE a(r) == From(Y, c, r)
<1>1. \A j \in 1 .. 4 : Standard!SubBytes(Y)[j] = Standard!SubWord(Y[j])
  BY DEF Standard!SubBytes
<1>2. \A j \in 1 .. 4 : Standard!SubWord(Y[j])
        = <<SboxTable[Y[j][1]], SboxTable[Y[j][2]], SboxTable[Y[j][3]], SboxTable[Y[j][4]]>>
  <2>1. \A j \in 1 .. 4 : Y[j] \in Word
    OBVIOUS
  <2>2. \A v \in Word : Standard!SubWord(v)
          = <<SboxTable[v[1]], SboxTable[v[2]], SboxTable[v[3]], SboxTable[v[4]]>>
    BY TablesAreStandard, WordBytes DEF Standard!SubWord
  <2>3. QED BY <2>1, <2>2
<1>3. Standard!ShiftRows(Standard!SubBytes(Y))[c]
        = <<Standard!SubBytes(Y)[((c - 1) % 4) + 1][1], Standard!SubBytes(Y)[(c % 4) + 1][2],
            Standard!SubBytes(Y)[((c + 1) % 4) + 1][3], Standard!SubBytes(Y)[((c + 2) % 4) + 1][4]>>
  <2>1. CASE c = 1 BY <2>1 DEF Standard!ShiftRows
  <2>2. CASE c = 2 BY <2>2 DEF Standard!ShiftRows
  <2>3. CASE c = 3 BY <2>3 DEF Standard!ShiftRows
  <2>4. CASE c = 4 BY <2>4 DEF Standard!ShiftRows
  <2>5. QED BY <2>1, <2>2, <2>3, <2>4
<1>4. /\ ((c - 1) % 4) + 1 \in 1 .. 4 /\ (c % 4) + 1 \in 1 .. 4
      /\ ((c + 1) % 4) + 1 \in 1 .. 4 /\ ((c + 2) % 4) + 1 \in 1 .. 4
  OBVIOUS
<1>5. /\ a(0) = Y[((c - 1) % 4) + 1][1] /\ a(1) = Y[(c % 4) + 1][2]
      /\ a(2) = Y[((c + 1) % 4) + 1][3] /\ a(3) = Y[((c + 2) % 4) + 1][4]
  <2>1. c + 0 - 1 = c - 1 /\ c + 1 - 1 = c /\ c + 2 - 1 = c + 1 /\ c + 3 - 1 = c + 2
    OBVIOUS
  <2>2. QED BY <2>1 DEF From
<1> HIDE DEF a
<1>6. Standard!ShiftRows(Standard!SubBytes(Y))[c]
        = <<SboxTable[a(0)], SboxTable[a(1)], SboxTable[a(2)], SboxTable[a(3)]>>
  BY <1>1, <1>2, <1>3, <1>4, <1>5
<1>7. QED BY <1>6 DEF a

LEMMA SubColumnIs ==
  ASSUME filled = AllTables, NEW Y \in [1 .. 4 -> Word], NEW c \in 1 .. 4
  PROVE  Standard!ShiftRows(Standard!SubBytes(Y))[c]
           = <<FSb(From(Y, c, 0)), FSb(From(Y, c, 1)), FSb(From(Y, c, 2)), FSb(From(Y, c, 3))>>
  BY SubColumn DEF FSb, AllTables

LEMMA RoundColumnIs ==
  ASSUME filled = AllTables, NEW Y \in [1 .. 4 -> Word], NEW k \in Word, NEW c \in 1 .. 4
  PROVE  XorW(XorW(XorW(XorW(k, FT(0, From(Y, c, 0))), FT(1, From(Y, c, 1))),
                   FT(2, From(Y, c, 2))), FT(3, From(Y, c, 3)))
           = XorW(Standard!MixColumns(Standard!ShiftRows(Standard!SubBytes(Y)))[c], k)
<1> DEFINE a(r) == From(Y, c, r)
           x(r) == SboxTable[a(r)]
           y(r) == XTIME(x(r))
           z(r) == Xor(x(r), y(r))
           mixed(p, q, u, v) == Xor(Xor(XTIME(p), XTIME(q)), Xor(q, Xor(u, v)))
<1>1. \A r \in 0 .. 3 : a(r) \in Byte /\ x(r) \in Byte
  BY FromType, SboxType
<1>2. /\ FT(0, a(0)) = <<y(0), x(0), x(0), z(0)>>
      /\ FT(1, a(1)) = <<z(1), y(1), x(1), x(1)>>
      /\ FT(2, a(2)) = <<x(2), z(2), y(2), x(2)>>
      /\ FT(3, a(3)) = <<x(3), x(3), z(3), y(3)>>
  <2>1. \A r \in 0 .. 3 : FT(r, a(r)) = ForwardTables[a(r)][r + 1]
    BY DEF FT, AllTables
  <2>2. \A r \in 0 .. 3 : ForwardTables[a(r)] =
          << <<y(r), x(r), x(r), z(r)>>, <<z(r), y(r), x(r), x(r)>>,
             <<x(r), z(r), y(r), x(r)>>, <<x(r), x(r), z(r), y(r)>> >>
    BY <1>1, ForwardEntry
  <2> HIDE DEF a, x, y, z
  <2>3. QED BY <2>1, <2>2
<1>3. Standard!ShiftRows(Standard!SubBytes(Y))[c] = <<x(0), x(1), x(2), x(3)>>
  BY SubColumn
<1>4. ASSUME NEW Z, NEW p \in Byte, NEW q \in Byte, NEW u \in Byte, NEW v \in Byte,
             Z[c] = <<p, q, u, v>>
      PROVE  Standard!MixColumns(Z)[c]
               = <<mixed(p, q, u, v), mixed(q, u, v, p), mixed(u, v, p, q), mixed(v, p, q, u)>>
  <2> DEFINE standard(d, e, f, g) ==
               Standard!Xor(Standard!XTIME(Standard!Xor(d, e)), Standard!Xor(e, Standard!Xor(f, g)))
  <2>1. \A d, e, f, g \in Byte : standard(d, e, f, g) = mixed(d, e, f, g)
    BY SameBytes, XTIMEXor
  <2>2. Standard!MixColumns(Z)[c]
          = <<standard(Z[c][1], Z[c][2], Z[c][3], Z[c][4]), standard(Z[c][2], Z[c][3], Z[c][4], Z[c][1]),
              standard(Z[c][3], Z[c][4], Z[c][1], Z[c][2]), standard(Z[c][4], Z[c][1], Z[c][2], Z[c][3])>>
    <3>1. CASE c = 1 BY <3>1 DEF Standard!MixColumns
    <3>2. CASE c = 2 BY <3>2 DEF Standard!MixColumns
    <3>3. CASE c = 3 BY <3>3 DEF Standard!MixColumns
    <3>4. CASE c = 4 BY <3>4 DEF Standard!MixColumns
    <3>5. QED BY <3>1, <3>2, <3>3, <3>4
  <2> HIDE DEF standard, mixed
  <2>3. QED BY <1>4, <2>1, <2>2
<1> DEFINE M == Standard!MixColumns(Standard!ShiftRows(Standard!SubBytes(Y)))[c]
<1>5. M = <<mixed(x(0), x(1), x(2), x(3)), mixed(x(1), x(2), x(3), x(0)),
            mixed(x(2), x(3), x(0), x(1)), mixed(x(3), x(0), x(1), x(2))>>
  <2> HIDE DEF x, mixed
  <2>1. x(0) \in Byte /\ x(1) \in Byte /\ x(2) \in Byte /\ x(3) \in Byte
    BY <1>1
  <2>2. QED BY <1>3, <1>4, <2>1
<1> DEFINE L == XorW(XorW(XorW(XorW(k, FT(0, a(0))), FT(1, a(1))), FT(2, a(2))), FT(3, a(3)))
<1>6. \A r \in 1 .. 4 : L[r] = Xor(M[r], k[r])
  <2>1. \A r \in 1 .. 4 :
          L[r] = Xor(Xor(Xor(Xor(k[r], FT(0, a(0))[r]), FT(1, a(1))[r]), FT(2, a(2))[r]), FT(3, a(3))[r])
    BY XorWByte
  <2> HIDE DEF L, M, a, x
  <2>2. L[1] = Xor(M[1], k[1])
    BY <1>2, <1>5, <2>1, RoundByte
  <2>3. L[2] = Xor(M[2], k[2])
    BY <1>2, <1>5, <2>1, RoundByte
  <2>4. L[3] = Xor(M[3], k[3])
    BY <1>2, <1>5, <2>1, RoundByte
  <2>5. L[4] = Xor(M[4], k[4])
    BY <1>2, <1>5, <2>1, RoundByte
  <2>6. \A r \in 1 .. 4 : r = 1 \/ r = 2 \/ r = 3 \/ r = 4
    OBVIOUS
  <2>7. QED BY <2>2, <2>3, <2>4, <2>5, <2>6
<1>7. L = [r \in 1 .. 4 |-> L[r]]
  BY DEF XorW
<1> HIDE DEF L, M
<1>8. L = XorW(M, k)
  BY <1>6, <1>7 DEF XorW
<1>9. QED BY <1>8 DEF L, M

-----------------------------------------------------------------------------
(* Every step is one of the standard, or none. *)

LEMMA Prefix ==
  ASSUME NEW v \in [1 .. 68 -> Word], NEW m \in 0 .. 68
  PROVE  Len(SubSeq(v, 1, m)) = m /\ \A j \in 1 .. m : SubSeq(v, 1, m)[j] = v[j]
<1>1. v \in Seq(Word)
  <2>1. 68 \in Nat
    OBVIOUS
  <2>2. QED BY <2>1, SeqDef
<1>2. Len(v) = 68
  BY <1>1
<1>3. QED BY <1>1, <1>2

LEMMA ScheduleWords ==
  ASSUME Inv, NEW t \in Thread, nr[t] # 0, pc[t] # "expand"
  PROVE  /\ nr[t] \in {10, 12, 14} /\ Len(schedule[t]) = 4 * (nr[t] + 1)
         /\ schedule[t] # <<>>
         /\ \A j \in 1 .. 4 * (nr[t] + 1) : schedule[t][j] = buf[t][j]
<1>1. nr[t] \in {10, 12, 14} /\ buf[t] \in [1 .. 68 -> Word]
  BY DEF Inv, TypeOK
<1>2. schedule[t] = SubSeq(buf[t], 1, 4 * (nr[t] + 1)) /\ 4 * (nr[t] + 1) \in 1 .. 68
  <2>1. schedule[t] = SubSeq(buf[t], 1, 4 * (nr[t] + 1))
    BY DEF schedule
  <2>2. 4 * (nr[t] + 1) \in 1 .. 68
    BY <1>1
  <2>3. QED BY <2>1, <2>2
<1>3. Len(schedule[t]) = 4 * (nr[t] + 1) /\ \A j \in 1 .. 4 * (nr[t] + 1) : schedule[t][j] = buf[t][j]
  <2> DEFINE m == 4 * (nr[t] + 1)
  <2>1. m \in 0 .. 68 /\ schedule[t] = SubSeq(buf[t], 1, m)
    BY <1>2
  <2> HIDE DEF m
  <2>2. Len(schedule[t]) = m /\ \A j \in 1 .. m : schedule[t][j] = buf[t][j]
    BY <1>1, <2>1, Prefix
  <2>3. QED BY <2>2 DEF m
<1>4. schedule[t] # <<>>
  <2>1. Len(schedule[t]) = 4 * (nr[t] + 1)
    BY <1>3
  <2>2. 4 * (nr[t] + 1) # 0
    BY <1>1
  <2>3. Len(<<>>) = 0
    OBVIOUS
  <2>4. QED BY <2>1, <2>2, <2>3
<1>5. QED BY <1>1, <1>3, <1>4

\* What leaves the context alone, and no schedule starts or ends, leaves the
\* schedules alone.
LEMMA ScheduleSame ==
  ASSUME nr' = nr, buf' = buf, \A u \in Thread : (pc'[u] = "expand") = (pc[u] = "expand")
  PROVE  schedule' = schedule
  BY DEF schedule

\* Forgetting: the entry of t becomes empty.
LEMMA ScheduleForgotten ==
  ASSUME NEW t \in Thread, nr'[t] = 0 \/ pc'[t] = "expand",
         \A u \in Thread \ {t} :
           nr'[u] = nr[u] /\ buf'[u] = buf[u] /\ (pc'[u] = "expand") = (pc[u] = "expand")
  PROVE  schedule' = [schedule EXCEPT ![t] = <<>>]
  BY DEF schedule

LEMMA LoadKeyStep ==
  ASSUME Inv, NEW t \in Thread, LoadKey(t)
  PROVE  Standard!Forget(t) \/ UNCHANGED Standard!vars
<1>1. pc[t] = "schedule" /\ UNCHANGED <<key, X, RK, output>>
  BY DEF LoadKey
<1>2. CASE Len(key[t]) \in {4, 6, 8}
  <2>1. /\ nr' = [nr EXCEPT ![t] = Rounds(Len(key[t]))]
        /\ buf' = [buf EXCEPT ![t] = buf'[t]] /\ pc' = [pc EXCEPT ![t] = "expand"]
    BY <1>2 DEF LoadKey, Goto, Inv, TypeOK
  <2>2. schedule' = [schedule EXCEPT ![t] = <<>>]
    BY <2>1, ScheduleForgotten DEF Inv, TypeOK
  <2>3. QED BY <1>1, <2>2 DEF Standard!Forget, roundsDone
<1>3. CASE Len(key[t]) \notin {4, 6, 8}
  <2>1. pc' = [pc EXCEPT ![t] = "idle"] /\ UNCHANGED <<nr, buf>>
    BY <1>3 DEF LoadKey, Goto, ctx
  <2>2. schedule' = schedule
    BY <1>1, <2>1, ScheduleSame DEF Inv, TypeOK
  <2>3. QED BY <1>1, <2>2 DEF Standard!vars, roundsDone
<1>4. QED BY <1>2, <1>3

LEMMA ExpandKeyStep ==
  ASSUME Inv, Inv', ScheduleSoFar, NEW t \in Thread, ExpandKey(t)
  PROVE  Standard!SetKey(t) \/ UNCHANGED Standard!vars
<1> DEFINE n == Len(key[t])
<1>1. /\ pc[t] = "expand" /\ UNCHANGED <<key, nr, X, RK, output>>
      /\ pc' = [pc EXCEPT ![t] = IF i'[t] = Iterations(n) THEN "idle" ELSE "expand"]
      /\ i'[t] = i[t] + 1
      /\ \A u \in Thread \ {t} : buf'[u] = buf[u]
  BY DEF ExpandKey, Goto, Inv, TypeOK
<1>2. UNCHANGED <<key, X, roundsDone, output>>
  BY <1>1 DEF roundsDone
<1>3. CASE i'[t] # Iterations(n)
  <2>1. pc'[t] = "expand" /\ \A u \in Thread \ {t} : pc'[u] = pc[u]
    BY <1>1, <1>3 DEF Inv, TypeOK
  <2>2. schedule' = schedule
    BY <1>1, <2>1 DEF schedule
  <2>3. QED BY <1>2, <2>2 DEF Standard!vars
<1>4. CASE i'[t] = Iterations(n)
  <2>1. pc'[t] = "idle" /\ \A u \in Thread \ {t} : pc'[u] = pc[u]
    BY <1>1, <1>4 DEF Inv, TypeOK
  <2>2. /\ n \in {4, 6, 8} /\ nr[t] = n + 6 /\ nr'[t] = nr[t] /\ nr'[t] # 0
        /\ i[t] \in 0 .. 13 /\ i[t] + 1 = Iterations(n)
    <3>1. n \in {4, 6, 8} /\ nr[t] = n + 6
      BY <1>1 DEF Inv, LengthKnown
    <3>2. i[t] \in 0 .. 13 /\ i[t] + 1 = Iterations(n) /\ nr'[t] = nr[t]
      BY <1>1, <1>4 DEF Inv, TypeOK
    <3> HIDE DEF n
    <3>3. n + 6 # 0
      BY <3>1
    <3>4. QED BY <3>1, <3>2, <3>3
  <2>3. schedule' = [schedule EXCEPT ![t] = schedule'[t]]
    BY <1>1, <2>1 DEF schedule
  <2>5. Len(schedule'[t]) = 4 * (nr[t] + 1)
        /\ \A j \in 1 .. 4 * (nr[t] + 1) : schedule'[t][j] = buf'[t][j]
    <3>1. nr'[t] \in {10, 12, 14} /\ buf'[t] \in [1 .. 68 -> Word]
      BY <2>2 DEF Inv, TypeOK
    <3> DEFINE m == 4 * (nr[t] + 1)
    <3>2. m \in 0 .. 68
      <4>1. nr[t] \in {10, 12, 14}
        BY <2>2, <3>1
      <4>2. QED BY <4>1
    <3>3. schedule'[t] = SubSeq(buf'[t], 1, m)
      BY <2>1, <2>2 DEF schedule
    <3> HIDE DEF m
    <3>4. Len(schedule'[t]) = m /\ \A j \in 1 .. m : schedule'[t][j] = buf'[t][j]
      BY <3>1, <3>2, <3>3, Prefix
    <3>5. QED BY <3>4 DEF m
  <2>6. Expands(buf'[t], key[t], n * (i[t] + 2))
    BY ExpandKeyWords
  <2>7. 4 * (nr[t] + 1) <= n * (i[t] + 2) /\ n < 4 * (nr[t] + 1) /\ 4 * (nr[t] + 1) \in Nat
        /\ n * (i[t] + 2) \in Nat /\ 4 * (nr[t] + 1) = 4 * (n + 6 + 1)
    <3> HIDE DEF n
    <3>1. CASE n = 4 BY <2>2, <3>1 DEF Iterations
    <3>2. CASE n = 6 BY <2>2, <3>2 DEF Iterations
    <3>3. CASE n = 8 BY <2>2, <3>3 DEF Iterations
    <3>4. QED BY <2>2, <3>1, <3>2, <3>3
  <2>8. Standard!KeyExpansion(key[t], schedule'[t])
    <3> DEFINE v == schedule'[t]
               m == 4 * (nr[t] + 1)
               e == n * (i[t] + 2)
    <3>1. Len(v) = m /\ m = 4 * (n + 6 + 1) /\ (\A j \in 1 .. m : v[j] = buf'[t][j])
          /\ m <= e /\ n < m /\ m \in Nat /\ e \in Nat /\ n \in {4, 6, 8}
      BY <2>2, <2>5, <2>7
    <3>2. \A j \in 1 .. n : buf'[t][j] = key[t][j]
      BY <2>6 DEF Expands
    <3>3. \A j \in n .. e - 1 : buf'[t][j + 1] = XorW(buf'[t][j + 1 - n], Standard!Temp(buf'[t][j], n, j))
      BY <2>6 DEF Expands
    <3> HIDE DEF v, m, e, n
    <3>4. \A j \in 1 .. n : v[j] = key[t][j]
      BY <3>1, <3>2
    <3>5. ASSUME NEW j \in n .. m - 1
          PROVE  v[j + 1] = Standard!XorW(v[j + 1 - n], Standard!Temp(v[j], n, j))
      <4>1. j \in n .. e - 1 /\ j + 1 \in 1 .. m /\ j + 1 - n \in 1 .. m /\ j \in 1 .. m
        BY <3>1
      <4>2. buf'[t][j + 1] = XorW(buf'[t][j + 1 - n], Standard!Temp(buf'[t][j], n, j))
        BY <3>3, <4>1
      <4>3. v[j + 1] = buf'[t][j + 1] /\ v[j + 1 - n] = buf'[t][j + 1 - n] /\ v[j] = buf'[t][j]
        BY <3>1, <4>1
      <4>4. QED BY <4>2, <4>3, SameBytes
    <3>6. Len(v) = 4 * (Standard!Nr(n) + 1)
      BY <3>1 DEF Standard!Nr
    <3>7. Standard!KeyExpansion(key[t], v)
      BY <3>1, <3>4, <3>5, <3>6 DEF Standard!KeyExpansion, n
    <3>8. QED BY <3>7 DEF v
  <2>9. QED BY <1>2, <2>2, <2>3, <2>8 DEF Standard!SetKey
<1>5. QED BY <1>3, <1>4

LEMMA EncryptStep ==
  ASSUME Inv, NEW t \in Thread, Encrypt(t)
  PROVE  Standard!Begin(t)
<1>1. /\ pc[t] \in {"idle", "encrypted"} /\ nr[t] # 0
      /\ RK' = [RK EXCEPT ![t] = 4] /\ pc' = [pc EXCEPT ![t] = "rounds"]
      /\ UNCHANGED <<key, nr, buf, output>>
  BY DEF Encrypt, Returned, Goto, ctx
<1>2. PICK b \in Block : X' = [X EXCEPT ![t] = Added(t, 0, b)]
  BY DEF Encrypt
<1>3. schedule' = schedule
  BY <1>1, ScheduleSame DEF Inv, TypeOK
<1>4. /\ schedule[t] # <<>> /\ nr[t] \in {10, 12, 14}
      /\ \A j \in 1 .. 4 * (nr[t] + 1) : schedule[t][j] = buf[t][j]
  BY <1>1, ScheduleWords
<1>5. roundsDone' = [roundsDone EXCEPT ![t] = 0]
  <2>1. (4 \div 4) - 1 = 0
    OBVIOUS
  <2>2. RK'[t] = 4 /\ \A u \in Thread \ {t} : RK'[u] = RK[u]
    BY <1>1 DEF Inv, TypeOK
  <2>3. roundsDone'[t] = 0 /\ \A u \in Thread \ {t} : roundsDone'[u] = roundsDone[u]
    BY <2>1, <2>2 DEF roundsDone
  <2>4. QED BY <2>3 DEF roundsDone
<1>6. Added(t, 0, b) = Standard!AddRoundKey(b, schedule[t], 0)
  <2>1. \A c \in 1 .. 4 : 0 + c = c /\ 4 * 0 + c = c /\ c \in 1 .. 4 * (nr[t] + 1)
    BY <1>4
  <2>2. \A c \in 1 .. 4 : XorW(buf[t][0 + c], b[c]) = Standard!XorW(b[c], schedule[t][4 * 0 + c])
    BY <1>4, <2>1, SameBytes, XorWComm
  <2>3. QED BY <2>2 DEF Added, Standard!AddRoundKey
<1>7. QED BY <1>1, <1>2, <1>3, <1>4, <1>5, <1>6 DEF Standard!Begin

\* Where t is in the rounds: the standard's round key is the one RK is at.
LEMMA RoundKeyIs ==
  ASSUME Inv, NEW t \in Thread, pc[t] = "rounds"
  PROVE  /\ nr[t] \in {10, 12, 14} /\ i[t] \in 0 .. nr[t] - 1 /\ filled = AllTables
         /\ roundsDone[t] = nr[t] - i[t] - 1
         /\ (Len(schedule[t]) \div 4) - 2 = nr[t] - 1 /\ schedule[t] # <<>>
         /\ \A c \in 1 .. 4 :
              /\ 4 * (roundsDone[t] + 1) + c = RK[t] + c /\ schedule[t][RK[t] + c] = buf[t][RK[t] + c]
              /\ buf[t][RK[t] + c] \in Word
<1>1. nr[t] # 0 /\ i[t] < nr[t] /\ RK[t] = 4 * (nr[t] - i[t])
  BY DEF Inv, RoundKeyNext
<1>2. nr[t] \in {10, 12, 14} /\ i[t] \in 0 .. nr[t] - 1
  <2>1. nr[t] \in {0, 10, 12, 14} /\ i[t] \in 0 .. 13
    BY DEF Inv, TypeOK
  <2>2. QED BY <1>1, <2>1
<1>3. filled = AllTables
  BY DEF Inv, TablesInOrder
<1>4. roundsDone[t] = nr[t] - i[t] - 1
  <2>1. (4 * (nr[t] - i[t])) \div 4 = nr[t] - i[t]
    BY <1>2
  <2>2. QED BY <1>1, <2>1 DEF roundsDone
<1>5. /\ Len(schedule[t]) = 4 * (nr[t] + 1) /\ schedule[t] # <<>>
      /\ \A j \in 1 .. 4 * (nr[t] + 1) : schedule[t][j] = buf[t][j]
  BY <1>1, ScheduleWords
<1>6. (Len(schedule[t]) \div 4) - 2 = nr[t] - 1
  BY <1>2, <1>5
<1>7. ASSUME NEW c \in 1 .. 4
      PROVE  /\ 4 * (roundsDone[t] + 1) + c = RK[t] + c
             /\ RK[t] + c \in 1 .. 4 * (nr[t] + 1) /\ RK[t] + c \in 1 .. 68
  <2>1. RK[t] = 4 * nr[t] - 4 * i[t] /\ nr[t] \in 10 .. 14 /\ i[t] \in 0 .. nr[t] - 1
    BY <1>1, <1>2
  <2>2. 4 * (roundsDone[t] + 1) = RK[t]
    BY <1>4, <2>1
  <2>3. RK[t] \in 4 .. 4 * nr[t]
    BY <2>1
  <2>4. QED BY <2>1, <2>2, <2>3
<1>8. \A j \in 1 .. 68 : buf[t][j] \in Word
  BY DEF Inv, TypeOK
<1>9. QED BY <1>2, <1>3, <1>4, <1>5, <1>6, <1>7, <1>8

\* RK' is one round key on.
LEMMA RoundDone ==
  ASSUME Inv, NEW t \in Thread, RK' = [RK EXCEPT ![t] = @ + 4]
  PROVE  roundsDone' = [roundsDone EXCEPT ![t] = @ + 1] /\ roundsDone'[t] = roundsDone[t] + 1
<1>1. RK \in [Thread -> 4 .. 60]
  BY DEF Inv, TypeOK
<1>2. RK'[t] = RK[t] + 4 /\ \A u \in Thread \ {t} : RK'[u] = RK[u]
  BY <1>1
<1>3. (RK'[t] \div 4) - 1 = (RK[t] \div 4) - 1 + 1
  BY <1>1, <1>2
<1>4. roundsDone'[t] = roundsDone[t] + 1 /\ \A u \in Thread \ {t} : roundsDone'[u] = roundsDone[u]
  BY <1>2, <1>3 DEF roundsDone
<1>5. QED BY <1>4 DEF roundsDone

LEMMA AES_FROUNDStep ==
  ASSUME Inv, NEW t \in Thread, AES_FROUND(t)
  PROVE  Standard!Round(t)
<1> DEFINE looked(c, r) == FT(r, From(X[t], c, r))
           column(c) == XorW(XorW(XorW(XorW(buf[t][RK[t] + c],
                          looked(c, 0)), looked(c, 1)), looked(c, 2)), looked(c, 3))
           M == Standard!MixColumns(Standard!ShiftRows(Standard!SubBytes(X[t])))
<1>1. /\ pc[t] = "rounds" /\ i[t] > 0
      /\ X' = [X EXCEPT ![t] = <<column(1), column(2), column(3), column(4)>>]
      /\ RK' = [RK EXCEPT ![t] = @ + 4] /\ UNCHANGED <<pc, key, nr, buf, output>>
  BY DEF AES_FROUND, ctx
<1>2. schedule' = schedule
  BY <1>1, ScheduleSame
<1>3. roundsDone' = [roundsDone EXCEPT ![t] = @ + 1] /\ roundsDone'[t] = roundsDone[t] + 1
  BY <1>1, RoundDone
<1>4. roundsDone[t] < (Len(schedule[t]) \div 4) - 2 /\ schedule[t] # <<>>
  <2>1. /\ nr[t] \in {10, 12, 14} /\ i[t] \in 0 .. nr[t] - 1 /\ roundsDone[t] = nr[t] - i[t] - 1
        /\ (Len(schedule[t]) \div 4) - 2 = nr[t] - 1 /\ schedule[t] # <<>>
    BY <1>1, RoundKeyIs
  <2>2. i[t] > 0
    BY <1>1
  <2>3. nr[t] - i[t] - 1 < nr[t] - 1
    BY <2>1, <2>2
  <2>4. QED BY <2>1, <2>3
<1>5. ASSUME NEW c \in 1 .. 4
      PROVE  column(c) = Standard!XorW(M[c], schedule[t][4 * roundsDone'[t] + c])
  <2>1. /\ filled = AllTables /\ buf[t][RK[t] + c] \in Word
        /\ 4 * (roundsDone[t] + 1) + c = RK[t] + c /\ schedule[t][RK[t] + c] = buf[t][RK[t] + c]
    BY <1>1, RoundKeyIs
  <2>2. X[t] \in [1 .. 4 -> Word]
    BY DEF Inv, TypeOK
  <2>3. column(c) = XorW(M[c], buf[t][RK[t] + c])
    BY <2>1, <2>2, RoundColumnIs
  <2> HIDE DEF column, M
  <2>4. QED BY <1>3, <2>1, <2>3, SameBytes
<1> HIDE DEF column
<1>6. <<column(1), column(2), column(3), column(4)>>
        = Standard!AddRoundKey(M, schedule[t], roundsDone'[t])
  <2> HIDE DEF M
  <2>1. QED BY <1>5 DEF Standard!AddRoundKey
<1> HIDE DEF M
<1>7. X' = [X EXCEPT ![t] = Standard!AddRoundKey(M, schedule[t], roundsDone'[t])]
  BY <1>1, <1>6
<1>8. QED BY <1>1, <1>2, <1>3, <1>4, <1>7 DEF Standard!Round, M

LEMMA LastRoundStep ==
  ASSUME Inv, NEW t \in Thread, LastRound(t)
  PROVE  Standard!Final(t)
<1> DEFINE looked(c, r) == FSb(From(X[t], c, r))
           column(c) == <<looked(c, 0), looked(c, 1), looked(c, 2), looked(c, 3)>>
           block == <<column(1), column(2), column(3), column(4)>>
           S == Standard!ShiftRows(Standard!SubBytes(X[t]))
<1>1. /\ pc[t] = "rounds" /\ i[t] = 0
      /\ X' = [X EXCEPT ![t] = Added(t, RK[t], block)]
      /\ RK' = [RK EXCEPT ![t] = @ + 4] /\ output' = [output EXCEPT ![t] = X'[t]]
      /\ pc' = [pc EXCEPT ![t] = "encrypted"] /\ UNCHANGED <<key, nr, buf>>
  BY DEF LastRound, Goto, ctx
<1>2. schedule' = schedule
  BY <1>1, ScheduleSame DEF Inv, TypeOK
<1>3. roundsDone' = [roundsDone EXCEPT ![t] = @ + 1] /\ roundsDone'[t] = roundsDone[t] + 1
  BY <1>1, RoundDone
<1>4. roundsDone[t] = (Len(schedule[t]) \div 4) - 2 /\ schedule[t] # <<>> /\ filled = AllTables
  <2>1. /\ nr[t] \in {10, 12, 14} /\ i[t] \in 0 .. nr[t] - 1 /\ roundsDone[t] = nr[t] - i[t] - 1
        /\ (Len(schedule[t]) \div 4) - 2 = nr[t] - 1 /\ schedule[t] # <<>> /\ filled = AllTables
    BY <1>1, RoundKeyIs
  <2>2. i[t] = 0
    BY <1>1
  <2>3. nr[t] - i[t] - 1 = nr[t] - 1
    BY <2>1, <2>2
  <2>4. QED BY <2>1, <2>3
<1>5. \A c \in 1 .. 4 : S[c] = column(c)
  BY <1>4, SubColumnIs DEF Inv, TypeOK
<1>6. \A c \in 1 .. 4 : block[c] = column(c)
  <2> HIDE DEF column
  <2>1. QED OBVIOUS
<1> HIDE DEF S, block, column
<1>7. ASSUME NEW c \in 1 .. 4
      PROVE  XorW(buf[t][RK[t] + c], block[c]) = Standard!XorW(S[c], schedule[t][4 * roundsDone'[t] + c])
  <2>1. 4 * (roundsDone[t] + 1) + c = RK[t] + c /\ schedule[t][RK[t] + c] = buf[t][RK[t] + c]
    BY <1>1, RoundKeyIs
  <2>2. QED BY <1>3, <1>5, <1>6, <2>1, SameBytes, XorWComm
<1>8. Added(t, RK[t], block) = Standard!AddRoundKey(S, schedule[t], roundsDone'[t])
  BY <1>7 DEF Added, Standard!AddRoundKey
<1>9. X' = [X EXCEPT ![t] = output'[t]]
      /\ output' = [output EXCEPT ![t] = Standard!AddRoundKey(S, schedule[t], roundsDone'[t])]
  BY <1>1, <1>8 DEF Inv, TypeOK
<1>10. QED BY <1>1, <1>2, <1>3, <1>4, <1>9 DEF Standard!Final, S

LEMMA StandardStep == Inv /\ Inv' /\ ScheduleSoFar /\ [Next]_vars => [Standard!Next]_(Standard!vars)
<1> SUFFICES ASSUME Inv, Inv', ScheduleSoFar, [Next]_vars
             PROVE  [Standard!Next]_(Standard!vars)
  OBVIOUS
<1>1. CASE UNCHANGED vars
  BY <1>1 DEF vars, ctx, cipher, Standard!vars, schedule, roundsDone
<1>2. ASSUME NEW t \in Thread, SetKey(t) \/ Generate(t) \/ Generated(t)
      PROVE  Standard!Ask(t) \/ UNCHANGED Standard!vars
  <2>1. UNCHANGED <<nr, buf, X, RK, output>>
    BY <1>2 DEF SetKey, Generate, Generated, ctx, cipher
  <2>2. schedule' = schedule /\ roundsDone' = roundsDone
    BY <1>2, <2>1, ScheduleSame
    DEF SetKey, Generate, Generated, Goto, Returned, Inv, TypeOK, roundsDone
  <2>3. CASE SetKey(t)
    <3>1. PICK k \in Key : key' = [key EXCEPT ![t] = k]
      BY <2>3 DEF SetKey
    <3>2. QED BY <2>1, <2>2, <3>1 DEF Standard!Ask
  <2>4. CASE Generate(t) \/ Generated(t)
    BY <2>1, <2>2, <2>4 DEF Generate, Generated, Standard!vars
  <2>5. QED BY <1>2, <2>3, <2>4
<1>3. ASSUME NEW t \in Thread, Clear(t)
      PROVE  Standard!Forget(t)
  <2>1. /\ UNCHANGED <<key, X, RK, output>> /\ nr'[t] = 0 /\ pc[t] # "expand" /\ pc' = [pc EXCEPT ![t] = "idle"]
        /\ \A u \in Thread \ {t} : nr'[u] = nr[u] /\ buf'[u] = buf[u]
    BY <1>3 DEF Clear, Returned, Goto, cipher, Inv, TypeOK
  <2>2. schedule' = [schedule EXCEPT ![t] = <<>>]
    BY <2>1, ScheduleForgotten DEF Inv, TypeOK
  <2>3. QED BY <2>1, <2>2 DEF Standard!Forget, roundsDone
<1>4. CASE Next
  BY <1>2, <1>3, <1>4, LoadKeyStep, ExpandKeyStep, EncryptStep, AES_FROUNDStep, LastRoundStep
  DEF Next, Standard!Next
<1>5. QED BY <1>1, <1>4

LEMMA StandardInit == Init => Standard!Init /\ ScheduleSoFar
<1> SUFFICES ASSUME Init PROVE Standard!Init /\ ScheduleSoFar
  OBVIOUS
<1>1. schedule = [t \in Thread |-> <<>>] /\ roundsDone = [t \in Thread |-> 0]
  BY DEF Init, schedule, roundsDone
<1>2. X \in [Thread -> Block] /\ output = X /\ key = [t \in Thread |-> <<>>]
  BY DEF Init
<1>3. ScheduleSoFar
  BY DEF Init, ScheduleSoFar
<1>4. QED BY <1>1, <1>2, <1>3 DEF Standard!Init

\* aes.cpp, "FIPS-197 compliant AES implementation", for any threads, keys and
\* blocks and however the threads meet in the tables: what a context holds is
\* the schedule of the standard for the key it was given, and what is looked up round by
\* round is the standard's cipher under it.
THEOREM AesImplementsStandard == Spec => AesImplementsFips
<1>1. Init /\ [][Next]_vars => [](Inv /\ ScheduleSoFar)
  BY InitInv, StandardInit, NextInv, NextExpands, PTL
<1>2. QED BY <1>1, StandardInit, StandardStep, PTL DEF Spec, AesImplementsFips, Standard!Spec
=============================================================================
