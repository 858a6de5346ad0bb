------------------------------- MODULE AesBytes -------------------------------
(***************************************************************************)
(* Bytes and words for the AES modules.  A byte is the set of its one      *)
(* bits, so that exclusive or is the symmetric difference, and a word the  *)
(* tuple of its four bytes, the least significant first, as GET_UINT32_LE  *)
(* and PUT_UINT32_LE lay it out in memory (aes.cpp).                       *)
(***************************************************************************)
EXTENDS Integers, Sequences

\* The function f itself; TLC then keeps its values.
Table(f) == CHOOSE g \in {f} : g = f

Bit  == 0 .. 7
Byte == SUBSET Bit
Word == [1 .. 4 -> Byte]

ByteOf(n) ==
  LET weight == <<1, 2, 4, 8, 16, 32, 64, 128>>
  IN {k \in Bit : (n \div weight[k + 1]) % 2 = 1}

Xor(a, b)  == (a \ b) \cup (b \ a)
XorW(v, w) == [k \in 1 .. 4 |-> Xor(v[k], w[k])]

\* The word with this least significant byte and nothing else.
LowWord(b) == <<b, {}, {}, {}>>

\* Multiplication by x in GF(2^8); 16#1B# is 27.
XTIME(b) == Xor({k + 1 : k \in b \ {7}}, IF 7 \in b THEN ByteOf(27) ELSE {})

\* Multiplication in GF(2^8), from the highest bit of a to the lowest
Shifted(a, b, p, k) == Xor(XTIME(p), IF k \in a THEN b ELSE {})

Times(a, b) ==
  LET high == Shifted(a, b, Shifted(a, b, Shifted(a, b, Shifted(a, b, {}, 7), 6), 5), 4)
  IN Shifted(a, b, Shifted(a, b, Shifted(a, b, Shifted(a, b, high, 3), 2), 1), 0)

InverseOf(b) == IF b = {} THEN {} ELSE CHOOSE c \in Byte : Times(b, c) = {0}

Affine(b) ==
  LET bit(k) == k % 8 \in b
      sum(k) == (((bit(k) # bit(k + 4)) # bit(k + 5)) # bit(k + 6)) # bit(k + 7)
  IN {k \in Bit : sum(k) # (k \in ByteOf(99))}

\* The S-box as the standard defines it
StandardSBox == Table([b \in Byte |-> Affine(InverseOf(b))])

\* The round constants as the standard lists them
StandardRcon ==
  LET listed == <<1, 2, 4, 8, 16, 32, 64, 128, 27, 54>>
  IN Table([n \in 1 .. 10 |-> ByteOf(listed[n])])
=============================================================================
