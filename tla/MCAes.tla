-------------------------------- MODULE MCAes ---------------------------------
(* The keys, the block and the answers of FIPS-197, appendix C, and a key of *)
(* a length that AES does not have.                                          *)
EXTENDS Aes

CONSTANTS t1, t2

Bytes(n, f(_)) == [c \in 1 .. n \div 4 |-> [r \in 1 .. 4 |-> ByteOf(f(4 * (c - 1) + r - 1))]]
KeyOf(n) == Bytes(n, LAMBDA k : k)

MCKey   == {KeyOf(8), KeyOf(16), KeyOf(24), KeyOf(32)}
MCBlock == {Bytes(16, LAMBDA k : 17 * k)}

Answer(n) ==
  CASE n = 4 -> <<105, 196, 224, 216, 106, 123, 4, 48, 216, 205, 183, 128, 112, 180, 197, 90>>
    [] n = 6 -> <<221, 169, 124, 164, 134, 76, 223, 224, 110, 175, 112, 160, 236, 13, 113, 145>>
    [] n = 8 -> <<142, 162, 183, 202, 81, 103, 69, 191, 234, 252, 73, 144, 75, 73, 96, 137>>

\* mbedtls_aes_encrypt: a block encrypted under the last key that was accepted
\* is the one the standard prints, whatever another thread did meanwhile.
KnownAnswers ==
  \A t \in Thread :
    pc[t] = "encrypted" /\ Len(key[t]) \in {4, 6, 8} =>
      output[t] = Bytes(16, LAMBDA k : Answer(Len(key[t]))[k + 1])
=============================================================================
