-------------------------------- MODULE AesCtr --------------------------------
(***************************************************************************)
(* The counter mode of aes.cpp.  mbedtls_aes_crypt_ctr encrypts the        *)
(* counter whenever a byte needs a new stream block, and leaves the        *)
(* counter, the block and the offset into it to its caller, for the next   *)
(* call.  The two Mangle functions start a stream with every call, each    *)
(* time the same one.                                                      *)
(*                                                                         *)
(* The cipher is left to Aes: a stream block is the counter it was made    *)
(* from, and a byte of output is what it was combined with.                *)
(***************************************************************************)
EXTENDS Integers, Sequences

CONSTANTS
  BlockLen,    \* 16
  Base,        \* the values of a byte, 256
  Nonce,       \* the counters a stream starts with
  MangleNonce, \* the one of them that Mangle uses, aes_test_ctr_nonce_counter[1]
  MaxBytes     \* bounds the bytes of a stream

ASSUME CtrAssumption ==
  /\ BlockLen \in Nat \ {0} /\ Base \in Nat \ {0, 1} /\ MaxBytes \in Nat
  /\ Nonce \subseteq [1 .. BlockLen -> 0 .. Base - 1] /\ MangleNonce \in Nonce

VARIABLES
  nonce_counter, stream_block, nc_off,   \* the caller's
  length, n,                             \* of the call that is running
  output,       \* what each byte of the stream was combined with
  first         \* the counter the stream started with

stream == <<nonce_counter, stream_block, nc_off>>
vars   == <<stream, length, n, output, first>>

Counter == [1 .. BlockLen -> 0 .. Base - 1]
NoCall  == -1

-----------------------------------------------------------------------------
\* Mutant: the loop stops at the first byte it increments.
IncrementLast(c) == [c EXCEPT ![BlockLen] = (@ + 1) % Base]

\* The for loop: a byte is incremented when all behind it came to zero.
Increment(c) ==
  [d \in 1 .. BlockLen |->
     IF \A e \in d + 1 .. BlockLen : c[e] = Base - 1 THEN (c[d] + 1) % Base ELSE c[d]]

\* MangleEncryptOut and MangleDecryptIn, up to their call: output is that of
\* the new stream.  The stream block is not initialised.
Mangle(len) ==
  /\ length = NoCall
  /\ first' = MangleNonce /\ nonce_counter' = MangleNonce
  /\ stream_block' \in Counter
  /\ nc_off' = 0 /\ n' = 0
  /\ output' = <<>>
  /\ length' = len

\* The entry of mbedtls_aes_crypt_ctr, for a caller that goes on with a stream.
Crypt(len) ==
  /\ length = NoCall
  /\ length' = len
  /\ n' = nc_off
  /\ UNCHANGED <<stream, output, first>>

\* Mutant: the offset is not taken modulo the length of a block.
CryptByteUnmasked ==
  /\ length > 0
  /\ IF n = 0 THEN /\ stream_block' = nonce_counter
                   /\ nonce_counter' = Increment(nonce_counter)
              ELSE UNCHANGED <<stream_block, nonce_counter>>
  /\ output' = Append(output, [block |-> stream_block', at |-> n])
  /\ n' = n + 1
  /\ length' = length - 1
  /\ UNCHANGED <<nc_off, first>>

\* One iteration of the while loop
CryptByte ==
  /\ length > 0
  /\ IF n = 0 THEN /\ stream_block' = nonce_counter
                   /\ nonce_counter' = Increment(nonce_counter)
              ELSE UNCHANGED <<stream_block, nonce_counter>>
  /\ output' = Append(output, [block |-> stream_block', at |-> n])
  /\ n' = (n + 1) % BlockLen
  /\ length' = length - 1
  /\ UNCHANGED <<nc_off, first>>

\* Mutant: the offset is not given back.
ReturnForgets ==
  /\ length = 0
  /\ length' = NoCall
  /\ UNCHANGED <<stream, n, output, first>>

Return ==
  /\ length = 0
  /\ nc_off' = n
  /\ length' = NoCall
  /\ UNCHANGED <<nonce_counter, stream_block, n, output, first>>

Init ==
  /\ first \in Nonce /\ nonce_counter = first
  /\ stream_block \in Counter
  /\ nc_off = 0 /\ n = 0
  /\ length = NoCall
  /\ output = <<>>

Next ==
  \/ \E len \in 0 .. MaxBytes : Mangle(len)
  \/ \E len \in 0 .. MaxBytes - Len(output) : Crypt(len)
  \/ CryptByte
  \/ Return

Spec == Init /\ [][Next]_vars

-----------------------------------------------------------------------------
(* Properties. *)

TypeOK ==
  /\ nonce_counter \in Counter /\ stream_block \in Counter /\ first \in Counter
  /\ nc_off \in 0 .. BlockLen - 1 /\ n \in 0 .. BlockLen - 1
  /\ length \in {NoCall} \cup 0 .. MaxBytes
  /\ output \in Seq([block : Counter, at : 0 .. BlockLen - 1]) /\ Len(output) <= MaxBytes

\* The byte of the key stream that comes after b.
After(b) ==
  LET at == (b.at + 1) % BlockLen IN
  [block |-> IF at = 0 THEN Increment(b.block) ELSE b.block, at |-> at]

\* mbedtls_aes_crypt_ctr: however a stream is cut into calls, empty ones
\* included, it begins with the nonce's block and no byte of the key stream is
\* left out or used twice.  So who decrypts may cut it differently than who
\* encrypted.
BytesInOrder ==
  \A k \in 1 .. Len(output) :
    output[k] = IF k = 1 THEN [block |-> first, at |-> 0] ELSE After(output[k - 1])

\* The counter is a big-endian number.
Value(c) ==
  LET v[d \in 0 .. BlockLen] == IF d = 0 THEN 0 ELSE v[d - 1] * Base + c[d] IN v[BlockLen]

\* How many counters there are: Base to the power of BlockLen.
Counters ==
  LET p[d \in 0 .. BlockLen] == IF d = 0 THEN 1 ELSE p[d - 1] * Base IN p[BlockLen]

\* The for loop over nonce_counter: as numbers, the k-th byte is combined with
\* byte k % 16 of block k / 16 after the nonce's, carries and the wrap included.
KeystreamByPosition ==
  \A k \in 1 .. Len(output) :
    /\ output[k].at = (k - 1) % BlockLen
    /\ Value(output[k].block) = (Value(first) + (k - 1) \div BlockLen) % Counters
=============================================================================
