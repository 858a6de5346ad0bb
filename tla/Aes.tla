--------------------------------- MODULE Aes ----------------------------------
(***************************************************************************)
(* The AES of aes.cpp: tables that the first thread to set a key generates *)
(* for all of them, the key schedule over those tables, and a block        *)
(* encrypted by rounds that look up what SubBytes, ShiftRows and           *)
(* MixColumns would compute.  Every thread has a context of its own; the   *)
(* tables and aes_init_done are shared, without a lock.                    *)
(*                                                                         *)
(* Stores are seen in program order: nothing in the code asks for it, but  *)
(* the processors it is built for keep it.                                 *)
(***************************************************************************)
EXTENDS AesBytes

CONSTANTS
  Thread,
  Key,      \* the keys used, as sequences of words; keybits is 32 times the length
  Block,    \* the blocks encrypted, as four words
  MaxKeys   \* bounds the calls that set a key

ASSUME AesAssumption ==
  /\ Key \subseteq Seq(Word)
  /\ Block \subseteq [1 .. 4 -> Word]
  /\ MaxKeys \in Nat

VARIABLES
  aes_init_done,
  filled,          \* the tables generated so far
  pc,
  key,             \* the parameter of mbedtls_aes_setkey_enc
  nr, buf,         \* the context
  X, RK,           \* the block on its way and the next round key
  i,               \* the loop counter, of the key schedule or of the rounds
  output,
  keys             \* the calls that set a key

tables == <<aes_init_done, filled>>
ctx    == <<nr, buf>>
cipher == <<X, RK, i, output>>
vars   == <<tables, pc, key, ctx, cipher, keys>>

-----------------------------------------------------------------------------
(* What aes_gen_tables writes. *)

Threefold == Table([x \in Byte |-> Xor(x, XTIME(x))])

Powers[n \in 0 .. 255] == IF n = 0 THEN {0} ELSE Threefold[Powers[n - 1]]

pow == Table(Powers)

\* pow takes the value 1 twice, and the later one stays in log.
log == Table([x \in Byte \ {{}} |-> CHOOSE n \in 1 .. 255 : pow[n] = x])

RconTable[n \in 0 .. 9] == IF n = 0 THEN {0} ELSE XTIME(RconTable[n - 1])

SboxTable ==
  LET rotated(x, n) == {(k + n) % 8 : k \in x}
      sum(x) == Xor(Xor(Xor(Xor(x, rotated(x, 1)), rotated(x, 2)), rotated(x, 3)), rotated(x, 4))
  IN Table([b \in Byte |-> IF b = {} THEN ByteOf(99) ELSE Xor(sum(pow[255 - log[b]]), ByteOf(99))])

ReverseSbox == Table([b \in Byte |-> CHOOSE c \in Byte : SboxTable[c] = b])

ROTL8(v) == <<v[4], v[1], v[2], v[3]>>
Rotations(v) == <<v, ROTL8(v), ROTL8(ROTL8(v)), ROTL8(ROTL8(ROTL8(v)))>>

\* Mutant: x and y swapped in the first entry.
ForwardTablesSwapped ==
  Table([b \in Byte |-> LET x == SboxTable[b] y == XTIME(x) IN Rotations(<<x, y, x, Xor(x, y)>>)])

\* FT0 to FT3
ForwardTables ==
  Table([b \in Byte |-> LET x == SboxTable[b] y == XTIME(x) IN Rotations(<<y, x, x, Xor(x, y)>>)])

MUL(m, x) == IF x = {} THEN {} ELSE pow[(log[ByteOf(m)] + log[x]) % 255]

\* Mutant: the coefficients as FIPS-197 lists them, in the order of the rows.
ReverseTablesByRow ==
  Table([b \in Byte |-> LET x == ReverseSbox[b] IN
                        Rotations(<<MUL(14, x), MUL(11, x), MUL(13, x), MUL(9, x)>>)])

\* RT0 to RT3
ReverseTables ==
  Table([b \in Byte |-> LET x == ReverseSbox[b] IN
                        Rotations(<<MUL(14, x), MUL(9, x), MUL(13, x), MUL(11, x)>>)])

\* A computation without a parameter: the powers of 3 come back to 1 after
\* every byte but 0 was one of them, so that each has a logarithm.
ASSUME GeneratorAssumption ==
  pow[255] = {0} /\ \A x \in Byte \ {{}} : \E n \in 1 .. 255 : pow[n] = x

\* What a thread reads: a table that is not generated holds zeros.
RCON(n)  == IF "rcon" \in filled THEN RconTable[n] ELSE {}
FSb(b)   == IF "sbox" \in filled THEN SboxTable[b] ELSE {}
FT(n, b) == IF "tables" \in filled THEN ForwardTables[b][n + 1] ELSE <<{}, {}, {}, {}>>

-----------------------------------------------------------------------------
(* mbedtls_aes_setkey_enc *)

Goto(t, label) == pc' = [pc EXCEPT ![t] = label]
Returned(t) == pc[t] \in {"idle", "encrypted"}

Rounds(n) == CASE n = 4 -> 10 [] n = 6 -> 12 [] n = 8 -> 14

\* Mutant: one iteration more for the longest key.
IterationsOneMore(n) == CASE n = 4 -> 10 [] n = 6 -> 8 [] n = 8 -> 8

\* The iterations of the three loops
Iterations(n) == CASE n = 4 -> 10 [] n = 6 -> 8 [] n = 8 -> 7

Sub(v) == <<FSb(v[1]), FSb(v[2]), FSb(v[3]), FSb(v[4])>>

\* One iteration: the n words it writes behind the n words R, up to n = 8.
Extension(R, n, k) ==
  LET first  == XorW(XorW(R[1], LowWord(RCON(k))), Sub(<<R[n][2], R[n][3], R[n][4], R[n][1]>>))
      second == XorW(R[2], first)
      third  == XorW(R[3], second)
      fourth == XorW(R[4], third)
      fifth  == XorW(R[5], IF n = 8 THEN Sub(fourth) ELSE fourth)
      sixth  == XorW(R[6], fifth)
      last   == XorW(R[7], sixth)
  IN <<first, second, third, fourth, fifth, sixth, last, XorW(R[8], last)>>

\* What iteration k leaves in v: its RK is k * n words into it.
Iterated(v, n, k) ==
  LET words == Extension([j \in 1 .. 8 |-> v[k * n + j]], n, k)
  IN [j \in 1 .. 68 |-> IF j - k * n - n \in 1 .. n THEN words[j - k * n - n] ELSE v[j]]

SetKey(t) ==
  /\ Returned(t)
  /\ keys < MaxKeys /\ keys' = keys + 1
  /\ \E k \in Key : key' = [key EXCEPT ![t] = k]
  /\ Goto(t, IF aes_init_done = 0 THEN "rcon" ELSE "schedule")
  /\ UNCHANGED <<tables, ctx, cipher>>

\* Mutant: the flag is set on the way in, "so that nobody else generates".
GenerateFlagFirst(t) ==
  /\ pc[t] \in {"rcon", "sbox", "tables"}
  /\ filled' = filled \cup {pc[t]}
  /\ aes_init_done' = 1
  /\ Goto(t, CASE pc[t] = "rcon" -> "sbox" [] pc[t] = "sbox" -> "tables" [] pc[t] = "tables" -> "done")
  /\ UNCHANGED <<key, ctx, cipher, keys>>

\* One loop of aes_gen_tables
Generate(t) ==
  /\ pc[t] \in {"rcon", "sbox", "tables"}
  /\ filled' = filled \cup {pc[t]}
  /\ Goto(t, CASE pc[t] = "rcon" -> "sbox" [] pc[t] = "sbox" -> "tables" [] pc[t] = "tables" -> "done")
  /\ UNCHANGED <<aes_init_done, key, ctx, cipher, keys>>

Generated(t) ==
  /\ pc[t] = "done"
  /\ aes_init_done' = 1
  /\ Goto(t, "schedule")
  /\ UNCHANGED <<filled, key, ctx, cipher, keys>>

\* The length decides the rounds; the key is the first words of the schedule.
\* What was in buf behind the schedule stays there.
LoadKey(t) ==
  LET n == Len(key[t]) IN
  /\ pc[t] = "schedule"
  /\ IF n \in {4, 6, 8}
       THEN /\ nr' = [nr EXCEPT ![t] = Rounds(n)]
            /\ buf' = [buf EXCEPT ![t] = [j \in 1 .. 68 |-> IF j <= n THEN key[t][j] ELSE @[j]]]
            /\ i' = [i EXCEPT ![t] = 0]
            /\ Goto(t, "expand")
       ELSE Goto(t, "idle") /\ UNCHANGED <<ctx, i>>   \* MBEDTLS_ERR_AES_INVALID_KEY_LENGTH
  /\ UNCHANGED <<tables, key, X, RK, output, keys>>

\* One iteration of the loop for the length of the key
ExpandKey(t) ==
  /\ pc[t] = "expand"
  /\ buf' = [buf EXCEPT ![t] = Iterated(@, Len(key[t]), i[t])]
  /\ i' = [i EXCEPT ![t] = @ + 1]
  /\ Goto(t, IF i'[t] = Iterations(Len(key[t])) THEN "idle" ELSE "expand")
  /\ UNCHANGED <<tables, key, nr, X, RK, output, keys>>

\* mbedtls_aes_free, or mbedtls_aes_init again
Clear(t) ==
  /\ Returned(t)
  /\ nr' = [nr EXCEPT ![t] = 0]
  /\ buf' = [buf EXCEPT ![t] = [j \in 1 .. 68 |-> LowWord({})]]
  /\ Goto(t, "idle")
  /\ UNCHANGED <<tables, key, cipher, keys>>

-----------------------------------------------------------------------------
(* mbedtls_aes_encrypt; no caller calls it without a key. *)

\* The words of Y with the four behind the first n of the schedule
Added(t, n, Y) ==
  LET column(c) == XorW(buf[t][n + c], Y[c])
  IN <<column(1), column(2), column(3), column(4)>>

Encrypt(t) ==
  /\ Returned(t) /\ nr[t] # 0
  /\ \E b \in Block : X' = [X EXCEPT ![t] = Added(t, 0, b)]
  /\ RK' = [RK EXCEPT ![t] = 4]
  /\ i' = [i EXCEPT ![t] = 2 * ((nr[t] \div 2) - 1) + 1]   \* two rounds an iteration, and one
  /\ Goto(t, "rounds")
  /\ UNCHANGED <<tables, key, ctx, output, keys>>

\* The byte the r-th lookup of column c takes
From(Y, c, r) == Y[((c + r - 1) % 4) + 1][r + 1]

AES_FROUND(t) ==
  /\ pc[t] = "rounds" /\ i[t] > 0
  /\ LET looked(c, r) == FT(r, From(X[t], c, r))
         column(c) == XorW(XorW(XorW(XorW(buf[t][RK[t] + c],
                        looked(c, 0)), looked(c, 1)), looked(c, 2)), looked(c, 3))
     IN X' = [X EXCEPT ![t] = <<column(1), column(2), column(3), column(4)>>]
  /\ RK' = [RK EXCEPT ![t] = @ + 4]
  /\ i' = [i EXCEPT ![t] = @ - 1]
  /\ UNCHANGED <<tables, pc, key, ctx, output, keys>>

LastRound(t) ==
  /\ pc[t] = "rounds" /\ i[t] = 0
  /\ LET looked(c, r) == FSb(From(X[t], c, r))
         column(c) == <<looked(c, 0), looked(c, 1), looked(c, 2), looked(c, 3)>>
     IN X' = [X EXCEPT ![t] = Added(t, RK[t], <<column(1), column(2), column(3), column(4)>>)]
  /\ RK' = [RK EXCEPT ![t] = @ + 4]
  /\ output' = [output EXCEPT ![t] = X'[t]]
  /\ Goto(t, "encrypted")
  /\ UNCHANGED <<tables, key, ctx, i, keys>>

-----------------------------------------------------------------------------
Init ==
  /\ aes_init_done = 0 /\ filled = {}
  /\ pc = [t \in Thread |-> "idle"]
  /\ key = [t \in Thread |-> <<>>]
  /\ nr = [t \in Thread |-> 0]
  /\ buf = [t \in Thread |-> [j \in 1 .. 68 |-> LowWord({})]]
  /\ \E b \in Block : X = [t \in Thread |-> b]
  /\ RK = [t \in Thread |-> 4] /\ i = [t \in Thread |-> 0]
  /\ output = X
  /\ keys = 0

Next ==
  \E t \in Thread :
    \/ SetKey(t) \/ Generate(t) \/ Generated(t)
    \/ LoadKey(t) \/ ExpandKey(t) \/ Clear(t)
    \/ Encrypt(t) \/ AES_FROUND(t) \/ LastRound(t)

Spec == Init /\ [][Next]_vars

-----------------------------------------------------------------------------
(* Properties. *)

\* In particular the schedule of the longest key, which generates more words
\* than its rounds use, is written inside the 68 words of buf.
TypeOK ==
  /\ aes_init_done \in {0, 1} /\ filled \subseteq {"rcon", "sbox", "tables"}
  /\ pc \in [Thread -> {"idle", "rcon", "sbox", "tables", "done", "schedule",
                       "expand", "rounds", "encrypted"}]
  /\ key \in [Thread -> Key \cup {<<>>}]
  /\ nr \in [Thread -> {0, 10, 12, 14}]
  /\ buf \in [Thread -> [1 .. 68 -> Word]]
  /\ X \in [Thread -> [1 .. 4 -> Word]] /\ output \in [Thread -> [1 .. 4 -> Word]]
  /\ RK \in [Thread -> 4 .. 60] /\ i \in [Thread -> 0 .. 13]
  /\ keys \in 0 .. MaxKeys
  /\ \A t \in Thread : pc[t] = "expand" =>
       Len(key[t]) \in {4, 6, 8} /\ (i[t] + 2) * Len(key[t]) <= 68

AllTables == {"rcon", "sbox", "tables"}

\* Nothing locks aes_init_done, and two threads may both generate: all the
\* same no thread makes a schedule, or has one, before the tables are complete.
TablesReady ==
  /\ aes_init_done = 1 => filled = AllTables
  /\ \A t \in Thread :
       nr[t] # 0 \/ pc[t] \in {"done", "schedule", "expand", "rounds"} => filled = AllTables

\* Nobody decrypts with the reverse tables here, so no message would show a
\* mistake in them: they undo what the forward tables do to a byte.
ReverseTablesInvert ==
  "tables" \in filled /\ aes_init_done = 0 =>
    \A b \in Byte :
      LET undone(r) == ReverseTables[SboxTable[ForwardTables[b][1][r]]][r]
      IN XorW(XorW(XorW(undone(1), undone(2)), undone(3)), undone(4)) = LowWord(SboxTable[b])

\* The schedule of a thread, and how far it is with its block
schedule ==
  [t \in Thread |-> IF nr[t] = 0 \/ pc[t] = "expand" THEN <<>>
                    ELSE SubSeq(buf[t], 1, 4 * (nr[t] + 1))]

roundsDone == [t \in Thread |-> (RK[t] \div 4) - 1]

Standard ==
  INSTANCE Fips197 WITH SBox <- StandardSBox, asked <- key, w <- schedule, s <- X,
                        round <- roundsDone, out <- output

\* aes.cpp, "FIPS-197 compliant AES implementation": whichever threads generate
\* the tables meanwhile, a thread's schedule and each of its rounds are those
\* of the standard for its own key and block.
AesImplementsFips == Standard!Spec
=============================================================================
