------------------------------- MODULE Fips197 --------------------------------
(***************************************************************************)
(* What aes.cpp promises in its first line, "FIPS-197 compliant AES": the  *)
(* cipher as the standard words it, with SubBytes, ShiftRows, MixColumns   *)
(* and AddRoundKey, for every thread with a key of its own.  The field is  *)
(* computed with, not looked up, so no table and no thread can disturb it. *)
(* External to the code: Aes is shown to implement it.                     *)
(***************************************************************************)
EXTENDS AesBytes

CONSTANTS Thread, Key, Block, SBox   \* SBox: StandardSBox

VARIABLES
  asked,   \* the key given last
  w,       \* the key schedule, empty without a key
  s,       \* the state: four columns
  round,   \* the rounds done
  out      \* the last block encrypted

vars == <<asked, w, s, round, out>>

-----------------------------------------------------------------------------
SubWord(v) == <<SBox[v[1]], SBox[v[2]], SBox[v[3]], SBox[v[4]]>>
RotWord(v) == <<v[2], v[3], v[4], v[1]>>

Nr(n) == n + 6   \* rounds for a key of n words

\* What is added for word i + 1 to the word n before it; v is word i.
Temp(v, n, i) ==
  IF i % n = 0 THEN XorW(SubWord(RotWord(v)), LowWord(StandardRcon[i \div n]))
  ELSE IF n > 6 /\ i % n = 4 THEN SubWord(v)
  ELSE v

\* v is the schedule the standard expands key to.
KeyExpansion(key, v) ==
  LET n == Len(key) IN
  /\ Len(v) = 4 * (Nr(n) + 1)
  /\ \A i \in 1 .. n : v[i] = key[i]
  /\ \A i \in n .. Len(v) - 1 : v[i + 1] = XorW(v[i + 1 - n], Temp(v[i], n, i))

SubBytes(x) == <<SubWord(x[1]), SubWord(x[2]), SubWord(x[3]), SubWord(x[4])>>

ShiftRows(x) ==
  LET from(c, r) == x[((c + r - 2) % 4) + 1][r]
      column(c) == <<from(c, 1), from(c, 2), from(c, 3), from(c, 4)>>
  IN <<column(1), column(2), column(3), column(4)>>

MixColumns(x) ==
  LET mixed(a, b, c, d) == Xor(XTIME(Xor(a, b)), Xor(b, Xor(c, d)))
      column(v) == <<mixed(v[1], v[2], v[3], v[4]), mixed(v[2], v[3], v[4], v[1]),
                     mixed(v[3], v[4], v[1], v[2]), mixed(v[4], v[1], v[2], v[3])>>
  IN <<column(x[1]), column(x[2]), column(x[3]), column(x[4])>>

AddRoundKey(x, v, n) ==
  LET column(c) == XorW(x[c], v[4 * n + c])
  IN <<column(1), column(2), column(3), column(4)>>

-----------------------------------------------------------------------------
Init ==
  /\ asked = [t \in Thread |-> <<>>]
  /\ w = [t \in Thread |-> <<>>]
  /\ s \in [Thread -> Block]
  /\ round = [t \in Thread |-> 0]
  /\ out = s

Ask(t) ==
  /\ \E key \in Key : asked' = [asked EXCEPT ![t] = key]
  /\ UNCHANGED <<w, s, round, out>>

\* The whole schedule of the key asked for, at once
SetKey(t) ==
  /\ UNCHANGED <<asked, s, round, out>>
  /\ Len(asked[t]) \in {4, 6, 8} /\ KeyExpansion(asked[t], w'[t])
  /\ w' = [w EXCEPT ![t] = w'[t]]

Forget(t) == w' = [w EXCEPT ![t] = <<>>] /\ UNCHANGED <<asked, s, round, out>>

Begin(t) ==
  /\ w[t] # <<>>
  /\ \E b \in Block : s' = [s EXCEPT ![t] = AddRoundKey(b, w[t], 0)]
  /\ round' = [round EXCEPT ![t] = 0]
  /\ UNCHANGED <<asked, w, out>>

Round(t) ==
  /\ w[t] # <<>> /\ round[t] < (Len(w[t]) \div 4) - 2
  /\ round' = [round EXCEPT ![t] = @ + 1]
  /\ s' = [s EXCEPT ![t] = AddRoundKey(MixColumns(ShiftRows(SubBytes(@))), w[t], round'[t])]
  /\ UNCHANGED <<asked, w, out>>

Final(t) ==
  /\ w[t] # <<>> /\ round[t] = (Len(w[t]) \div 4) - 2
  /\ round' = [round EXCEPT ![t] = @ + 1]
  /\ out' = [out EXCEPT ![t] = AddRoundKey(ShiftRows(SubBytes(s[t])), w[t], round'[t])]
  /\ s' = [s EXCEPT ![t] = out'[t]]
  /\ UNCHANGED <<asked, w>>

Next ==
  \E t \in Thread : Ask(t) \/ SetKey(t) \/ Forget(t) \/ Begin(t) \/ Round(t) \/ Final(t)

Spec == Init /\ [][Next]_vars
=============================================================================
