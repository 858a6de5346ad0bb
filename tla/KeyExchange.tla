----------------------------- MODULE KeyExchange -----------------------------
(***************************************************************************)
(* The key exchange of one connection (keys.cpp): the client announces its *)
(* public key, the LDC answers with a public key of its own, and the       *)
(* client encapsulates the secret for it.  Nothing in the code ties a      *)
(* message to an exchange: exchanges overlap when the client starts anew,  *)
(* when a message arrives twice, or after the connection was lost.         *)
(*                                                                         *)
(* SIKEp751 is symbolic: a key pair is one value, and a secret is a        *)
(* ciphertext with the key it was opened with, for whoever encapsulates    *)
(* the public key the ciphertext was made for.  The transport is a stream  *)
(* in either direction.                                                    *)
(***************************************************************************)
EXTENDS Naturals, Sequences

CONSTANTS
  MaxDraws,    \* bounds the random values drawn, and so the exchanges
  MaxLosses,   \* bounds how often the connection is lost
  MaxRepeats   \* bounds the messages that arrive twice

ASSUME KeyAssumption == MaxDraws \in Nat /\ MaxLosses \in Nat /\ MaxRepeats \in Nat

VARIABLES
  sikeprivate, Clientsecret,                \* the client's SIKE_DH
  LDC_sike_sk, LDC_part_ss, LDCsecret,      \* the LDC's SIKE_DH
  toLDC, toClient,                          \* the two directions of the stream
  drawn,                                    \* how many random values were drawn
  losses, repeats,
  cut     \* the connection was lost and the client has not begun anew

client == <<sikeprivate, Clientsecret>>
ldc    == <<LDC_sike_sk, LDC_part_ss, LDCsecret>>
faults == <<losses, repeats, cut>>
vars   == <<client, ldc, toLDC, toClient, drawn, faults>>

\* What malloc left in either side's SIKE_DH; it counts as drawn.
ClientGarbage == 0
LDCGarbage == 1

-----------------------------------------------------------------------------
(* The library: no two draws of its generator are the same. *)

Draw(n) == drawn + n <= MaxDraws /\ drawn' = drawn + n

\* crypto_kem_enc: the ciphertext r makes for the public key pk.
Enc(pk, r) == <<pk, r>>

\* crypto_kem_dec: no error tells the wrong key; it gives another secret.
Dec(ct, sk) == <<ct, sk>>

-----------------------------------------------------------------------------
(* The four functions.  None of them ever reports an error. *)

ClientKeysInit ==
  /\ Draw(1)
  /\ sikeprivate' = drawn'
  /\ toLDC' = Append(toLDC, [type |-> "hello", pk |-> drawn'])
  /\ cut' = FALSE
  /\ UNCHANGED <<Clientsecret, ldc, toClient, losses, repeats>>

\* Mutant: the key pair is generated for the first client only.
LDCkeysM1Static(m) ==
  /\ Draw(2)
  /\ LDC_sike_sk' = IF LDC_sike_sk = LDCGarbage THEN drawn' ELSE LDC_sike_sk
  /\ LDC_part_ss' = Dec(Enc(m.pk, drawn' - 1), m.pk)
  /\ toClient' = Append(toClient, [ct |-> Enc(m.pk, drawn' - 1), pk |-> drawn'])
  /\ UNCHANGED <<client, LDCsecret, faults>>

\* Mutant: the second copy into the reply, that of the public key, is missing.
LDCkeysM1NoKey(m) ==
  /\ Draw(2)
  /\ LDC_sike_sk' = drawn'
  /\ LDC_part_ss' = Dec(Enc(m.pk, drawn' - 1), m.pk)
  /\ toClient' = Append(toClient, [ct |-> Enc(m.pk, drawn' - 1)])
  /\ UNCHANGED <<client, LDCsecret, faults>>

LDCkeysM1(m) ==
  /\ Draw(2)
  /\ LDC_sike_sk' = drawn'
  /\ LDC_part_ss' = Dec(Enc(m.pk, drawn' - 1), m.pk)
  /\ toClient' = Append(toClient, [ct |-> Enc(m.pk, drawn' - 1), pk |-> drawn'])
  /\ UNCHANGED <<client, LDCsecret, faults>>

\* Mutant: the client keeps the secret it decodes.
ClientKeysKeeps(m) ==
  /\ Draw(1)
  /\ Clientsecret' = Dec(m.ct, sikeprivate)
  /\ toLDC' = Append(toLDC, [type |-> "final", ct |-> Enc(m.pk, drawn')])
  /\ UNCHANGED <<sikeprivate, ldc, faults>>

\* What the client decodes from m.ct it keeps in a local and drops.
ClientKeys(m) ==
  /\ Draw(1)
  /\ Clientsecret' = Dec(Enc(m.pk, drawn'), m.pk)
  /\ toLDC' = Append(toLDC, [type |-> "final", ct |-> Enc(m.pk, drawn')])
  /\ UNCHANGED <<sikeprivate, ldc, faults>>

LDCkeysM2(m) ==
  /\ LDCsecret' = Dec(m.ct, LDC_sike_sk)
  /\ UNCHANGED <<client, LDC_sike_sk, LDC_part_ss, toClient, drawn, faults>>

-----------------------------------------------------------------------------
(* The callers: each side handles its messages in the order they come. *)

LDCReceives ==
  /\ toLDC # <<>>
  /\ toLDC' = Tail(toLDC)
  /\ LET m == Head(toLDC) IN
     IF m.type = "hello" THEN LDCkeysM1(m) ELSE LDCkeysM2(m)

ClientReceives ==
  /\ toClient # <<>>
  /\ toClient' = Tail(toClient)
  /\ ClientKeys(Head(toClient))

\* A message comes once more.
Repeat ==
  /\ repeats < MaxRepeats
  /\ repeats' = repeats + 1
  /\ \/ toLDC # <<>> /\ toLDC' = <<Head(toLDC)>> \o toLDC /\ UNCHANGED toClient
     \/ toClient # <<>> /\ toClient' = <<Head(toClient)>> \o toClient /\ UNCHANGED toLDC
  /\ UNCHANGED <<client, ldc, drawn, losses, cut>>

\* The connection is lost with all that is on its way; both keep their keys.
LoseConnection ==
  /\ losses < MaxLosses
  /\ losses' = losses + 1
  /\ toLDC' = <<>> /\ toClient' = <<>>
  /\ cut' = TRUE
  /\ UNCHANGED <<client, ldc, drawn, repeats>>

Init ==
  /\ sikeprivate = ClientGarbage
  /\ Clientsecret = Dec(Enc(ClientGarbage, ClientGarbage), ClientGarbage)
  /\ LDC_sike_sk = LDCGarbage
  /\ LDC_part_ss = Dec(Enc(LDCGarbage, LDCGarbage), LDCGarbage)
  /\ LDCsecret = LDC_part_ss
  /\ toLDC = <<>> /\ toClient = <<>>
  /\ drawn = LDCGarbage /\ losses = 0 /\ repeats = 0
  /\ cut = FALSE

Next == ClientKeysInit \/ LDCReceives \/ ClientReceives \/ Repeat \/ LoseConnection

Spec == Init /\ [][Next]_vars

\* Both sides handle what arrives.  The client need not begin, and once it has
\* it need not begin again.
FairSpec == Spec /\ WF_vars(LDCReceives) /\ WF_vars(ClientReceives)

-----------------------------------------------------------------------------
(* Properties. *)

Value == 0 .. drawn
Ciphertext == Value \X Value
Secret == Ciphertext \X Value

TypeOK ==
  /\ drawn \in Nat /\ losses \in Nat /\ repeats \in Nat /\ cut \in BOOLEAN
  /\ sikeprivate \in Value /\ LDC_sike_sk \in Value
  /\ Clientsecret \in Secret /\ LDC_part_ss \in Secret /\ LDCsecret \in Secret
  /\ toLDC \in Seq([type : {"hello"}, pk : Value] \cup [type : {"final"}, ct : Ciphertext])
  /\ toClient \in Seq([ct : Ciphertext, pk : Value])

\* The client has begun, nothing is on its way, and nothing was lost since.
Quiet == sikeprivate # ClientGarbage /\ toLDC = <<>> /\ toClient = <<>> /\ ~cut

\* TestKeys prints "Key Success" when the two secrets are the same.  However
\* many exchanges overlapped, whatever came twice and whatever was lost
\* before: once the line is quiet, they are.
QuietAgreed == Quiet => LDCsecret = Clientsecret

\* A client that begins, or begins anew after a loss, ends with the secret the
\* LDC has, unless the connection is lost again or the bound on the draws cut
\* the exchange short.
KeysSettle ==
  sikeprivate # ClientGarbage /\ ~cut ~>
    ([](LDCsecret = Clientsecret) \/ cut \/ drawn + 2 > MaxDraws)
=============================================================================
