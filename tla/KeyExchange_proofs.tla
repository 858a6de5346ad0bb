-------------------------- MODULE KeyExchange_proofs --------------------------
(***************************************************************************)
(* That a quiet line leaves both sides with the same secret, for every     *)
(* number of exchanges, losses and repeated messages.  The invariant       *)
(* follows one secret through the stream: the newest reply was made for    *)
(* the private key the LDC holds, so that once no reply and no hello is    *)
(* left the client's secret opens with it, and the newest final carries    *)
(* that secret's ciphertext to the LDC.                                    *)
(***************************************************************************)
EXTENDS KeyExchange, SequenceTheorems, TLAPS

Hello(s, i) == i \in 1 .. Len(s) /\ s[i].type = "hello"
Final(s, i) == i \in 1 .. Len(s) /\ s[i].type = "final"

LEMMA AppendFacts ==
  ASSUME NEW S, NEW s \in Seq(S), NEW e \in S
  PROVE  /\ Append(s, e) \in Seq(S)
         /\ Append(s, e) # <<>>
         /\ Len(Append(s, e)) = Len(s) + 1
         /\ Append(s, e)[Len(s) + 1] = e
<1>1. Len(Append(s, e)) = Len(s) + 1 /\ Append(s, e) \in Seq(S)  OBVIOUS
<1>2. Append(s, e) # <<>>  BY <1>1, EmptySeq
<1>3. Append(s, e)[Len(s) + 1] = e  OBVIOUS
<1> QED  BY <1>1, <1>2, <1>3

LEMMA TailFacts ==
  ASSUME NEW S, NEW s \in Seq(S), s # <<>>
  PROVE  /\ Tail(s) \in Seq(S)
         /\ Len(Tail(s)) = Len(s) - 1
         /\ Tail(s) = <<>> => Len(s) = 1
         /\ Head(s) \in S
         /\ Head(s) = s[1]
<1>1. Len(Tail(s)) = Len(s) - 1 /\ Tail(s) \in Seq(S)  OBVIOUS
<1>2. ASSUME Tail(s) = <<>> PROVE Len(s) = 1
  <2>1. Len(Tail(s)) = 0  BY <1>2, EmptySeq
  <2>2. Len(s) \in Nat  OBVIOUS
  <2> QED  BY <2>1, <2>2, <1>1
<1>3. Head(s) = s[1] /\ Head(s) \in S  OBVIOUS
<1> QED  BY <1>1, <1>2, <1>3

LEMMA DoubleFacts ==
  ASSUME NEW S, NEW s \in Seq(S), s # <<>>
  PROVE  /\ <<Head(s)>> \o s \in Seq(S)
         /\ Len(<<Head(s)>> \o s) = Len(s) + 1
  OBVIOUS

\* What the streams are made of, as far as the argument needs it.
Streams ==
  /\ toLDC \in Seq([type : {"hello"}, pk : Nat] \cup [type : {"final"}, ct : Nat \X Nat])
  /\ toClient \in Seq([ct : Nat \X Nat, pk : Nat])
  /\ drawn \in Nat
  /\ LDC_sike_sk \in Nat

NewestReply == toClient # <<>> => toClient[Len(toClient)].pk = LDC_sike_sk

ClientOpens ==
  sikeprivate # ClientGarbage /\ ~cut /\ toClient = <<>> /\ (\A i \in 1 .. Len(toLDC) : ~Hello(toLDC, i))
    => Clientsecret = Dec(Clientsecret[1], LDC_sike_sk)

NewestFinal ==
  \A i \in 1 .. Len(toLDC) :
    Final(toLDC, i) /\ (\A j \in 1 .. Len(toLDC) : j > i => ~Final(toLDC, j)) => toLDC[i].ct = Clientsecret[1]

IInv == Streams /\ NewestReply /\ ClientOpens /\ NewestFinal /\ QuietAgreed

LEMMA StreamsInit == Init => IInv
  BY DEF Init, IInv, Streams, NewestReply, ClientOpens, NewestFinal, QuietAgreed, Quiet,
         Final, Hello, Enc, Dec, ClientGarbage, LDCGarbage

-----------------------------------------------------------------------------
LEMMA BeginStep == IInv /\ KeyAssumption /\ ClientKeysInit => IInv'
<1> SUFFICES ASSUME IInv, ClientKeysInit PROVE IInv'  OBVIOUS
<1> USE DEF ClientKeysInit, Draw, IInv, Streams, client, ldc, faults
<1>1. Streams'  BY SMTT(30)
<1>2. Len(toLDC') = Len(toLDC) + 1 /\ Hello(toLDC', Len(toLDC) + 1)
  BY DEF Hello
<1>3. NewestReply'  BY DEF NewestReply
<1>4. ClientOpens'  BY <1>2 DEF ClientOpens, Hello
<1>5. NewestFinal'
  <2> SUFFICES ASSUME NEW i \in 1 .. Len(toLDC'), Final(toLDC', i),
                      \A j \in 1 .. Len(toLDC') : j > i => ~Final(toLDC', j)
               PROVE  toLDC'[i].ct = Clientsecret[1]
    BY DEF NewestFinal
  <2>1. i \in 1 .. Len(toLDC) /\ toLDC'[i] = toLDC[i]  BY <1>2 DEF Final
  <2>2. \A j \in 1 .. Len(toLDC) : toLDC'[j] = toLDC[j] /\ j \in 1 .. Len(toLDC')  BY <1>2
  <2> QED  BY <2>1, <2>2 DEF NewestFinal, Final
<1>6. QuietAgreed'  BY <1>2 DEF QuietAgreed, Quiet
<1> QED  BY <1>1, <1>3, <1>4, <1>5, <1>6

LEMMA LDCStep == IInv /\ LDCReceives => IInv'
<1> SUFFICES ASSUME IInv, LDCReceives PROVE IInv'  OBVIOUS
<1> USE DEF IInv, Streams, client, ldc, faults
<1>0. toLDC # <<>> /\ toLDC' = Tail(toLDC)  BY DEF LDCReceives
<1>1. /\ Len(toLDC') = Len(toLDC) - 1
      /\ \A i \in 1 .. Len(toLDC') : toLDC'[i] = toLDC[i + 1] /\ i + 1 \in 1 .. Len(toLDC)
  BY <1>0
<1>2. \/ Head(toLDC).type = "hello" /\ LDCkeysM1(Head(toLDC))
      \/ Head(toLDC).type # "hello" /\ LDCkeysM2(Head(toLDC))
  BY DEF LDCReceives
<1>h. Head(toLDC) = toLDC[1] /\ 1 \in 1 .. Len(toLDC)  BY <1>0
<1>3. NewestFinal'
  <2> SUFFICES ASSUME NEW i \in 1 .. Len(toLDC'), Final(toLDC', i),
                      \A j \in 1 .. Len(toLDC') : j > i => ~Final(toLDC', j)
               PROVE  toLDC'[i].ct = Clientsecret'[1]
    BY DEF NewestFinal
  <2>1. Clientsecret' = Clientsecret  BY <1>2 DEF LDCkeysM1, LDCkeysM2
  <2>2. Final(toLDC, i + 1)  BY <1>1 DEF Final
  <2>3. ASSUME NEW j \in 1 .. Len(toLDC), j > i + 1 PROVE ~Final(toLDC, j)
    <3>1. j - 1 \in 1 .. Len(toLDC') /\ j - 1 > i /\ toLDC'[j - 1] = toLDC[j]
      BY <1>1, <2>3
    <3> QED  BY <3>1 DEF Final
  <2> QED  BY <1>1, <2>1, <2>2, <2>3 DEF NewestFinal
<1>4. CASE Head(toLDC).type = "hello" /\ LDCkeysM1(Head(toLDC))
  <2> USE <1>4 DEF LDCkeysM1, Draw
  <2>0. Head(toLDC) \in [type : {"hello"}, pk : Nat]  BY <1>h
  <2>1. Streams'
    <3>1. [ct |-> Enc(Head(toLDC).pk, drawn' - 1), pk |-> drawn'] \in [ct : Nat \X Nat, pk : Nat]
      BY <2>0 DEF Enc
    <3> QED  BY <1>0, <3>1
  <2>2. /\ Len(toClient') = Len(toClient) + 1 /\ toClient' # <<>>
        /\ toClient'[Len(toClient')].pk = drawn'
    <3> DEFINE reply == [ct |-> Enc(Head(toLDC).pk, drawn' - 1), pk |-> drawn']
    <3>1. toClient' = Append(toClient, reply) /\ reply.pk = drawn'  OBVIOUS
    <3>2. reply \in [ct : Nat \X Nat, pk : Nat]  BY <2>0 DEF Enc
    <3>3. toClient \in Seq([ct : Nat \X Nat, pk : Nat])  OBVIOUS
    <3> HIDE DEF reply
    <3>4. /\ Append(toClient, reply) # <<>>
          /\ Len(Append(toClient, reply)) = Len(toClient) + 1
          /\ Append(toClient, reply)[Len(toClient) + 1] = reply
      BY ONLY <3>2, <3>3, AppendFacts
    <3> QED  BY ONLY <3>1, <3>4
  <2>3. NewestReply'  BY <2>2 DEF NewestReply
  <2>4. ClientOpens' /\ QuietAgreed'  BY <2>2 DEF ClientOpens, QuietAgreed, Quiet
  <2> QED  BY <2>1, <2>3, <2>4, <1>3
<1>5. CASE Head(toLDC).type # "hello" /\ LDCkeysM2(Head(toLDC))
  <2> USE <1>5 DEF LDCkeysM2
  <2>1. Streams' /\ NewestReply'  BY <1>0 DEF NewestReply
  <2>2. Final(toLDC, 1)  BY <1>h DEF Final
  <2>3. ASSUME \A i \in 1 .. Len(toLDC') : ~Hello(toLDC', i) PROVE \A i \in 1 .. Len(toLDC) : ~Hello(toLDC, i)
    <3> TAKE i \in 1 .. Len(toLDC)
    <3>1. CASE i = 1  BY <3>1, <2>2 DEF Hello, Final
    <3>2. CASE i # 1
      <4>1. i - 1 \in 1 .. Len(toLDC') /\ toLDC'[i - 1] = toLDC[i]  BY <1>1, <3>2
      <4> QED  BY <4>1, <2>3 DEF Hello
    <3> QED  BY <3>1, <3>2
  <2>4. ClientOpens'  BY <2>3 DEF ClientOpens
  <2>5. QuietAgreed'
    <3> SUFFICES ASSUME Quiet' PROVE LDCsecret' = Clientsecret'  BY DEF QuietAgreed
    <3>1. Len(toLDC) = 1  BY <1>1 DEF Quiet
    <3>2. toLDC[1].ct = Clientsecret[1]  BY <3>1, <2>2 DEF NewestFinal, Final
    <3>3. Clientsecret' = Dec(Clientsecret'[1], LDC_sike_sk')
      BY <2>4, <3>1, <1>1 DEF ClientOpens, Quiet
    <3> QED  BY <3>2, <3>3, <1>h
  <2> QED  BY <2>1, <2>4, <2>5, <1>3
<1> QED  BY <1>2, <1>4, <1>5

LEMMA ClientStep == IInv /\ ClientReceives => IInv'
<1> SUFFICES ASSUME IInv, ClientReceives PROVE IInv'  OBVIOUS
<1> USE DEF IInv, Streams, ClientReceives, ClientKeys, Draw, client, ldc, faults
<1> DEFINE m == Head(toClient)
<1>0. toClient # <<>> /\ toClient' = Tail(toClient)  OBVIOUS
<1>1. m \in [ct : Nat \X Nat, pk : Nat] /\ m = toClient[1]
  <2>1. toClient \in Seq([ct : Nat \X Nat, pk : Nat])  OBVIOUS
  <2> QED  BY <2>1, <1>0, TailFacts
<1>2. [type |-> "final", ct |-> Enc(m.pk, drawn')] \in [type : {"final"}, ct : Nat \X Nat]
  BY <1>1 DEF Enc
<1>3. Streams'  BY <1>2
<1>4. /\ Len(toLDC') = Len(toLDC) + 1
      /\ toLDC'[Len(toLDC')] = [type |-> "final", ct |-> Enc(m.pk, drawn')]
  BY <1>2
<1>5. Clientsecret' = <<Enc(m.pk, drawn'), m.pk>>  BY DEF Dec
<1>6. NewestReply'
  <2> SUFFICES ASSUME toClient' # <<>> PROVE toClient'[Len(toClient')].pk = LDC_sike_sk
    BY DEF NewestReply
  <2>1. /\ Len(toClient') = Len(toClient) - 1
        /\ \A i \in 1 .. Len(toClient') : toClient'[i] = toClient[i + 1]
    BY <1>0
  <2>2. Len(toClient') \in 1 .. Len(toClient')  BY <1>3
  <2> QED  BY <1>0, <2>1, <2>2 DEF NewestReply
<1>7. ClientOpens'
  <2> SUFFICES ASSUME toClient' = <<>> PROVE Clientsecret' = Dec(Clientsecret'[1], LDC_sike_sk)
    BY DEF ClientOpens
  <2>1. Len(toClient) = 1  BY <1>0, TailFacts
  <2>2. m.pk = LDC_sike_sk  BY <2>1, <1>1 DEF NewestReply
  <2> QED  BY <1>5, <2>2 DEF Dec
<1>8. NewestFinal'
  <2> SUFFICES ASSUME NEW i \in 1 .. Len(toLDC'),
                      \A j \in 1 .. Len(toLDC') : j > i => ~Final(toLDC', j)
               PROVE  toLDC'[i].ct = Clientsecret'[1]
    BY DEF NewestFinal
  <2>1. Final(toLDC', Len(toLDC'))  BY <1>3, <1>4 DEF Final
  <2>2. i = Len(toLDC')  BY <2>1, <1>4
  <2> QED  BY <2>2, <1>4, <1>5
<1>9. QuietAgreed'  BY <1>4 DEF QuietAgreed, Quiet
<1> QED  BY <1>3, <1>6, <1>7, <1>8, <1>9

LEMMA RepeatStep == IInv /\ Repeat => IInv'
<1> SUFFICES ASSUME IInv, Repeat PROVE IInv'  OBVIOUS
<1> USE DEF IInv, Streams, client, ldc
<1>1. CASE toLDC # <<>> /\ toLDC' = <<Head(toLDC)>> \o toLDC /\ UNCHANGED toClient
  <2> USE <1>1 DEF Repeat
  <2>0. Head(toLDC) = toLDC[1] /\ <<toLDC[1]>> \in Seq({toLDC[1]})  OBVIOUS
  <2>1. /\ Len(toLDC') = Len(toLDC) + 1
        /\ toLDC'[1] = toLDC[1]
        /\ \A j \in 1 .. Len(toLDC) : toLDC'[j + 1] = toLDC[j] /\ j + 1 \in 1 .. Len(toLDC')
    BY <2>0
  <2>2. Streams' /\ NewestReply'  BY <2>0 DEF NewestReply
  <2>3. ClientOpens'
    <3>1. ASSUME NEW i \in 1 .. Len(toLDC), Hello(toLDC, i) PROVE Hello(toLDC', i + 1)
      BY <3>1, <2>1 DEF Hello
    <3> QED  BY <3>1, <2>1 DEF ClientOpens
  <2>4. NewestFinal'
    <3> SUFFICES ASSUME NEW i \in 1 .. Len(toLDC'), Final(toLDC', i),
                        \A j \in 1 .. Len(toLDC') : j > i => ~Final(toLDC', j)
                 PROVE  toLDC'[i].ct = Clientsecret[1]
      BY DEF NewestFinal
    <3>1. i # 1
      <4> SUFFICES ASSUME i = 1 PROVE FALSE  OBVIOUS
      <4>1. Final(toLDC', 2) /\ 2 \in 1 .. Len(toLDC')  BY <2>1 DEF Final
      <4> QED  BY <4>1
    <3>2. i - 1 \in 1 .. Len(toLDC) /\ toLDC'[i] = toLDC[i - 1]  BY <3>1, <2>1
    <3>3. ASSUME NEW j \in 1 .. Len(toLDC), j > i - 1 PROVE ~Final(toLDC, j)
      <4>1. j + 1 \in 1 .. Len(toLDC') /\ j + 1 > i  BY <2>1, <3>3
      <4>2. ~Final(toLDC', j + 1)  BY <4>1
      <4> QED  BY <4>2, <2>1 DEF Final
    <3> QED  BY <3>2, <3>3 DEF NewestFinal, Final
  <2>5. QuietAgreed'  BY <2>1 DEF QuietAgreed, Quiet
  <2> QED  BY <2>2, <2>3, <2>4, <2>5
<1>2. CASE toClient # <<>> /\ toClient' = <<Head(toClient)>> \o toClient /\ UNCHANGED toLDC
  <2> USE <1>2 DEF Repeat
  <2>0. Head(toClient) = toClient[1] /\ <<toClient[1]>> \in Seq({toClient[1]})  OBVIOUS
  <2>1. /\ Len(toClient') = Len(toClient) + 1 /\ toClient' # <<>>
        /\ toClient'[Len(toClient')] = toClient[Len(toClient)]
    BY <2>0
  <2>2. Streams'  BY DoubleFacts
  <2>5. NewestReply'  BY <2>1 DEF NewestReply
  <2>3. ClientOpens' /\ QuietAgreed'  BY <2>1 DEF ClientOpens, QuietAgreed, Quiet
  <2>4. NewestFinal'  BY DEF NewestFinal, Final
  <2> QED  BY <2>2, <2>3, <2>4, <2>5
<1> QED  BY <1>1, <1>2 DEF Repeat

LEMMA LoseStep == IInv /\ LoseConnection => IInv'
  BY DEF LoseConnection, IInv, Streams, NewestReply, ClientOpens, NewestFinal, QuietAgreed,
         Quiet, Final, Hello, client, ldc

LEMMA StutterStep == IInv /\ UNCHANGED vars => IInv'
  BY DEF IInv, Streams, NewestReply, ClientOpens, NewestFinal, QuietAgreed, Quiet, Final, Hello,
         vars, client, ldc, faults

\* TestKeys, keys.cpp: whenever the client has begun and the line is quiet, the
\* LDC and the client hold the same secret, whatever was lost, repeated or
\* overtaken by a new exchange before.
THEOREM SecretsAgree == Spec => []QuietAgreed
<1>1. IInv /\ [Next]_vars => IInv'
  <2> SUFFICES ASSUME IInv, [Next]_vars PROVE IInv'  OBVIOUS
  <2> QED  BY KeyAssumption, BeginStep, LDCStep, ClientStep, RepeatStep, LoseStep, StutterStep
              DEF Next
<1>2. IInv => QuietAgreed  BY DEF IInv
<1> QED  BY <1>1, <1>2, StreamsInit, PTL DEF Spec

-----------------------------------------------------------------------------
(* Every value anyone holds or sends was drawn before. *)

ToLDC(n)    == [type : {"hello"}, pk : 0 .. n]
                 \cup [type : {"final"}, ct : (0 .. n) \X (0 .. n)]
ToClient(n) == [ct : (0 .. n) \X (0 .. n), pk : 0 .. n]

LEMMA SeqGrows ==
  ASSUME NEW S, NEW T, S \subseteq T, NEW s \in Seq(S)
  PROVE  s \in Seq(T)
  OBVIOUS

LEMMA MessagesGrow ==
  ASSUME NEW m \in Nat, NEW n \in Nat, m <= n
  PROVE  ToLDC(m) \subseteq ToLDC(n) /\ ToClient(m) \subseteq ToClient(n)
<1>1. 0 .. m \subseteq 0 .. n
  OBVIOUS
<1>2. (0 .. m) \X (0 .. m) \subseteq (0 .. n) \X (0 .. n)
  BY <1>1
<1>3. QED BY <1>1, <1>2, Zenon DEF ToLDC, ToClient

\* With more drawn, what was drawn before still was.
LEMMA DrawnKept ==
  ASSUME TypeOK, drawn' \in Nat, drawn' >= drawn
  PROVE  /\ Value \subseteq Value' /\ Ciphertext \subseteq Ciphertext'
         /\ Secret \subseteq Secret'
         /\ toLDC \in Seq(ToLDC(drawn')) /\ toClient \in Seq(ToClient(drawn'))
<1>1. Value \subseteq Value'
  BY DEF Value, TypeOK
<1>2. Ciphertext \subseteq Ciphertext'
  BY <1>1 DEF Ciphertext
<1>3. Secret \subseteq Secret'
  BY <1>1, <1>2 DEF Secret
<1>4. toLDC \in Seq(ToLDC(drawn)) /\ toClient \in Seq(ToClient(drawn)) /\ drawn \in Nat
  BY DEF TypeOK, ToLDC, ToClient, Value, Ciphertext
<1>5. QED BY <1>1, <1>2, <1>3, <1>4, MessagesGrow, SeqGrows

LEMMA NextTypeOK ==
  ASSUME TypeOK, [Next]_vars
  PROVE  TypeOK'
<1>t. drawn \in Nat /\ drawn' \in Nat /\ drawn' >= drawn
  BY DEF TypeOK, Next, vars, ClientKeysInit, LDCReceives, LDCkeysM1, LDCkeysM2,
     ClientReceives, ClientKeys, Repeat, LoseConnection, Draw
<1>f. losses' \in Nat /\ repeats' \in Nat
  BY DEF TypeOK, Next, vars, faults, ClientKeysInit, LDCReceives, LDCkeysM1, LDCkeysM2,
     ClientReceives, ClientKeys, Repeat, LoseConnection
<1>c. cut' \in BOOLEAN
  BY DEF TypeOK, Next, vars, faults, ClientKeysInit, LDCReceives, LDCkeysM1, LDCkeysM2,
     ClientReceives, ClientKeys, Repeat, LoseConnection
<1>k. /\ Value \subseteq Value' /\ Ciphertext \subseteq Ciphertext' /\ Secret \subseteq Secret'
      /\ toLDC \in Seq(ToLDC(drawn')) /\ toClient \in Seq(ToClient(drawn'))
  BY <1>t, DrawnKept
<1>d. drawn' \in Value' /\ (drawn' > 0 => drawn' - 1 \in Value')
  <2>1. drawn' \in 0 .. drawn' /\ (drawn' > 0 => drawn' - 1 \in 0 .. drawn')
    <3>1. \A d \in Nat : d \in 0 .. d /\ (d > 0 => d - 1 \in 0 .. d)
      OBVIOUS
    <3>2. QED BY ONLY <1>t, <3>1
  <2>2. QED BY <2>1 DEF Value
<1> SUFFICES /\ sikeprivate' \in Value' /\ LDC_sike_sk' \in Value'
             /\ Clientsecret' \in Secret' /\ LDC_part_ss' \in Secret' /\ LDCsecret' \in Secret'
             /\ toLDC' \in Seq(ToLDC(drawn')) /\ toClient' \in Seq(ToClient(drawn'))
  BY <1>t, <1>f, <1>c DEF TypeOK, ToLDC, ToClient, Value, Ciphertext
<1>v. /\ sikeprivate \in Value' /\ LDC_sike_sk \in Value'
      /\ Clientsecret \in Secret' /\ LDC_part_ss \in Secret' /\ LDCsecret \in Secret'
  BY <1>k DEF TypeOK
<1>s. /\ \A pk, r, sk \in Value' : Enc(pk, r) \in Ciphertext' /\ Dec(Enc(pk, r), sk) \in Secret'
      /\ \A ct \in Ciphertext', sk \in Value' : Dec(ct, sk) \in Secret'
  BY DEF Enc, Dec, Ciphertext, Secret
<1>1. CASE ClientKeysInit
  <2>1. [type |-> "hello", pk |-> drawn'] \in ToLDC(drawn')
    BY <1>t DEF ToLDC
  <2>2. QED BY <1>1, <1>k, <1>v, <1>d, <2>1, AppendFacts DEF ClientKeysInit, ldc
<1>2. CASE LDCReceives
  <2> DEFINE m == Head(toLDC)
  <2>1. toLDC # <<>> /\ toLDC' = Tail(toLDC)
    BY <1>2 DEF LDCReceives
  <2>2. toLDC' \in Seq(ToLDC(drawn')) /\ m \in ToLDC(drawn')
    BY <1>k, <2>1, TailFacts
  <2>3. \/ m.type = "hello" /\ LDCkeysM1(m)
        \/ m.type # "hello" /\ LDCkeysM2(m)
    BY <1>2 DEF LDCReceives
  <2> HIDE DEF m
  <2>4. CASE m.type = "hello" /\ LDCkeysM1(m)
    <3>1. m.pk \in Value'
      BY <2>2, <2>4 DEF ToLDC, Value
    <3>2. drawn' > 0
      BY <1>t, <2>4 DEF LDCkeysM1, Draw
    <3>3. [ct |-> Enc(m.pk, drawn' - 1), pk |-> drawn'] \in ToClient(drawn')
      BY <1>d, <3>1, <3>2 DEF ToClient, Enc, Value
    <3>4. toClient' \in Seq(ToClient(drawn'))
      BY <1>k, <2>4, <3>3, AppendFacts DEF LDCkeysM1
    <3>5. QED BY <1>v, <1>s, <1>d, <2>2, <2>4, <3>1, <3>2, <3>4 DEF LDCkeysM1, client
  <2>5. CASE m.type # "hello" /\ LDCkeysM2(m)
    <3>1. m.ct \in Ciphertext'
      BY <2>2, <2>5 DEF ToLDC, Value, Ciphertext
    <3>2. QED BY <1>k, <1>v, <1>s, <2>2, <2>5, <3>1 DEF LDCkeysM2, client
  <2>6. QED BY <2>3, <2>4, <2>5
<1>3. CASE ClientReceives
  <2> DEFINE m == Head(toClient)
  <2>1. toClient # <<>> /\ toClient' = Tail(toClient) /\ ClientKeys(m)
    BY <1>3 DEF ClientReceives
  <2>2. toClient' \in Seq(ToClient(drawn')) /\ m \in ToClient(drawn')
    BY <1>k, <2>1, TailFacts
  <2> HIDE DEF m
  <2>3. m.pk \in Value'
    BY <2>2 DEF ToClient, Value
  <2>4. [type |-> "final", ct |-> Enc(m.pk, drawn')] \in ToLDC(drawn')
    BY <1>d, <2>3 DEF ToLDC, Enc, Value
  <2>5. toLDC' \in Seq(ToLDC(drawn'))
    BY <1>k, <2>1, <2>4, AppendFacts DEF ClientKeys
  <2>6. QED BY <1>v, <1>s, <1>d, <2>1, <2>2, <2>3, <2>5 DEF ClientKeys, ldc
<1>4. CASE Repeat
  <2>1. CASE toLDC # <<>> /\ toLDC' = <<Head(toLDC)>> \o toLDC /\ UNCHANGED toClient
    BY <1>k, <1>v, <1>4, <2>1, DoubleFacts DEF Repeat, client, ldc
  <2>2. CASE toClient # <<>> /\ toClient' = <<Head(toClient)>> \o toClient /\ UNCHANGED toLDC
    BY <1>k, <1>v, <1>4, <2>2, DoubleFacts DEF Repeat, client, ldc
  <2>3. QED BY <1>4, <2>1, <2>2 DEF Repeat
<1>5. CASE LoseConnection
  BY <1>v, <1>5 DEF LoseConnection, client, ldc
<1>6. CASE UNCHANGED vars
  BY <1>k, <1>v, <1>6 DEF vars, client, ldc
<1>7. QED BY <1>1, <1>2, <1>3, <1>4, <1>5, <1>6 DEF Next

\* Neither side holds or sends a key, a random value or a secret that nobody
\* has drawn yet, and every message has the fields its receiver reads.
THEOREM KeyTypeCorrect == Spec => []TypeOK
<1>1. Init => TypeOK
  <2> SUFFICES ASSUME Init PROVE TypeOK
    OBVIOUS
  <2>1. {0, 1} \subseteq Value
    BY DEF Init, Value, LDCGarbage
  <2>2. \A v \in Value : Dec(Enc(v, v), v) \in Secret
    BY DEF Secret, Ciphertext, Enc, Dec
  <2>3. drawn \in Nat /\ losses \in Nat /\ repeats \in Nat /\ cut \in BOOLEAN
    BY DEF Init, LDCGarbage
  <2>4. QED BY <2>1, <2>2, <2>3 DEF Init, TypeOK, ClientGarbage, LDCGarbage
<1>2. QED BY <1>1, NextTypeOK, PTL DEF Spec
=============================================================================
