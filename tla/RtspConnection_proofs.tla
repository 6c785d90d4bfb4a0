----------------------- MODULE RtspConnection_proofs -----------------------
(***************************************************************************)
(* Proofs about RtspConnection, for every number of requests and every     *)
(* number of blocks a response may have.                                   *)
(*                                                                         *)
(* Two facts carry everything. The blocks in the stream are numbered       *)
(* upwards from the one the client's cipher waits for (Numbered), so once  *)
(* that one is gone no other can take its place. And requests, unanswered  *)
(* requests, responses in flight and responses taken are each in order,    *)
(* with everything still to come behind everything taken (Ordered).        *)
(***************************************************************************)
EXTENDS RtspConnection, FiniteSetTheorems, TLAPS

-----------------------------------------------------------------------------
(* Sequences. *)

\* What is left of a sequence when its first n elements are gone.
LEMMA Suffix ==
  ASSUME NEW S, NEW s \in Seq(S), NEW n \in 0 .. Len(s)
  PROVE  /\ SubSeq(s, n + 1, Len(s)) \in Seq(S)
         /\ Len(SubSeq(s, n + 1, Len(s))) = Len(s) - n
         /\ \A i \in 1 .. Len(s) - n : SubSeq(s, n + 1, Len(s))[i] = s[i + n]
  OBVIOUS

\* The first n elements of a sequence.
LEMMA Prefix ==
  ASSUME NEW S, NEW s \in Seq(S), NEW n \in 0 .. Len(s)
  PROVE  /\ SubSeq(s, 1, n) \in Seq(S)
         /\ Len(SubSeq(s, 1, n)) = n
         /\ \A i \in 1 .. n : SubSeq(s, 1, n)[i] = s[i]
  OBVIOUS

\* A sequence without its head.
LEMMA Rest ==
  ASSUME NEW S, NEW s \in Seq(S), s # <<>>
  PROVE  /\ Tail(s) \in Seq(S)
         /\ Len(s) \in Nat /\ Len(s) > 0
         /\ Len(Tail(s)) = Len(s) - 1
         /\ \A i \in 1 .. Len(s) - 1 : Tail(s)[i] = s[i + 1]
         /\ Head(s) = s[1] /\ Head(s) \in S
  OBVIOUS

\* A sequence with another behind it.
LEMMA Joined ==
  ASSUME NEW S, NEW s \in Seq(S), NEW t \in Seq(S)
  PROVE  /\ s \o t \in Seq(S)
         /\ Len(s \o t) = Len(s) + Len(t)
         /\ \A i \in 1 .. Len(s) : (s \o t)[i] = s[i]
         /\ \A i \in Len(s) + 1 .. Len(s) + Len(t) : (s \o t)[i] = t[i - Len(s)]
  OBVIOUS

\* The blocks of a response, their owner and their numbers.
LEMMA ResponseBlocks ==
  ASSUME sealed \in Nat, NEW c \in Calls, NEW n \in Nat
  PROVE  /\ Response(c, n) \in Seq(Blocks)
         /\ Len(Response(c, n)) = n
         /\ \A i \in 1 .. n : /\ Response(c, n)[i].of = c
                              /\ Response(c, n)[i].nonce = sealed + i - 1
                              /\ Response(c, n)[i].last = (i = n)
  <1>1. \A i \in 1 .. n : [of |-> c, first |-> i = 1, last |-> i = n, nonce |-> sealed + i - 1]
                            \in Blocks
    BY DEF Blocks
  <1> QED
    BY <1>1 DEF Response

-----------------------------------------------------------------------------
(* Types. *)

\* TypeOK made inductive: a running call has a number.
Typed == TypeOK /\ (phase # "idle" => cseq \in Calls)

\* The initial state has its types.
LEMMA TypeInit == Init => Typed
  <1> SUFFICES ASSUME Init PROVE Typed
    OBVIOUS
  <1>1. answers \in [Calls -> 0 .. MaxRequests]
    BY BoundsAssumption DEF Init, NoAnswer
  <1>2. inbox \in Seq(Calls) /\ stream \in Seq(Blocks) /\ taken \in Seq(Blocks)
    BY DEF Init
  <1>3. cseq \in 0 .. MaxRequests
    BY BoundsAssumption DEF Init
  <1> QED
    BY <1>1, <1>2, <1>3 DEF Init, Typed, TypeOK, Phases

\* What leaves the stream leaves blocks in it.
LEMMA TypeSwallow ==
  ASSUME TypeOK, NEW n \in 0 .. Len(stream), Swallow(n)
  PROVE  stream' \in Seq(Blocks) /\ cut' \in BOOLEAN
  BY Suffix DEF Swallow, TypeOK

\* A block that decrypts.
LEMMA TypeDecrypts ==
  ASSUME TypeOK, Decrypts
  PROVE  /\ stream' \in Seq(Blocks) /\ cut' \in BOOLEAN /\ opened' \in Nat
         /\ Collected \in Seq(Blocks)
         /\ Head(stream).of \in Calls
  <1>1. stream' \in Seq(Blocks) /\ Head(stream) \in Blocks
    BY Rest DEF Decrypts, Consume, TypeOK
  <1>2. Collected \in Seq(Blocks)
    BY <1>1 DEF Collected, TypeOK
  <1>3. Head(stream).of \in Calls
    BY <1>1 DEF Blocks
  <1>4. opened' \in Nat
    BY DEF Decrypts, TypeOK
  <1>5. cut' \in BOOLEAN
    BY Zenon DEF Decrypts, Consume
  <1> QED
    BY <1>1, <1>2, <1>3, <1>4, <1>5

\* Every step keeps the types.
LEMMA TypeStep == Typed /\ [Next]_vars => Typed'
  <1> SUFFICES ASSUME Typed, [Next]_vars PROVE Typed'
    OBVIOUS
  <1> USE DEF Typed
  <1>n. cseq \in Nat /\ MaxRequests \in Nat /\ Calls \subseteq 0 .. MaxRequests
    BY BoundsAssumption DEF TypeOK, Calls
  <1>1. CASE StartSend
    <2>1. cseq' \in Calls /\ cseq' \in 0 .. MaxRequests
      BY <1>1, <1>n DEF StartSend, Calls, TypeOK
    <2>2. taken' \in Seq(Blocks)
      BY <1>1 DEF StartSend
    <2>3. hasty' \subseteq Calls
      BY <1>1, <2>1 DEF StartSend, TypeOK
    <2> QED
      BY <1>1, <2>1, <2>2, <2>3 DEF StartSend, network, TypeOK, Phases
  <1>2. CASE Written
    <2>1. inbox' \in Seq(Calls)
      BY <1>2 DEF Written, TypeOK
    <2> QED
      BY <1>2, <2>1 DEF Written, TypeOK, Phases
  <1>3. CASE ReadLength
    BY <1>3 DEF ReadLength, TypeOK, network, Phases
  <1>4. CASE ReadMore
    BY <1>4, TypeDecrypts DEF ReadMore, Decrypts, Consume, TypeOK, Phases
  <1>5. CASE ReadOk
    <2>1. answers' \in [Calls -> 0 .. MaxRequests]
      BY <1>5, <1>n, TypeDecrypts DEF ReadOk, TypeOK
    <2>2. taken' \in Seq(Blocks)
      BY <1>5 DEF ReadOk
    <2> QED
      BY <1>5, <2>1, <2>2, TypeDecrypts DEF ReadOk, Decrypts, Consume, TypeOK, Phases
  <1>6. CASE ReadUnparsable
    <2>1. taken' \in Seq(Blocks)
      BY <1>6 DEF ReadUnparsable
    <2> QED
      BY <1>6, <2>1, TypeDecrypts DEF ReadUnparsable, Decrypts, Consume, TypeOK, Phases
  <1>7. CASE ReadUndecryptable
    <2>1. stream' \in Seq(Blocks)
      BY <1>7, Rest DEF ReadUndecryptable, Consume, TypeOK
    <2> QED
      BY <1>7, <2>1 DEF ReadUndecryptable, Consume, TypeOK, Phases
  <1>8. CASE ReadGarbage
    BY <1>8, TypeSwallow DEF ReadGarbage, TypeOK, Phases
  <1>9. CASE Fail
    BY <1>9 DEF Fail, TypeOK, Phases
  <1>10. CASE GiveUp
    <2>1. stream' \in Seq(Blocks) /\ cut' \in BOOLEAN
      BY <1>10, TypeSwallow DEF GiveUp, TypeOK
    <2>2. dropped' \subseteq Calls /\ receiver' \in {"follows", "lost", "gone", "reset"}
      BY <1>10 DEF GiveUp, TypeOK
    <2> QED
      BY <1>10, <2>1, <2>2 DEF GiveUp, TypeOK, Phases
  <1>11. CASE Close
    BY <1>11 DEF Close, TypeOK, network
  <1>12. CASE Answer
    <2>1. inbox' \in Seq(Calls) /\ Head(inbox) \in Calls
      BY <1>12, Rest DEF Answer, TypeOK
    <2>2. PICK n \in 1 .. MaxBlocks :
            stream' = stream \o Response(Head(inbox), n) /\ sealed' = sealed + n
      BY <1>12 DEF Answer
    <2>3. n \in Nat
      BY <2>2, BoundsAssumption
    <2>4. stream' \in Seq(Blocks) /\ sealed' \in Nat
      BY <2>1, <2>2, <2>3, ResponseBlocks, Joined DEF TypeOK
    <2> QED
      BY <1>12, <2>1, <2>4 DEF Answer, TypeOK, client
  <1>13. CASE HangUp
    <2>1. stream' \in Seq(Blocks) /\ inbox' \in Seq(Calls)
      BY <1>13, Prefix DEF HangUp, TypeOK
    <2> QED
      BY <1>13, <2>1 DEF HangUp, TypeOK, client
  <1>14. CASE UNCHANGED vars
    BY <1>14 DEF vars, client, network, TypeOK
  <1> QED
    BY <1>1, <1>2, <1>3, <1>4, <1>5, <1>6, <1>7, <1>8, <1>9, <1>10, <1>11, <1>12, <1>13,
       <1>14 DEF Next

\* The variables keep their types, for every number of requests and of blocks.
THEOREM ConnectionTypeCorrect == Spec => []TypeOK
  <1>1. Spec => []Typed
    BY TypeInit, TypeStep, PTL DEF Spec
  <1> QED
    BY <1>1, PTL DEF Typed

-----------------------------------------------------------------------------
(* Lost blocks. *)

\* The blocks in the stream are numbered upwards, from the one the client's cipher waits
\* for at the earliest to the last the receiver has sealed at the latest.
Numbered ==
  /\ opened <= sealed
  /\ \A i \in 1 .. Len(stream) : opened <= stream[i].nonce /\ stream[i].nonce < sealed
  /\ \A i, j \in 1 .. Len(stream) : i < j => stream[i].nonce < stream[j].nonce

\* The parts of a block in the stream.
LEMMA BlockAt ==
  ASSUME TypeOK
  PROVE  \A i \in 1 .. Len(stream) :
           stream[i].of \in Calls /\ stream[i].last \in BOOLEAN /\ stream[i].nonce \in Nat
  <1> SUFFICES ASSUME NEW i \in 1 .. Len(stream)
               PROVE  /\ stream[i].of \in Calls
                      /\ stream[i].last \in BOOLEAN
                      /\ stream[i].nonce \in Nat
    OBVIOUS
  <1>1. stream[i] \in Blocks
    BY DEF TypeOK
  <1> QED
    BY <1>1 DEF Blocks

\* What leaves the stream at the front leaves it numbered.
LEMMA NumberedSwallow ==
  ASSUME TypeOK, Numbered, NEW n \in 0 .. Len(stream),
         stream' = SubSeq(stream, n + 1, Len(stream)),
         opened' = opened, sealed' = sealed
  PROVE  Numbered'
  <1>1. /\ Len(stream') = Len(stream) - n
        /\ \A i \in 1 .. Len(stream) - n : stream'[i] = stream[i + n]
    BY Suffix DEF TypeOK
  <1>2. Len(stream) \in Nat /\ n \in Nat
    BY DEF TypeOK
  <1>3. \A i \in 1 .. Len(stream') :
          /\ i \in Nat
          /\ i + n \in 1 .. Len(stream)
          /\ stream'[i] = stream[i + n]
    BY <1>1, <1>2
  <1>4. \A i \in 1 .. Len(stream') : opened' <= stream'[i].nonce /\ stream'[i].nonce < sealed'
    BY <1>3 DEF Numbered
  <1>5. ASSUME NEW i \in 1 .. Len(stream'), NEW j \in 1 .. Len(stream'), i < j
        PROVE  stream'[i].nonce < stream'[j].nonce
    <2>1. i + n < j + n
      BY <1>2, <1>3, <1>5
    <2> QED
      BY <1>3, <2>1 DEF Numbered
  <1>6. opened' <= sealed'
    BY DEF Numbered
  <1> QED
    BY <1>4, <1>5, <1>6 DEF Numbered

\* A block that is consumed leaves the stream numbered, also if it decrypted.
LEMMA NumberedConsume ==
  ASSUME TypeOK, Numbered, Consume, sealed' = sealed,
         opened' = opened \/ (Head(stream).nonce = opened /\ opened' = opened + 1)
  PROVE  Numbered'
  <1>1. /\ Len(stream) \in Nat /\ Len(stream) > 0
        /\ Len(stream') = Len(stream) - 1
        /\ \A i \in 1 .. Len(stream) - 1 : stream'[i] = stream[i + 1]
        /\ Head(stream) = stream[1]
    BY Rest DEF TypeOK, Consume
  <1>2. \A i \in 1 .. Len(stream) : stream[i].nonce \in Nat
    BY BlockAt
  <1>3. \A i \in 1 .. Len(stream) - 1 : opened' <= stream[i + 1].nonce
    BY <1>1, <1>2 DEF Numbered, TypeOK
  <1>4. opened' <= sealed'
    BY <1>1, <1>2 DEF Numbered, TypeOK
  <1>5. \A i \in 1 .. Len(stream') : opened' <= stream'[i].nonce /\ stream'[i].nonce < sealed'
    BY <1>1, <1>3 DEF Numbered
  <1>6. \A i, j \in 1 .. Len(stream') : i < j => stream'[i].nonce < stream'[j].nonce
    BY <1>1 DEF Numbered
  <1> QED
    BY <1>4, <1>5, <1>6 DEF Numbered

\* Every step keeps the blocks numbered.
LEMMA NumberedStep == Typed /\ Numbered /\ [Next]_vars => Numbered'
  <1> SUFFICES ASSUME Typed, Numbered, [Next]_vars PROVE Numbered'
    OBVIOUS
  <1>t. TypeOK
    BY DEF Typed
  <1>1. CASE UNCHANGED <<stream, opened, sealed>>
    BY <1>1 DEF Numbered
  <1>2. CASE ReadMore \/ ReadOk \/ ReadUnparsable
    BY <1>2, <1>t, NumberedConsume
    DEF ReadMore, ReadOk, ReadUnparsable, Decrypts, Consume
  <1>3. CASE ReadUndecryptable
    BY <1>3, <1>t, NumberedConsume DEF ReadUndecryptable, Consume
  <1>4. CASE ReadGarbage
    BY <1>4, <1>t, NumberedSwallow DEF ReadGarbage, Swallow
  <1>5. CASE GiveUp
    <2>1. UNCHANGED <<opened, sealed>>
      BY <1>5 DEF GiveUp
    <2>2. CASE UNCHANGED stream
      BY <2>1, <2>2 DEF Numbered
    <2>3. CASE \E n \in 0 .. Len(stream) : Swallow(n)
      BY <2>1, <2>3, <1>t, NumberedSwallow DEF Swallow
    <2> QED
      BY <1>5, <2>2, <2>3 DEF GiveUp
  <1>6. CASE Answer
    <2>1. PICK n \in 1 .. MaxBlocks :
            stream' = stream \o Response(Head(inbox), n) /\ sealed' = sealed + n
      BY <1>6 DEF Answer
    <2>2. n \in Nat /\ Head(inbox) \in Calls /\ opened' = opened
      BY <1>6, <2>1, <1>t, BoundsAssumption, Rest DEF Answer, TypeOK, client
    <2> DEFINE R == Response(Head(inbox), n)
    <2>3. /\ R \in Seq(Blocks) /\ Len(R) = n
          /\ \A i \in 1 .. n : R[i].nonce = sealed + i - 1
      BY <2>2, <1>t, ResponseBlocks DEF TypeOK
    <2> HIDE DEF R
    <2>4. /\ Len(stream') = Len(stream) + n
          /\ \A i \in 1 .. Len(stream) : stream'[i] = stream[i]
          /\ \A i \in Len(stream) + 1 .. Len(stream) + n : stream'[i] = R[i - Len(stream)]
      <3>1. stream' = stream \o R
        BY <2>1 DEF R
      <3>2. stream \in Seq(Blocks)
        BY <1>t DEF TypeOK
      <3> QED
        BY <3>1, <3>2, <2>3, Joined
    <2>5. Len(stream) \in Nat /\ sealed \in Nat /\ opened \in Nat
      BY <1>t DEF TypeOK
    <2>6. \A i \in Len(stream) + 1 .. Len(stream) + n :
            stream'[i].nonce = sealed + i - Len(stream) - 1
      BY <2>2, <2>3, <2>4, <2>5
    <2>7. \A i \in 1 .. Len(stream) : stream[i].nonce \in Nat
      BY <1>t, BlockAt
    <2>8. sealed' = sealed + n /\ opened' = opened /\ opened' <= sealed'
      BY <2>1, <2>2, <2>5 DEF Numbered
    <2>9. \A i \in 1 .. Len(stream) :
            /\ stream'[i].nonce = stream[i].nonce
            /\ opened <= stream[i].nonce /\ stream[i].nonce < sealed
      BY <2>4 DEF Numbered
    <2>10. \A i \in 1 .. Len(stream') : opened' <= stream'[i].nonce /\ stream'[i].nonce < sealed'
      <3> SUFFICES ASSUME NEW i \in 1 .. Len(stream')
                   PROVE  opened' <= stream'[i].nonce /\ stream'[i].nonce < sealed'
        OBVIOUS
      <3>1. CASE i \in 1 .. Len(stream)
        BY <3>1, <2>2, <2>5, <2>7, <2>8, <2>9
      <3>2. CASE i \in Len(stream) + 1 .. Len(stream) + n
        BY <3>2, <2>2, <2>5, <2>6, <2>8 DEF Numbered
      <3> QED
        BY <3>1, <3>2, <2>2, <2>4, <2>5
    <2>11. \A i, j \in 1 .. Len(stream') : i < j => stream'[i].nonce < stream'[j].nonce
      <3> SUFFICES ASSUME NEW i \in 1 .. Len(stream'), NEW j \in 1 .. Len(stream'), i < j
                   PROVE  stream'[i].nonce < stream'[j].nonce
        OBVIOUS
      <3>1. CASE j \in 1 .. Len(stream)
        BY <3>1, <2>5, <2>9 DEF Numbered
      <3>2. CASE i \in 1 .. Len(stream) /\ j \in Len(stream) + 1 .. Len(stream) + n
        <4>1. stream'[i].nonce < sealed /\ stream'[i].nonce \in Nat
          BY <3>2, <2>7, <2>9
        <4>2. stream'[j].nonce = sealed + j - Len(stream) - 1 /\ j >= Len(stream) + 1
          BY <3>2, <2>2, <2>5, <2>6
        <4> QED
          BY <4>1, <4>2, <2>5, <3>2
      <3>3. CASE i \in Len(stream) + 1 .. Len(stream) + n
        <4>1. i \in Nat /\ j \in Len(stream) + 1 .. Len(stream) + n /\ j \in Nat
          BY <3>3, <2>2, <2>4, <2>5
        <4>2. /\ stream'[i].nonce = sealed + i - Len(stream) - 1
              /\ stream'[j].nonce = sealed + j - Len(stream) - 1
          BY <3>3, <4>1, <2>6
        <4> QED
          BY <4>1, <4>2, <2>5
      <3> QED
        BY <3>1, <3>2, <3>3, <2>2, <2>4, <2>5
    <2> QED
      BY <2>8, <2>10, <2>11 DEF Numbered
  <1>7. CASE HangUp
    <2>1. PICK n \in 0 .. Len(stream) : stream' = SubSeq(stream, 1, n)
      BY <1>7 DEF HangUp
    <2>2. Len(stream') = n /\ \A i \in 1 .. n : stream'[i] = stream[i]
      BY <2>1, <1>t, Prefix DEF TypeOK
    <2>3. UNCHANGED <<opened, sealed>> /\ Len(stream) \in Nat
      BY <1>7, <1>t DEF HangUp, client, TypeOK
    <2> QED
      BY <2>2, <2>3 DEF Numbered
  <1> QED
    BY <1>1, <1>2, <1>3, <1>4, <1>5, <1>6, <1>7
    DEF Next, vars, client, network, StartSend, Written, ReadLength, Fail, Close

\* Init numbers the empty stream.
LEMMA NumberedInit == Init => Numbered
  BY DEF Init, Numbered

\* With the block it waits for lost, the client's cipher opens none: every block still
\* there has a later number.
LEMMA NoneOpens ==
  ASSUME TypeOK, Numbered, BlockLost
  PROVE  ~Decrypts
  <1> SUFFICES ASSUME Decrypts PROVE FALSE
    OBVIOUS
  <1>1. /\ phase = "block"
        /\ 1 \in 1 .. Len(stream)
        /\ stream[1].nonce = opened
    BY Rest DEF Decrypts, Consume, TypeOK
  <1> QED
    BY <1>1 DEF BlockLost

\* A lost block stays lost when the stream is left alone or loses blocks at its front,
\* unless its bytes come to lie before a call that reads them as a block.
LEMMA LostSwallow ==
  ASSUME TypeOK, BlockLost, NEW n \in 0 .. Len(stream),
         stream' = SubSeq(stream, n + 1, Len(stream)),
         opened' = opened, sealed' = sealed,
         n = 0 => cut' = cut,
         phase' # "block"
  PROVE  BlockLost'
  <1>1. /\ Len(stream) \in Nat
        /\ Len(stream') = Len(stream) - n
        /\ \A i \in 1 .. Len(stream) - n : stream'[i] = stream[i + n]
    BY Suffix DEF TypeOK
  <1>2. ASSUME NEW i \in 1 .. Len(stream'), stream'[i].nonce = opened'
        PROVE  i = 1 /\ cut' /\ phase' # "block"
    <2>1. i + n \in 1 .. Len(stream) /\ stream[i + n].nonce = opened
      BY <1>1, <1>2
    <2>2. i + n = 1 /\ cut
      BY <2>1 DEF BlockLost
    <2>3. n = 0 /\ i = 1
      BY <2>2, <1>1
    <2> QED
      BY <2>2, <2>3
  <1> QED
    BY <1>2 DEF BlockLost

\* The step that delivers a response, or makes a lost block readable, does not exist.
LEMMA LostStep ==
  Typed /\ Numbered /\ BlockLost /\ [Next]_vars => BlockLost' /\ answers' = answers
  <1> SUFFICES ASSUME Typed, Numbered, BlockLost, [Next]_vars
               PROVE  BlockLost' /\ answers' = answers
    OBVIOUS
  <1>t. TypeOK
    BY DEF Typed
  <1>d. ~ReadMore /\ ~ReadOk /\ ~ReadUnparsable
    BY <1>t, NoneOpens DEF ReadMore, ReadOk, ReadUnparsable
  <1>1. CASE StartSend \/ Written \/ Fail \/ Close
    BY <1>1 DEF StartSend, Written, Fail, Close, network, BlockLost
  <1>2. CASE ReadLength
    <2>1. /\ UNCHANGED <<stream, sealed, opened, answers>>
          /\ cut' = TRUE
          /\ phase = "length"
          /\ phase' = IF cut THEN "garbage" ELSE "block"
      BY <1>2 DEF ReadLength, network
    <2>2. \A i \in 1 .. Len(stream') :
            stream'[i].nonce = opened' => i = 1 /\ cut' /\ phase' # "block"
      BY <2>1 DEF BlockLost
    <2> QED
      BY <2>1, <2>2 DEF BlockLost
  <1>3. CASE ReadUndecryptable
    <2>1. stream # <<>> /\ stream' = Tail(stream)
      BY <1>3 DEF ReadUndecryptable, Consume
    <2>2. 1 \in 0 .. Len(stream) /\ stream' = SubSeq(stream, 1 + 1, Len(stream))
      BY <2>1, <1>t DEF TypeOK
    <2> QED
      BY <1>3, <1>t, <2>2, LostSwallow DEF ReadUndecryptable, Consume
  <1>4. CASE ReadGarbage
    BY <1>4, <1>t, LostSwallow DEF ReadGarbage, Swallow
  <1>5. CASE GiveUp
    <2>1. UNCHANGED <<opened, sealed, answers>> /\ phase' = "idle"
      BY <1>5 DEF GiveUp
    <2>2. CASE UNCHANGED <<stream, cut>>
      BY <2>1, <2>2 DEF BlockLost
    <2>3. CASE UNCHANGED stream /\ cut' \in {cut, stream # <<>>}
      <3>1. ASSUME NEW i \in 1 .. Len(stream'), stream'[i].nonce = opened'
            PROVE  i = 1 /\ cut'
        <4>1. i = 1 /\ cut
          BY <2>1, <2>3, <3>1 DEF BlockLost
        <4>2. stream # <<>>
          BY <2>3, <3>1
        <4> QED
          BY <4>1, <4>2, <2>3
      <3> QED
        BY <2>1, <2>3, <3>1 DEF BlockLost
    <2>4. CASE \E n \in 0 .. Len(stream) : Swallow(n)
      BY <2>1, <2>4, <1>t, LostSwallow DEF Swallow
    <2> QED
      BY <1>5, <2>2, <2>3, <2>4 DEF GiveUp
  <1>6. CASE Answer
    <2>1. PICK n \in 1 .. MaxBlocks :
            stream' = stream \o Response(Head(inbox), n) /\ sealed' = sealed + n
      BY <1>6 DEF Answer
    <2>2. n \in Nat /\ Head(inbox) \in Calls /\ UNCHANGED client
      BY <1>6, <2>1, <1>t, BoundsAssumption, Rest DEF Answer, TypeOK
    <2> DEFINE R == Response(Head(inbox), n)
    <2>3. /\ R \in Seq(Blocks) /\ Len(R) = n
          /\ \A i \in 1 .. n : R[i].nonce = sealed + i - 1
      BY <2>2, <1>t, ResponseBlocks DEF TypeOK
    <2> HIDE DEF R
    <2>4. /\ Len(stream') = Len(stream) + n
          /\ \A i \in 1 .. Len(stream) : stream'[i] = stream[i]
          /\ \A i \in Len(stream) + 1 .. Len(stream) + n : stream'[i] = R[i - Len(stream)]
      <3>1. stream' = stream \o R
        BY <2>1 DEF R
      <3>2. stream \in Seq(Blocks)
        BY <1>t DEF TypeOK
      <3> QED
        BY <3>1, <3>2, <2>3, Joined
    <2>5. Len(stream) \in Nat /\ sealed \in Nat /\ opened \in Nat
      BY <1>t DEF TypeOK
    <2>6. UNCHANGED <<opened, phase, cut, answers>> /\ opened < sealed
      BY <2>2 DEF client, BlockLost
    <2>7. ASSUME NEW i \in 1 .. Len(stream'), stream'[i].nonce = opened'
          PROVE  i = 1 /\ cut' /\ phase' # "block"
      <3>1. CASE i \in 1 .. Len(stream)
        BY <3>1, <2>4, <2>6, <2>7 DEF BlockLost
      <3>2. CASE i \in Len(stream) + 1 .. Len(stream) + n
        <4>1. i - Len(stream) \in 1 .. n
          BY <3>2, <2>2, <2>5
        <4>2. stream'[i].nonce = sealed + (i - Len(stream)) - 1 /\ i - Len(stream) >= 1
          BY <3>2, <4>1, <2>3, <2>4
        <4> QED
          BY <4>1, <4>2, <2>2, <2>5, <2>6, <2>7
      <3> QED
        BY <3>1, <3>2, <2>2, <2>4, <2>5
    <2>8. opened' < sealed'
      BY <2>1, <2>2, <2>5, <2>6
    <2> QED
      BY <2>6, <2>7, <2>8 DEF BlockLost
  <1>7. CASE HangUp
    <2>1. PICK n \in 0 .. Len(stream) : stream' = SubSeq(stream, 1, n)
      BY <1>7 DEF HangUp
    <2>2. Len(stream') = n /\ \A i \in 1 .. n : stream'[i] = stream[i]
      BY <2>1, <1>t, Prefix DEF TypeOK
    <2>3. UNCHANGED <<opened, sealed, phase, cut, answers>> /\ Len(stream) \in Nat
      BY <1>7, <1>t DEF HangUp, client, TypeOK
    <2> QED
      BY <2>2, <2>3 DEF BlockLost
  <1>8. CASE UNCHANGED vars
    BY <1>8 DEF vars, client, network, BlockLost
  <1> QED
    BY <1>1, <1>2, <1>3, <1>4, <1>5, <1>6, <1>7, <1>8, <1>d DEF Next

\* A connection that lost a block of a response never delivers a response again: both
\* ciphers only count upwards, whatever the number of requests and of blocks.
THEOREM DamageStaysFinal == Spec => DamageIsFinal
  <1>1. Spec => [](Typed /\ Numbered)
    BY TypeInit, TypeStep, NumberedInit, NumberedStep, PTL DEF Spec
  <1>2. Typed /\ Numbered /\ [Next]_vars => [BlockLost => BlockLost' /\ answers' = answers]_vars
    BY LostStep
  <1> QED
    BY <1>1, <1>2, PTL DEF Spec, DamageIsFinal

-----------------------------------------------------------------------------
(* Order. *)

\* Responses in flight answer requests in order, one whole response after the other;
\* the request that is being written has none yet.
StreamOrdered ==
  /\ \A i \in 1 .. Len(stream) :
       stream[i].of <= cseq /\ (phase = "write" => stream[i].of < cseq)
  /\ \A i, j \in 1 .. Len(stream) : i < j =>
       /\ stream[i].of <= stream[j].of
       /\ stream[i].last => stream[i].of < stream[j].of

\* The receiver holds later requests than any it has answered, in order.
InboxOrdered ==
  /\ \A k \in 1 .. Len(inbox) : inbox[k] <= cseq /\ (phase = "write" => inbox[k] < cseq)
  /\ \A k, l \in 1 .. Len(inbox) : k < l => inbox[k] < inbox[l]
  /\ \A i \in 1 .. Len(stream) : \A k \in 1 .. Len(inbox) : stream[i].of < inbox[k]

\* Only calls that are over have an answer, and everything still to come answers a later
\* request than any answer taken.
AnswersOrdered ==
  /\ \A c \in Calls : answers[c] # NoAnswer => c <= cseq /\ (c = cseq => phase = "idle")
  /\ \A c \in Calls : \A i \in 1 .. Len(stream) : answers[c] < stream[i].of
  /\ \A c \in Calls : \A k \in 1 .. Len(inbox) : answers[c] < inbox[k]

Ordered == StreamOrdered /\ InboxOrdered /\ AnswersOrdered /\ ResponsesInOrder

\* Nothing is sent, nothing is answered.
LEMMA OrderedInit == Init => Ordered
  BY DEF Init, Ordered, StreamOrdered, InboxOrdered, AnswersOrdered, ResponsesInOrder

\* Blocks that leave the stream at the front, without an answer, leave everything ordered.
LEMMA OrderedSwallow ==
  ASSUME TypeOK, Ordered, NEW n \in 0 .. Len(stream),
         stream' = SubSeq(stream, n + 1, Len(stream)),
         UNCHANGED <<inbox, cseq, answers>>,
         phase' # "write", phase = "idle" => phase' = "idle"
  PROVE  Ordered'
  <1>1. /\ Len(stream) \in Nat
        /\ Len(stream') = Len(stream) - n
        /\ \A i \in 1 .. Len(stream) - n : stream'[i] = stream[i + n]
    BY Suffix DEF TypeOK
  <1>2. \A i \in 1 .. Len(stream') : i + n \in 1 .. Len(stream) /\ stream'[i] = stream[i + n]
    BY <1>1
  <1>3. StreamOrdered'
    <2>1. \A i, j \in 1 .. Len(stream') : i < j => i + n < j + n
      BY <1>1
    <2> QED
      BY <1>2, <2>1 DEF Ordered, StreamOrdered
  <1>4. InboxOrdered'
    BY <1>2 DEF Ordered, InboxOrdered
  <1>5. AnswersOrdered'
    BY <1>2 DEF Ordered, AnswersOrdered
  <1>6. ResponsesInOrder'
    BY DEF Ordered, ResponsesInOrder
  <1> QED
    BY <1>3, <1>4, <1>5, <1>6 DEF Ordered

\* The parts of a step that consumes a block, as seen by the order.
LEMMA ConsumeIsSwallow ==
  ASSUME TypeOK, Consume
  PROVE  1 \in 0 .. Len(stream) /\ stream' = SubSeq(stream, 1 + 1, Len(stream))
  BY DEF TypeOK, Consume

\* Every step keeps the order.
LEMMA OrderedStep == Typed /\ Ordered /\ [Next]_vars => Ordered'
  <1> SUFFICES ASSUME Typed, Ordered, [Next]_vars PROVE Ordered'
    OBVIOUS
  <1>t. /\ TypeOK
        /\ phase # "idle" => cseq \in Calls
        /\ cseq \in Nat
        /\ Calls \subseteq Nat \ {0}
    BY BoundsAssumption DEF Typed, TypeOK, Calls
  <1>b. /\ \A i \in 1 .. Len(stream) : stream[i].of \in Calls /\ stream[i].last \in BOOLEAN
        /\ \A k \in 1 .. Len(inbox) : inbox[k] \in Calls
        /\ \A c \in Calls : answers[c] \in Nat
        /\ Len(stream) \in Nat /\ Len(inbox) \in Nat
    BY <1>t, BlockAt, BoundsAssumption DEF TypeOK
  <1>c. /\ \A i \in 1 .. Len(stream) : stream[i].of \in Nat
        /\ \A k \in 1 .. Len(inbox) : inbox[k] \in Nat
    BY <1>t, <1>b
  <1>1. CASE StartSend
    <2>1. /\ UNCHANGED <<stream, inbox, answers>>
          /\ phase = "idle" /\ phase' = "write" /\ cseq' = cseq + 1
      BY <1>1 DEF StartSend, network
    <2>2. StreamOrdered'
      <3>1. \A i \in 1 .. Len(stream) : stream[i].of < cseq + 1
        BY <1>t, <1>c DEF Ordered, StreamOrdered
      <3>2. \A i \in 1 .. Len(stream) : stream[i].of <= cseq + 1
        BY <3>1, <1>t, <1>c
      <3> QED
        BY <2>1, <3>1, <3>2 DEF Ordered, StreamOrdered
    <2>3. InboxOrdered'
      <3>1. \A k \in 1 .. Len(inbox) : inbox[k] < cseq + 1
        BY <1>t, <1>c DEF Ordered, InboxOrdered
      <3>2. \A k \in 1 .. Len(inbox) : inbox[k] <= cseq + 1
        BY <3>1, <1>t, <1>c
      <3> QED
        BY <2>1, <3>1, <3>2 DEF Ordered, InboxOrdered
    <2>4. AnswersOrdered'
      BY <2>1, <1>t, <1>b DEF Ordered, AnswersOrdered
    <2>5. ResponsesInOrder'
      BY <2>1 DEF Ordered, ResponsesInOrder
    <2> QED
      BY <2>2, <2>3, <2>4, <2>5 DEF Ordered
  <1>2. CASE Written
    <2>1. /\ UNCHANGED <<stream, cseq, answers>>
          /\ phase = "write" /\ phase' = "length"
      BY <1>2 DEF Written
    <2>2. StreamOrdered' /\ ResponsesInOrder'
      BY <2>1 DEF Ordered, StreamOrdered, ResponsesInOrder
    <2>3. CASE UNCHANGED inbox
      BY <2>1, <2>2, <2>3 DEF Ordered, InboxOrdered, AnswersOrdered
    <2>4. CASE inbox' = Append(inbox, cseq)
      <3>1. /\ Len(inbox') = Len(inbox) + 1
            /\ \A k \in 1 .. Len(inbox) : inbox'[k] = inbox[k]
            /\ inbox'[Len(inbox) + 1] = cseq
        BY <2>4, <1>t DEF TypeOK
      <3>2. InboxOrdered'
        <4>1. \A k \in 1 .. Len(inbox') :
                \/ k \in 1 .. Len(inbox) /\ inbox'[k] = inbox[k]
                \/ k = Len(inbox) + 1 /\ inbox'[k] = cseq
          BY <3>1, <1>b
        <4>2. \A k \in 1 .. Len(inbox') : inbox'[k] <= cseq'
          BY <2>1, <4>1, <1>t DEF Ordered, InboxOrdered
        <4>3. \A k, l \in 1 .. Len(inbox') : k < l => inbox'[k] < inbox'[l]
          <5> SUFFICES ASSUME NEW k \in 1 .. Len(inbox'), NEW l \in 1 .. Len(inbox'), k < l
                       PROVE  inbox'[k] < inbox'[l]
            OBVIOUS
          <5>1. k \in 1 .. Len(inbox) /\ inbox'[k] = inbox[k]
            BY <3>1, <4>1, <1>b
          <5>2. CASE l \in 1 .. Len(inbox) /\ inbox'[l] = inbox[l]
            BY <5>1, <5>2 DEF Ordered, InboxOrdered
          <5>3. CASE inbox'[l] = cseq
            BY <5>1, <5>3, <2>1 DEF Ordered, InboxOrdered
          <5> QED
            BY <5>2, <5>3, <4>1
        <4>4. \A i \in 1 .. Len(stream') : \A k \in 1 .. Len(inbox') : stream'[i].of < inbox'[k]
          BY <2>1, <4>1 DEF Ordered, StreamOrdered, InboxOrdered
        <4> QED
          BY <2>1, <4>2, <4>3, <4>4 DEF InboxOrdered
      <3>3. \A c \in Calls : answers[c] < cseq
        <4> SUFFICES ASSUME NEW c \in Calls PROVE answers[c] < cseq
          OBVIOUS
        <4>1. cseq > 0 /\ c \in Nat /\ answers[c] \in Nat
          BY <2>1, <1>t, <1>b
        <4>2. CASE answers[c] = NoAnswer
          BY <4>1, <4>2, <1>t DEF NoAnswer
        <4>3. CASE answers[c] # NoAnswer
          <5>1. c <= cseq /\ c # cseq
            BY <4>3, <2>1 DEF Ordered, AnswersOrdered
          <5>2. answers[c] <= c
            BY <4>3 DEF Ordered, ResponsesInOrder
          <5> QED
            BY <5>1, <5>2, <4>1, <1>t
        <4> QED
          BY <4>2, <4>3
      <3>4. AnswersOrdered'
        BY <2>1, <3>1, <3>3, <1>b DEF Ordered, AnswersOrdered
      <3> QED
        BY <2>2, <3>2, <3>4 DEF Ordered
    <2> QED
      BY <1>2, <2>3, <2>4 DEF Written
  <1>3. CASE ReadLength \/ Fail \/ Close
    <2>1. /\ UNCHANGED <<stream, inbox, cseq, answers>>
          /\ phase' # "write" /\ (phase = "idle" => phase' = "idle")
      BY <1>3 DEF ReadLength, Fail, Close, network
    <2>2. stream' = SubSeq(stream, 0 + 1, Len(stream)) /\ 0 \in 0 .. Len(stream)
      BY <2>1, <1>t, <1>b DEF TypeOK
    <2> QED
      BY <2>1, <2>2, <1>t, OrderedSwallow
  <1>4. CASE ReadMore \/ ReadUnparsable \/ ReadUndecryptable
    <2>1. /\ Consume
          /\ UNCHANGED <<inbox, cseq, answers>>
          /\ phase' # "write" /\ phase # "idle"
      BY <1>4 DEF ReadMore, ReadUnparsable, ReadUndecryptable, Decrypts, Consume
    <2> QED
      BY <2>1, <1>t, ConsumeIsSwallow, OrderedSwallow
  <1>5. CASE ReadGarbage
    BY <1>5, <1>t, OrderedSwallow DEF ReadGarbage, Swallow
  <1>6. CASE GiveUp
    <2>1. UNCHANGED <<inbox, cseq, answers>> /\ phase' = "idle"
      BY <1>6 DEF GiveUp
    <2>2. CASE UNCHANGED stream
      <3>1. stream' = SubSeq(stream, 0 + 1, Len(stream)) /\ 0 \in 0 .. Len(stream)
        BY <2>2, <1>t, <1>b DEF TypeOK
      <3> QED
        BY <2>1, <3>1, <1>t, OrderedSwallow
    <2>3. CASE \E n \in 0 .. Len(stream) : Swallow(n)
      BY <2>1, <2>3, <1>t, OrderedSwallow DEF Swallow
    <2> QED
      BY <1>6, <2>2, <2>3 DEF GiveUp
  <1>7. CASE ReadOk
    <2>1. /\ 1 \in 1 .. Len(stream) /\ Head(stream) = stream[1]
          /\ Len(stream') = Len(stream) - 1
          /\ \A i \in 1 .. Len(stream) - 1 : stream'[i] = stream[i + 1]
      BY <1>7, <1>t, Rest DEF ReadOk, Decrypts, Consume, TypeOK
    <2>2. UNCHANGED <<inbox, cseq>> /\ phase # "idle" /\ phase # "write" /\ phase' = "idle"
      BY <1>7 DEF ReadOk, Decrypts, Consume
    <2> DEFINE r == stream[1].of
    <2>3. answers' = [answers EXCEPT ![cseq] = r]
      BY <1>7, <2>1 DEF ReadOk
    <2>4. stream[1].last
      <3>1. Collected[Len(Collected)] = Head(stream)
        BY <1>t DEF Collected, TypeOK
      <3> QED
        BY <1>7, <2>1, <3>1 DEF ReadOk, IsWhole
    <2>5. r \in Calls /\ r <= cseq /\ cseq \in Calls
      BY <2>1, <2>2, <1>b, <1>t DEF Ordered, StreamOrdered
    <2>6. /\ answers'[cseq] = r
          /\ \A c \in Calls : c # cseq => answers'[c] = answers[c]
      BY <2>3, <2>5, <1>t DEF TypeOK
    <2>7. \A i \in 1 .. Len(stream') :
            i + 1 \in 1 .. Len(stream) /\ stream'[i] = stream[i + 1] /\ r < stream[i + 1].of
      <3>1. \A i \in 1 .. Len(stream') :
              i + 1 \in 1 .. Len(stream) /\ 1 < i + 1 /\ stream'[i] = stream[i + 1]
        BY <2>1, <1>b
      <3> QED
        BY <2>1, <2>4, <3>1 DEF Ordered, StreamOrdered
    <2> HIDE DEF r
    <2>8. \A c \in Calls : answers[c] < r
      BY <2>1 DEF Ordered, AnswersOrdered, r
    <2>9. \A k \in 1 .. Len(inbox) : r < inbox[k]
      BY <2>1 DEF Ordered, InboxOrdered, r
    <2>10. StreamOrdered'
      <3>1. \A i, j \in 1 .. Len(stream') : i < j => i + 1 < j + 1
        BY <2>1, <1>b
      <3> QED
        BY <2>2, <2>7, <3>1 DEF Ordered, StreamOrdered
    <2>11. InboxOrdered'
      BY <2>2, <2>7 DEF Ordered, InboxOrdered
    <2>12. AnswersOrdered'
      <3>1. \A c \in Calls : \A i \in 1 .. Len(stream') : answers'[c] < stream'[i].of
        BY <2>6, <2>7 DEF Ordered, AnswersOrdered
      <3>2. \A c \in Calls : \A k \in 1 .. Len(inbox') : answers'[c] < inbox'[k]
        BY <2>2, <2>6, <2>9 DEF Ordered, AnswersOrdered
      <3>3. \A c \in Calls : answers'[c] # NoAnswer =>
              c <= cseq' /\ (c = cseq' => phase' = "idle")
        BY <2>2, <2>6, <1>t DEF Ordered, AnswersOrdered
      <3> QED
        BY <3>1, <3>2, <3>3 DEF AnswersOrdered
    <2>13. ResponsesInOrder'
      <3> SUFFICES ASSUME NEW c \in Calls, answers'[c] # NoAnswer
                   PROVE  /\ answers'[c] <= c
                          /\ \A d \in 1 .. c - 1 : answers'[d] < answers'[c]
        BY DEF ResponsesInOrder
      <3>0. \A d \in 1 .. c - 1 : d \in Calls /\ d < c
        BY BoundsAssumption DEF Calls
      <3>1. CASE c = cseq
        BY <3>0, <3>1, <2>5, <2>6, <2>8
      <3>2. CASE c # cseq
        <4>1. answers[c] # NoAnswer /\ c <= cseq
          BY <3>2, <2>6 DEF Ordered, AnswersOrdered
        <4>2. \A d \in 1 .. c - 1 : d # cseq
          BY <4>1, <3>0, <1>t
        <4> QED
          BY <3>0, <3>2, <4>1, <4>2, <2>6 DEF Ordered, ResponsesInOrder
      <3> QED
        BY <3>1, <3>2
    <2> QED
      BY <2>10, <2>11, <2>12, <2>13 DEF Ordered
  <1>8. CASE Answer
    <2>1. PICK n \in 1 .. MaxBlocks :
            stream' = stream \o Response(Head(inbox), n) /\ sealed' = sealed + n
      BY <1>8 DEF Answer
    <2> DEFINE r == Head(inbox)
               R == Response(r, n)
    <2>2. /\ 1 \in 1 .. Len(inbox) /\ r = inbox[1] /\ r \in Calls
          /\ Len(inbox') = Len(inbox) - 1
          /\ \A k \in 1 .. Len(inbox) - 1 : inbox'[k] = inbox[k + 1]
      BY <1>8, <1>t, Rest DEF Answer, TypeOK
    <2>3. n \in Nat /\ UNCHANGED <<cseq, phase, answers>>
      BY <1>8, <2>1, BoundsAssumption DEF Answer, client
    <2> HIDE DEF r
    <2>4. /\ R \in Seq(Blocks) /\ Len(R) = n
          /\ \A i \in 1 .. n : R[i].of = r /\ (R[i].last => i = n)
      <3>1. sealed \in Nat
        BY <1>t DEF TypeOK
      <3>2. R \in Seq(Blocks) /\ Len(R) = n
        BY <2>2, <2>3, <3>1, ResponseBlocks
      <3>3. \A i \in 1 .. n : R[i].of = r
        BY DEF Response
      <3>4. \A i \in 1 .. n : R[i].last => i = n
        BY DEF Response
      <3> QED
        BY <3>2, <3>3, <3>4
    <2> HIDE DEF R
    <2>5. /\ Len(stream') = Len(stream) + n
          /\ \A i \in 1 .. Len(stream) : stream'[i] = stream[i]
          /\ \A i \in Len(stream) + 1 .. Len(stream) + n : stream'[i] = R[i - Len(stream)]
      <3>1. stream' = stream \o R
        BY <2>1 DEF R, r
      <3>2. stream \in Seq(Blocks)
        BY <1>t DEF TypeOK
      <3>3. /\ Len(stream \o R) = Len(stream) + Len(R)
            /\ \A i \in 1 .. Len(stream) : (stream \o R)[i] = stream[i]
            /\ \A i \in Len(stream) + 1 .. Len(stream) + Len(R) :
                 (stream \o R)[i] = R[i - Len(stream)]
        BY <3>2, <2>4, Joined
      <3> QED
        BY <3>1, <3>3, <2>4
    <2>6. \A i \in 1 .. Len(stream') :
            \/ i \in 1 .. Len(stream) /\ stream'[i] = stream[i]
            \/ /\ i \in Len(stream) + 1 .. Len(stream) + n
               /\ stream'[i].of = r
               /\ stream'[i].last => i = Len(stream) + n
      <3> SUFFICES ASSUME NEW i \in Len(stream) + 1 .. Len(stream) + n
                   PROVE  /\ stream'[i].of = r
                          /\ stream'[i].last => i = Len(stream) + n
        BY <2>3, <2>5, <1>b
      <3> DEFINE k == i - Len(stream)
      <3>1. k \in 1 .. n /\ stream'[i] = R[k]
        BY <2>3, <2>5, <1>b
      <3>2. R[k].of = r /\ (R[k].last => k = n)
        BY <3>1, <2>4
      <3>3. k = n => i = Len(stream) + n
        BY <2>3, <1>b
      <3> QED
        BY <3>1, <3>2, <3>3
    <2>7. \A k \in 1 .. Len(inbox') :
            k + 1 \in 1 .. Len(inbox) /\ inbox'[k] = inbox[k + 1] /\ r < inbox[k + 1]
      <3>1. \A k \in 1 .. Len(inbox') :
              k + 1 \in 1 .. Len(inbox) /\ 1 < k + 1 /\ inbox'[k] = inbox[k + 1]
        BY <2>2, <1>b
      <3> QED
        BY <2>2, <3>1 DEF Ordered, InboxOrdered
    <2>8. /\ r <= cseq /\ (phase = "write" => r < cseq)
          /\ \A i \in 1 .. Len(stream) : stream[i].of < r
          /\ \A c \in Calls : answers[c] < r
      BY <2>2 DEF Ordered, InboxOrdered, AnswersOrdered
    <2>9. StreamOrdered'
      <3>1. ASSUME NEW i \in 1 .. Len(stream')
            PROVE  stream'[i].of <= cseq' /\ (phase' = "write" => stream'[i].of < cseq')
        BY <2>3, <2>6, <2>8 DEF Ordered, StreamOrdered
      <3>2. ASSUME NEW i \in 1 .. Len(stream'), NEW j \in 1 .. Len(stream'), i < j
            PROVE  /\ stream'[i].of <= stream'[j].of
                   /\ stream'[i].last => stream'[i].of < stream'[j].of
        <4>1. CASE j \in 1 .. Len(stream) /\ stream'[j] = stream[j]
          <5>1. i \in 1 .. Len(stream) /\ stream'[i] = stream[i]
            BY <3>2, <4>1, <1>b, <2>6
          <5> QED
            BY <3>2, <4>1, <5>1 DEF Ordered, StreamOrdered
        <4>2. CASE j \in Len(stream) + 1 .. Len(stream) + n /\ stream'[j].of = r
          <5>1. CASE i \in 1 .. Len(stream) /\ stream'[i] = stream[i]
            BY <4>2, <5>1, <2>2, <2>8, <1>b, <1>t
          <5>2. CASE /\ i \in Len(stream) + 1 .. Len(stream) + n
                     /\ stream'[i].of = r
                     /\ stream'[i].last => i = Len(stream) + n
            <6>1. i # Len(stream) + n
              BY <3>2, <4>2, <2>3, <1>b
            <6> QED
              BY <4>2, <5>2, <6>1, <2>2, <1>t
          <5> QED
            BY <5>1, <5>2, <2>6
        <4> QED
          BY <4>1, <4>2, <2>6
      <3> QED
        BY <3>1, <3>2 DEF StreamOrdered
    <2>10. InboxOrdered'
      <3>1. \A k, l \in 1 .. Len(inbox') : k < l => k + 1 < l + 1
        BY <2>2, <1>b
      <3>2. \A i \in 1 .. Len(stream') : \A k \in 1 .. Len(inbox') : stream'[i].of < inbox'[k]
        BY <2>6, <2>7 DEF Ordered, InboxOrdered
      <3> QED
        BY <2>3, <2>7, <3>1, <3>2 DEF Ordered, InboxOrdered
    <2>11. AnswersOrdered'
      BY <2>3, <2>6, <2>7, <2>8 DEF Ordered, AnswersOrdered
    <2>12. ResponsesInOrder'
      BY <2>3 DEF Ordered, ResponsesInOrder
    <2> QED
      BY <2>9, <2>10, <2>11, <2>12 DEF Ordered
  <1>9. CASE HangUp
    <2>1. PICK n \in 0 .. Len(stream) : stream' = SubSeq(stream, 1, n)
      BY <1>9 DEF HangUp
    <2>2. Len(stream') = n /\ \A i \in 1 .. n : i \in 1 .. Len(stream) /\ stream'[i] = stream[i]
      BY <2>1, <1>t, <1>b, Prefix DEF TypeOK
    <2>3. UNCHANGED <<cseq, phase, answers>> /\ Len(inbox') = 0
      BY <1>9 DEF HangUp, client
    <2>4. StreamOrdered'
      BY <2>2, <2>3 DEF Ordered, StreamOrdered
    <2>5. InboxOrdered'
      BY <2>3 DEF InboxOrdered
    <2>6. AnswersOrdered'
      BY <2>2, <2>3 DEF Ordered, AnswersOrdered
    <2>7. ResponsesInOrder'
      BY <2>3 DEF Ordered, ResponsesInOrder
    <2> QED
      BY <2>4, <2>5, <2>6, <2>7 DEF Ordered
  <1>10. CASE UNCHANGED vars
    BY <1>10
    DEF vars, client, network, Ordered, StreamOrdered, InboxOrdered, AnswersOrdered,
        ResponsesInOrder
  <1> QED
    BY <1>1, <1>2, <1>3, <1>4, <1>5, <1>6, <1>7, <1>8, <1>9, <1>10 DEF Next

\* Responses are handed out in the order of their requests, each to one call at most and
\* to none made before its own, whatever is given up, cut or skipped.
THEOREM ResponsesStayInOrder == Spec => []ResponsesInOrder
  <1>1. Spec => [](Typed /\ Ordered)
    BY TypeInit, TypeStep, OrderedInit, OrderedStep, PTL DEF Spec
  <1> QED
    BY <1>1, PTL DEF Ordered

-----------------------------------------------------------------------------
(* What is cut, damaged or hung up. *)

\* A block that was cut by a call which is over, or which is reading garbage, is lost; a
\* connection that hung up has nothing more to answer, and one that was reset is not read.
Damaged ==
  /\ phase = "garbage" => cut
  /\ cut => opened < sealed
  /\ cut /\ phase # "block" => BlockLost
  /\ receiver = "reset" => phase \in {"idle", "write"}
  /\ receiver \in {"gone", "reset"} => inbox = <<>>

\* Nothing is cut at the start.
LEMMA DamagedInit == Init => Damaged
  BY DEF Init, Damaged

\* Blocks in the stream have been sealed, and only the first may be the one waited for.
LEMMA FirstIsNext ==
  ASSUME TypeOK, Numbered, stream # <<>>
  PROVE  /\ opened < sealed
         /\ \A i \in 1 .. Len(stream) : stream[i].nonce = opened => i = 1
  <1>1. /\ 1 \in 1 .. Len(stream) /\ Len(stream) \in Nat
        /\ \A i \in 1 .. Len(stream) : stream[i].nonce \in Nat
        /\ opened \in Nat /\ sealed \in Nat
    BY BlockAt, Rest DEF TypeOK
  <1>2. opened <= stream[1].nonce /\ stream[1].nonce < sealed
    BY <1>1 DEF Numbered
  <1>3. ASSUME NEW i \in 1 .. Len(stream), stream[i].nonce = opened, i # 1
        PROVE  FALSE
    <2>1. stream[1].nonce < stream[i].nonce
      BY <1>1, <1>3 DEF Numbered
    <2> QED
      BY <1>1, <1>2, <1>3, <2>1
  <1> QED
    BY <1>1, <1>2, <1>3

\* A block that is cut and not being read is lost.
LEMMA CutIsLost ==
  ASSUME TypeOK, Numbered, opened < sealed, UNCHANGED <<stream, opened, sealed>>,
         stream # <<>> => cut', phase' # "block"
  PROVE  BlockLost'
  BY FirstIsNext DEF BlockLost

\* Every step keeps track of what is damaged.
LEMMA DamagedStep == Typed /\ Numbered /\ Damaged /\ [Next]_vars => Damaged'
  <1> SUFFICES ASSUME Typed, Numbered, Damaged, [Next]_vars PROVE Damaged'
    OBVIOUS
  <1>t. TypeOK
    BY DEF Typed
  <1>1. phase' = "garbage" => cut'
    BY DEF Next, vars, client, network, Damaged, StartSend, Written, ReadLength, ReadMore,
           ReadOk, ReadUnparsable, ReadUndecryptable, ReadGarbage, Fail, GiveUp, Close, Answer,
           HangUp, Decrypts, Consume
  <1>2. receiver' = "reset" => phase' \in {"idle", "write"}
    BY DEF Next, vars, client, network, Damaged, StartSend, Written, ReadLength, ReadMore,
           ReadOk, ReadUnparsable, ReadUndecryptable, ReadGarbage, Fail, GiveUp, Close, Answer,
           HangUp, Decrypts, Consume
  <1>3. receiver' \in {"gone", "reset"} => inbox' = <<>>
    BY DEF Next, vars, client, network, Damaged, StartSend, Written, ReadLength, ReadMore,
           ReadOk, ReadUnparsable, ReadUndecryptable, ReadGarbage, Fail, GiveUp, Close, Answer,
           HangUp, Decrypts, Consume
  <1>4. CASE BlockLost
    <2>1. BlockLost'
      BY <1>4, LostStep
    <2> QED
      BY <1>1, <1>2, <1>3, <2>1 DEF Damaged, BlockLost
  <1>5. CASE ~BlockLost
    <2>1. /\ cut => phase = "block"
          /\ phase # "garbage"
      BY <1>5 DEF Damaged
    <2>2. CASE ReadLength
      <3>1. stream # <<>> /\ UNCHANGED <<opened, sealed>> /\ phase' = "block"
        BY <2>1, <2>2 DEF ReadLength, network
      <3> QED
        BY <1>1, <1>2, <1>3, <1>t, <3>1, FirstIsNext DEF Damaged
    <2>3. CASE ReadMore \/ ReadOk \/ ReadUnparsable \/ ReadUndecryptable
      <3>1. cut' = FALSE
        BY <2>3 DEF ReadMore, ReadOk, ReadUnparsable, ReadUndecryptable, Decrypts, Consume
      <3> QED
        BY <1>1, <1>2, <1>3, <3>1 DEF Damaged
    <2>4. CASE Fail
      <3>1. CASE phase = "block"
        <4>1. UNCHANGED <<stream, opened, sealed, cut>> /\ stream = <<>> /\ phase' = "idle"
          BY <2>4, <3>1 DEF Fail
        <4>2. opened < sealed => BlockLost'
          BY <1>t, <4>1, CutIsLost
        <4> QED
          BY <1>1, <1>2, <1>3, <4>1, <4>2 DEF Damaged
      <3>2. CASE phase # "block"
        <4>1. cut' = cut
          BY <2>4 DEF Fail
        <4> QED
          BY <1>1, <1>2, <1>3, <2>1, <3>2, <4>1 DEF Damaged
      <3> QED
        BY <3>1, <3>2
    <2>5. CASE GiveUp
      <3>1. UNCHANGED <<stream, opened, sealed>> /\ phase' = "idle"
        BY <2>1, <2>5 DEF GiveUp
      <3>2. CASE cut'
        <4>1. opened < sealed
          <5>1. CASE cut
            BY <5>1 DEF Damaged
          <5>2. CASE ~cut
            <6>1. stream # <<>>
              BY <2>1, <2>5, <3>2, <5>2 DEF GiveUp
            <6> QED
              BY <1>t, <6>1, FirstIsNext
          <5> QED
            BY <5>1, <5>2
        <4>2. BlockLost'
          BY <1>t, <3>1, <3>2, <4>1, CutIsLost
        <4> QED
          BY <1>1, <1>2, <1>3, <3>1, <4>1, <4>2 DEF Damaged
      <3>3. CASE ~cut'
        BY <1>1, <1>2, <1>3, <3>3 DEF Damaged
      <3> QED
        BY <3>2, <3>3
    <2>6. CASE Answer
      <3>1. UNCHANGED <<cut, phase, opened>>
        BY <2>6 DEF Answer, client
      <3>2. sealed <= sealed'
        <4>1. PICK n \in 1 .. MaxBlocks : sealed' = sealed + n
          BY <2>6 DEF Answer
        <4> QED
          BY <4>1, <1>t, BoundsAssumption DEF TypeOK
      <3>3. opened < sealed => opened' < sealed'
        <4>1. opened \in Nat /\ sealed \in Nat /\ sealed' \in Nat
          BY <1>t, TypeStep DEF Typed, TypeOK
        <4> QED
          BY <3>1, <3>2, <4>1
      <3> QED
        BY <1>1, <1>2, <1>3, <2>1, <3>1, <3>3 DEF Damaged
    <2>7. CASE StartSend \/ Written \/ Close \/ HangUp \/ UNCHANGED vars
      <3>1. /\ UNCHANGED <<cut, opened, sealed>>
            /\ phase = "block" => phase' = "block"
        BY <2>7 DEF StartSend, Written, Close, HangUp, vars, client, network
      <3> QED
        BY <1>1, <1>2, <1>3, <2>1, <3>1 DEF Damaged
    <2>8. CASE ReadGarbage
      BY <2>1, <2>8 DEF ReadGarbage
    <2> QED
      BY <2>2, <2>3, <2>4, <2>5, <2>6, <2>7, <2>8 DEF Next
  <1> QED
    BY <1>4, <1>5

\* A block that does not decrypt, and garbage, are read on a connection that has lost a block.
LEMMA UnreadableIsLost ==
  ASSUME TypeOK, Numbered, Damaged, ReadUndecryptable \/ phase = "garbage"
  PROVE  BlockLost
  <1>1. CASE phase = "garbage"
    BY <1>1 DEF Damaged
  <1>2. CASE ReadUndecryptable
    <2>1. stream # <<>> /\ stream[1].nonce # opened
      BY <1>2, Rest DEF ReadUndecryptable, Consume, TypeOK
    <2> QED
      BY <2>1, FirstIsNext DEF BlockLost
  <1> QED
    BY <1>1, <1>2
-----------------------------------------------------------------------------
(* Lag. *)

\* Calls that have not taken a response and never will, or not yet: those given up, and the
\* one that runs.
Running == IF phase = "idle" THEN 0 ELSE 1
Without == Cardinality(dropped) + Running

\* Only calls that are over are given up.
Counted ==
  /\ dropped \subseteq 1 .. cseq
  /\ phase # "idle" => cseq \notin dropped

\* Everything still to come answers a request at most as far back as there are calls
\* without a response; unless nothing will ever be taken any more.
Ahead ==
  /\ \A i \in 1 .. Len(stream) : cseq < stream[i].of + Without
  /\ \A k \in 1 .. Len(inbox) : cseq < inbox[k] + Without
Lagging == Ahead \/ BlockLost \/ receiver = "reset"

\* At the start nothing is given up and nothing is to come.
LEMMA LaggingInit == Init => Counted /\ Lagging /\ LagIsDropped
  BY DEF Init, Counted, Lagging, Ahead, LagIsDropped

\* The calls given up are finitely many.
LEMMA DroppedFinite ==
  ASSUME TypeOK, Counted
  PROVE  IsFiniteSet(dropped) /\ Cardinality(dropped) \in Nat
  <1>1. cseq \in Nat
    BY BoundsAssumption DEF TypeOK
  <1>2. IsFiniteSet(1 .. cseq)
    BY <1>1, FS_Interval
  <1> QED
    BY <1>2, FS_Subset, FS_CardinalityType DEF Counted

\* Requests are numbers, wherever they are held.
LEMMA RequestsAreNumbers ==
  ASSUME TypeOK
  PROVE  /\ cseq \in Nat /\ Len(stream) \in Nat /\ Len(inbox) \in Nat
         /\ \A i \in 1 .. Len(stream) : stream[i].of \in Nat
         /\ \A k \in 1 .. Len(inbox) : inbox[k] \in Nat
  <1>1. Calls \subseteq Nat /\ cseq \in Nat
    BY BoundsAssumption DEF Calls, TypeOK
  <1>2. \A i \in 1 .. Len(stream) : stream[i].of \in Calls
    BY BlockAt
  <1>3. \A k \in 1 .. Len(inbox) : inbox[k] \in Calls
    BY DEF TypeOK
  <1>4. Len(stream) \in Nat /\ Len(inbox) \in Nat
    BY DEF TypeOK
  <1> QED
    BY <1>1, <1>2, <1>3, <1>4

\* Every step gives up at most the running call.
LEMMA CountedStep == Typed /\ Counted /\ [Next]_vars => Counted'
  <1> SUFFICES ASSUME Typed, Counted, [Next]_vars PROVE Counted'
    OBVIOUS
  <1>t. cseq \in Nat /\ (phase # "idle" => cseq \in 1 .. cseq)
    BY BoundsAssumption DEF Typed, TypeOK, Calls
  <1>1. CASE StartSend
    BY <1>1, <1>t DEF StartSend, Counted
  <1>2. CASE GiveUp
    BY <1>2, <1>t DEF GiveUp, Counted
  <1>3. CASE UNCHANGED <<cseq, dropped>> /\ (phase = "idle" => phase' = "idle")
    BY <1>3 DEF Counted
  <1> QED
    BY <1>1, <1>2, <1>3
    DEF Next, vars, client, network, Written, ReadLength, ReadMore, ReadOk, ReadUnparsable,
        ReadUndecryptable, ReadGarbage, Fail, Close, Answer, HangUp, Decrypts, Consume

\* A call that is given up is counted as such instead of as running.
LEMMA GiveUpCounts ==
  ASSUME TypeOK, Counted, GiveUp
  PROVE  Without' = Without
  <1>1. /\ phase # "idle" /\ phase' = "idle"
        /\ dropped' = dropped \cup {cseq} /\ cseq \notin dropped
    BY DEF GiveUp, Counted
  <1>2. Cardinality(dropped') = Cardinality(dropped) + 1
    BY <1>1, DroppedFinite, FS_AddElement
  <1> QED
    BY <1>1, <1>2, DroppedFinite DEF Without, Running

\* A call that takes the end of a response leaves only later ones.
LEMMA EndTaken ==
  ASSUME Typed, Ordered, Counted, Ahead, ReadOk \/ ReadUnparsable
  PROVE  Ahead'
  <1>t. TypeOK
    BY DEF Typed
  <1>1. /\ 1 \in 1 .. Len(stream) /\ Head(stream) = stream[1] /\ Len(stream) \in Nat
        /\ Len(stream') = Len(stream) - 1
        /\ \A i \in 1 .. Len(stream) - 1 : stream'[i] = stream[i + 1]
    <2>1. stream # <<>> /\ stream' = Tail(stream) /\ stream \in Seq(Blocks)
      BY <1>t DEF ReadOk, ReadUnparsable, Decrypts, Consume, TypeOK
    <2> QED
      BY <2>1, Rest
  <1>2. stream[1].last
    <2>1. Collected[Len(Collected)] = Head(stream)
      BY <1>t DEF Collected, TypeOK
    <2> QED
      BY <1>1, <2>1 DEF ReadOk, ReadUnparsable, IsWhole
  <1>3. /\ UNCHANGED <<cseq, dropped, inbox>>
        /\ phase # "idle" /\ phase' = "idle"
    BY DEF ReadOk, ReadUnparsable, Decrypts, Consume
  <1>4. Without = Without' + 1 /\ Without' \in Nat
    BY <1>t, <1>3, DroppedFinite DEF Without, Running
  <1>5. /\ cseq \in Nat
        /\ \A i \in 1 .. Len(stream) : stream[i].of \in Nat
        /\ \A k \in 1 .. Len(inbox) : inbox[k] \in Nat
    BY <1>t, RequestsAreNumbers
  <1>6. cseq < stream[1].of + Without
    BY <1>1 DEF Ahead
  <1>7. ASSUME NEW i \in 1 .. Len(stream')
        PROVE  cseq' < stream'[i].of + Without'
    <2>1. i + 1 \in 1 .. Len(stream) /\ 1 < i + 1 /\ stream'[i] = stream[i + 1]
      BY <1>1
    <2>2. stream[1].of < stream[i + 1].of
      BY <1>1, <1>2, <2>1 DEF Ordered, StreamOrdered
    <2> QED
      BY <1>1, <1>3, <1>4, <1>5, <1>6, <2>1, <2>2
  <1>8. ASSUME NEW k \in 1 .. Len(inbox')
        PROVE  cseq' < inbox'[k] + Without'
    <2>1. stream[1].of < inbox[k]
      BY <1>1, <1>3 DEF Ordered, InboxOrdered
    <2> QED
      BY <1>1, <1>3, <1>4, <1>5, <1>6, <2>1
  <1> QED
    BY <1>7, <1>8 DEF Ahead

\* What leaves the stream, at either end, changes nothing for the rest.
LEMMA AheadOfFewer ==
  ASSUME Ahead, UNCHANGED <<cseq, Without>>,
         \A i \in 1 .. Len(stream') : \E j \in 1 .. Len(stream) : stream'[i] = stream[j],
         \A k \in 1 .. Len(inbox') : \E l \in 1 .. Len(inbox) : inbox'[k] = inbox[l]
  PROVE  Ahead'
  BY DEF Ahead

\* Every step keeps what is to come within the lag, or ends the connection for good.
LEMMA LaggingStep ==
  Typed /\ Numbered /\ Ordered /\ Damaged /\ Counted /\ Lagging /\ [Next]_vars => Lagging'
  <1> SUFFICES ASSUME Typed, Numbered, Ordered, Damaged, Counted, Lagging, [Next]_vars
               PROVE  Lagging'
    OBVIOUS
  <1>t. TypeOK
    BY DEF Typed
  <1>n. /\ cseq \in Nat /\ Without \in Nat /\ Len(stream) \in Nat /\ Len(inbox) \in Nat
        /\ \A i \in 1 .. Len(stream) : stream[i].of \in Nat
        /\ \A k \in 1 .. Len(inbox) : inbox[k] \in Nat
    BY <1>t, RequestsAreNumbers, DroppedFinite DEF Without, Running
  <1>1. CASE BlockLost
    BY <1>1, LostStep DEF Lagging
  <1>2. CASE receiver = "reset"
    BY <1>2
    DEF Lagging, Next, vars, client, network, StartSend, Written, ReadLength, ReadMore, ReadOk,
        ReadUnparsable, ReadUndecryptable, ReadGarbage, Fail, GiveUp, Close, Answer, HangUp,
        Decrypts, Consume
  <1>3. CASE ~BlockLost /\ receiver # "reset"
    <2>1. Ahead
      BY <1>3 DEF Lagging
    <2>2. ~ReadUndecryptable /\ phase # "garbage"
      BY <1>3, <1>t, UnreadableIsLost
    <2>3. CASE StartSend
      <3>1. /\ cseq' = cseq + 1 /\ Without' = Without + 1
            /\ UNCHANGED <<stream, inbox>>
        BY <2>3, <1>t, DroppedFinite DEF StartSend, network, Without, Running
      <3> QED
        BY <1>n, <2>1, <3>1 DEF Ahead, Lagging
    <2>4. CASE Written
      <3>1. /\ UNCHANGED <<cseq, Without, stream>> /\ Without >= 1
            /\ inbox' \in {inbox, Append(inbox, cseq)}
        BY <2>4, <1>t, DroppedFinite DEF Written, Without, Running
      <3>2. \A k \in 1 .. Len(inbox') : cseq < inbox'[k] + Without
        <4>1. CASE inbox' = inbox
          BY <2>1, <4>1 DEF Ahead
        <4>2. CASE inbox' = Append(inbox, cseq)
          <5>1. /\ Len(inbox') = Len(inbox) + 1
                /\ \A k \in 1 .. Len(inbox) : inbox'[k] = inbox[k]
                /\ inbox'[Len(inbox) + 1] = cseq
            BY <1>t, <4>2 DEF TypeOK
          <5>2. \A k \in 1 .. Len(inbox') : k \in 1 .. Len(inbox) \/ k = Len(inbox) + 1
            BY <1>n, <5>1
          <5> QED
            BY <1>n, <2>1, <3>1, <5>1, <5>2 DEF Ahead
        <4> QED
          BY <3>1, <4>1, <4>2
      <3> QED
        BY <2>1, <3>1, <3>2 DEF Ahead, Lagging
    <2>5. CASE ReadMore
      <3>1. UNCHANGED <<cseq, Without, inbox>>
        BY <2>5 DEF ReadMore, Decrypts, Consume, Without, Running
      <3>2. \A i \in 1 .. Len(stream') : \E j \in 1 .. Len(stream) : stream'[i] = stream[j]
        <4>1. stream # <<>> /\ stream' = Tail(stream)
          BY <2>5 DEF ReadMore, Decrypts, Consume
        <4>2. /\ Len(stream') = Len(stream) - 1
              /\ \A i \in 1 .. Len(stream) - 1 : stream'[i] = stream[i + 1]
          BY <1>t, <4>1, Rest DEF TypeOK
        <4>3. \A i \in 1 .. Len(stream') :
                i + 1 \in 1 .. Len(stream) /\ stream'[i] = stream[i + 1]
          BY <1>n, <4>2
        <4> QED
          BY <4>3
      <3> QED
        BY <2>1, <3>1, <3>2, AheadOfFewer DEF Lagging
    <2>6. CASE ReadOk \/ ReadUnparsable
      BY <2>1, <2>6, EndTaken DEF Lagging
    <2>7. CASE Fail
      <3>1. CASE phase = "write"
        BY <2>7, <3>1 DEF Fail, Lagging
      <3>2. CASE phase # "write"
        <4>1. stream' = <<>> /\ inbox' = <<>>
          BY <2>7, <3>2 DEF Fail, Damaged
        <4> QED
          BY <4>1 DEF Ahead, Lagging
      <3> QED
        BY <3>1, <3>2
    <2>8. CASE GiveUp
      <3>1. UNCHANGED <<stream, inbox, cseq>>
        BY <2>2, <2>8 DEF GiveUp
      <3>2. UNCHANGED Without
        BY <1>t, <2>8, GiveUpCounts
      <3> QED
        BY <2>1, <3>1, <3>2, AheadOfFewer DEF Lagging
    <2>9. CASE ReadLength \/ Close \/ UNCHANGED vars
      BY <2>1, <2>9
      DEF ReadLength, Close, vars, client, network, Ahead, Lagging, Without, Running
    <2>10. CASE Answer
      <3>1. UNCHANGED <<cseq, Without>>
        BY <2>10 DEF Answer, client, Without, Running
      <3>2. PICK n \in 1 .. MaxBlocks : stream' = stream \o Response(Head(inbox), n)
        BY <2>10 DEF Answer
      <3> DEFINE R == Response(Head(inbox), n)
      <3>3. n \in Nat /\ sealed \in Nat /\ stream \in Seq(Blocks)
        BY <3>2, <1>t, BoundsAssumption DEF TypeOK
      <3>4. /\ 1 \in 1 .. Len(inbox) /\ Head(inbox) = inbox[1] /\ Head(inbox) \in Calls
            /\ Len(inbox') = Len(inbox) - 1
            /\ \A k \in 1 .. Len(inbox) - 1 : inbox'[k] = inbox[k + 1]
        BY <2>10, <1>t, Rest DEF Answer, TypeOK
      <3>5. /\ R \in Seq(Blocks) /\ Len(R) = n
            /\ \A i \in 1 .. n : R[i].of = inbox[1]
        <4>1. n \in Nat /\ sealed \in Nat /\ Head(inbox) \in Calls
          BY <3>3, <3>4
        <4>2. /\ R \in Seq(Blocks) /\ Len(R) = n
              /\ \A i \in 1 .. n : R[i].of = Head(inbox)
          BY <4>1, ResponseBlocks
        <4> QED
          BY <3>4, <4>2
      <3> HIDE DEF R
      <3>6. /\ Len(stream') = Len(stream) + n
            /\ \A i \in 1 .. Len(stream) : stream'[i] = stream[i]
            /\ \A i \in Len(stream) + 1 .. Len(stream) + n : stream'[i] = R[i - Len(stream)]
        <4>1. stream' = stream \o R
          BY <3>2 DEF R
        <4> QED
          BY <3>3, <3>5, <4>1, Joined
      <3>7. ASSUME NEW i \in 1 .. Len(stream') PROVE cseq < stream'[i].of + Without
        <4>1. CASE i \in 1 .. Len(stream)
          BY <2>1, <3>6, <4>1 DEF Ahead
        <4>2. CASE i \notin 1 .. Len(stream)
          <5>1. i \in Len(stream) + 1 .. Len(stream) + n /\ i - Len(stream) \in 1 .. n
            BY <1>n, <3>3, <3>6, <4>2
          <5>2. stream'[i].of = inbox[1]
            BY <3>5, <3>6, <5>1
          <5> QED
            BY <2>1, <3>4, <5>2 DEF Ahead
        <4> QED
          BY <4>1, <4>2
      <3>8. \A k \in 1 .. Len(inbox') : cseq < inbox'[k] + Without
        <4>1. \A k \in 1 .. Len(inbox') :
                k + 1 \in 1 .. Len(inbox) /\ inbox'[k] = inbox[k + 1]
          BY <1>n, <3>4
        <4> QED
          BY <2>1, <4>1 DEF Ahead
      <3> QED
        BY <3>1, <3>7, <3>8 DEF Ahead, Lagging
    <2>11. CASE HangUp
      <3>1. UNCHANGED <<cseq, Without>> /\ inbox' = <<>>
        BY <2>11 DEF HangUp, client, Without, Running
      <3>2. PICK n \in 0 .. Len(stream) : stream' = SubSeq(stream, 1, n)
        BY <2>11 DEF HangUp
      <3>3. Len(stream') = n /\ \A i \in 1 .. n : i \in 1 .. Len(stream) /\ stream'[i] = stream[i]
        BY <3>2, <1>t, <1>n, Prefix DEF TypeOK
      <3> QED
        BY <2>1, <3>1, <3>3, AheadOfFewer DEF Lagging
    <2> QED
      BY <2>2, <2>3, <2>4, <2>5, <2>6, <2>7, <2>8, <2>9, <2>10, <2>11
      DEF Next, ReadGarbage
  <1> QED
    BY <1>1, <1>2, <1>3
\* How far the response to a new answer lags behind is counted by what was given up before.
LEMMA LagStep ==
  Typed /\ Numbered /\ Ordered /\ Damaged /\ Counted /\ Lagging /\ LagIsDropped /\ [Next]_vars
    => LagIsDropped'
  <1> SUFFICES ASSUME Typed, Numbered, Ordered, Damaged, Counted, Lagging, LagIsDropped,
                      [Next]_vars,
                      NEW c \in Calls, answers'[c] # NoAnswer
               PROVE  c - answers'[c] <= Cardinality({d \in dropped' : d < c})
    BY DEF LagIsDropped
  <1>t. TypeOK /\ TypeOK'
    BY TypeStep DEF Typed
  <1>n. c \in Nat /\ cseq \in Nat /\ answers'[c] \in Nat
    BY <1>t, BoundsAssumption DEF TypeOK, Calls
  <1>d. /\ IsFiniteSet(dropped) /\ Cardinality(dropped) \in Nat
        /\ IsFiniteSet(dropped') /\ Cardinality(dropped') \in Nat
    <2>1. dropped' \subseteq 1 .. cseq' /\ cseq' \in Nat
      BY <1>t, CountedStep, BoundsAssumption DEF Counted, TypeOK
    <2>2. IsFiniteSet(dropped')
      <3>1. IsFiniteSet(1 .. cseq')
        BY <2>1, FS_Interval
      <3> QED
        BY <2>1, <3>1, FS_Subset
    <2> QED
      BY <1>t, <2>2, DroppedFinite, FS_CardinalityType
  <1>1. CASE answers'[c] = answers[c]
    <2>1. c - answers'[c] <= Cardinality({d \in dropped : d < c})
      BY <1>1 DEF LagIsDropped
    <2>2. dropped \subseteq dropped'
      BY DEF Next, vars, client, network, StartSend, Written, ReadLength, ReadMore, ReadOk,
             ReadUnparsable, ReadUndecryptable, ReadGarbage, Fail, GiveUp, Close, Answer, HangUp,
             Decrypts, Consume
    <2> DEFINE Before == {d \in dropped : d < c}
               After  == {d \in dropped' : d < c}
    <2>3. Before \subseteq After /\ After \subseteq dropped'
      BY <2>2
    <2>4. IsFiniteSet(After)
      BY <1>d, <2>3, FS_Subset
    <2>5. /\ Cardinality(Before) <= Cardinality(After)
          /\ Cardinality(Before) \in Nat /\ Cardinality(After) \in Nat
      BY <2>3, <2>4, FS_Subset, FS_CardinalityType
    <2> HIDE DEF Before, After
    <2>6. c - answers'[c] <= Cardinality(Before)
      BY <2>1 DEF Before
    <2>7. c - answers'[c] <= Cardinality(After)
      BY <1>n, <2>5, <2>6
    <2> QED
      BY <2>7 DEF After
  <1>2. CASE answers'[c] # answers[c]
    <2>1. ReadOk /\ c = cseq
      <3>1. ReadOk
        BY <1>2
        DEF Next, vars, client, network, StartSend, Written, ReadLength, ReadMore,
            ReadUnparsable, ReadUndecryptable, ReadGarbage, Fail, GiveUp, Close, Answer, HangUp,
            Decrypts, Consume
      <3>2. answers' = [answers EXCEPT ![cseq] = Head(stream).of]
        BY <3>1 DEF ReadOk
      <3> QED
        BY <1>2, <1>t, <3>1, <3>2 DEF TypeOK
    <2>2. /\ 1 \in 1 .. Len(stream)
          /\ answers'[c] = stream[1].of
          /\ phase # "idle" /\ dropped' = dropped
      <3>1. stream # <<>> /\ stream \in Seq(Blocks)
        BY <2>1, <1>t DEF ReadOk, Decrypts, Consume, TypeOK
      <3>2. 1 \in 1 .. Len(stream) /\ Head(stream) = stream[1]
        BY <3>1, Rest
      <3> QED
        BY <2>1, <3>2, <1>t DEF ReadOk, Decrypts, Consume, TypeOK
    <2>3. Ahead
      BY <2>1, <1>t, NoneOpens DEF Lagging, Damaged, ReadOk, Decrypts, Consume
    <2>4. cseq < answers'[c] + Cardinality(dropped) + 1
      BY <2>2, <2>3, <1>n, <1>d DEF Ahead, Without, Running
    <2>5. \A d \in dropped : d < c
      <3> SUFFICES ASSUME NEW d \in dropped PROVE d < c
        OBVIOUS
      <3>1. d \in 1 .. cseq /\ d # cseq
        BY <2>2 DEF Counted
      <3> QED
        BY <2>1, <3>1, <1>n
    <2>6. {d \in dropped' : d < c} = dropped
      BY <2>2, <2>5
    <2>7. c - answers'[c] <= Cardinality(dropped)
      BY <2>1, <2>4, <1>n, <1>d
    <2> QED
      BY <2>6, <2>7
  <1> QED
    BY <1>1, <1>2

\* A response reaches a call late by at most the number of calls given up before it, for
\* every number of requests and of blocks: the lag never grows by itself.
THEOREM LagStaysDropped == Spec => []LagIsDropped
  <1>1. Init => Typed /\ Numbered /\ Ordered /\ Damaged /\ Counted /\ Lagging /\ LagIsDropped
    BY TypeInit, NumberedInit, OrderedInit, DamagedInit, LaggingInit
  <1>2. Typed /\ Numbered /\ Ordered /\ Damaged /\ Counted /\ Lagging /\ LagIsDropped
          /\ [Next]_vars
          => (Typed /\ Numbered /\ Ordered /\ Damaged /\ Counted /\ Lagging /\ LagIsDropped)'
    BY TypeStep, NumberedStep, OrderedStep, DamagedStep, CountedStep, LaggingStep, LagStep
  <1> QED
    BY <1>1, <1>2, PTL DEF Spec

-----------------------------------------------------------------------------
(* In step. *)

\* Nothing but the answer to the running call is ever on its way.
Quiet   == inbox = <<>> /\ stream = <<>> /\ taken = <<>>
Asked   == inbox = <<cseq>> /\ stream = <<>> /\ taken = <<>>
Arrives == inbox = <<>> /\ stream # <<>>

\* The blocks of the answer, from the one the cipher waits for to its last; the part that
\* was taken begins with its first.
Arriving ==
  /\ sealed = opened + Len(stream)
  /\ \A i \in 1 .. Len(stream) :
       /\ stream[i].of = cseq
       /\ stream[i].nonce = opened + i - 1
       /\ stream[i].last = (i = Len(stream))
  /\ stream # <<>> /\ taken = <<>> => stream[1].first
  /\ taken # <<>> => taken[1].first

\* What InStepUntilDropped takes to be inductive.
InStep ==
  dropped = {} /\ receiver = "follows" =>
    /\ InStepUntilDropped
    /\ phase # "garbage"
    /\ cut = (phase = "block")
    /\ Arriving
    /\ phase \in {"idle", "write"} => Quiet
    /\ phase \in {"length", "block"} => Asked \/ Arrives

\* At the start nothing is on its way.
LEMMA InStepInit == Init => InStep
  <1> SUFFICES ASSUME Init PROVE InStep
    OBVIOUS
  <1>1. Len(stream) = 0 /\ stream = <<>> /\ taken = <<>> /\ sealed = 0 /\ opened = 0
    BY DEF Init
  <1>2. InStepUntilDropped
    BY DEF Init, InStepUntilDropped
  <1>3. Arriving
    BY <1>1 DEF Arriving
  <1> QED
    BY <1>1, <1>2, <1>3 DEF Init, InStep, Quiet

\* What a block read off a connection in step is, and what it leaves.
LEMMA ReadInStep ==
  ASSUME Typed, InStep, dropped = {}, receiver = "follows", Consume
  PROVE  /\ Head(stream).nonce = opened /\ Head(stream).of = cseq
         /\ Head(stream).last = (Len(stream) = 1)
         /\ Collected[1].first
         /\ Collected[Len(Collected)] = Head(stream) /\ Len(Collected) >= 1
         /\ Len(Collected) \in Nat /\ Collected # <<>>
         /\ inbox = <<>>
  <1>t. TypeOK
    BY DEF Typed
  <1>1. /\ 1 \in 1 .. Len(stream) /\ Len(stream) \in Nat
        /\ Head(stream) = stream[1]
        /\ stream # <<>> /\ phase = "block"
    BY <1>t, Rest DEF Consume, TypeOK
  <1>2. Arriving /\ inbox = <<>>
    BY <1>1 DEF InStep, Asked, Arrives
  <1>3. Head(stream).nonce = opened /\ Head(stream).of = cseq
    BY <1>1, <1>2, <1>t DEF Arriving, TypeOK
  <1>4. Head(stream).last = (Len(stream) = 1)
    BY <1>1, <1>2 DEF Arriving
  <1>5. /\ Len(Collected) = Len(taken) + 1 /\ Len(taken) \in Nat
        /\ Collected[Len(Collected)] = Head(stream)
        /\ taken # <<>> => Collected[1] = taken[1]
        /\ taken = <<>> => Collected[1] = Head(stream)
    BY <1>t DEF Collected, TypeOK
  <1>6. Collected[1].first
    BY <1>1, <1>2, <1>5 DEF Arriving
  <1> QED
    BY <1>2, <1>3, <1>4, <1>5, <1>6
\* Every step of a connection on which nothing was given up stays in step.
LEMMA InStepStep == Typed /\ InStep /\ [Next]_vars => InStep'
  <1> SUFFICES ASSUME Typed, InStep, [Next]_vars,
                      dropped' = {}, receiver' = "follows"
               PROVE  /\ InStepUntilDropped'
                      /\ phase' # "garbage"
                      /\ cut' = (phase' = "block")
                      /\ Arriving'
                      /\ phase' \in {"idle", "write"} => Quiet'
                      /\ phase' \in {"length", "block"} => Asked' \/ Arrives'
    BY DEF InStep
  <1>t. /\ TypeOK
        /\ cseq \in Nat /\ sealed \in Nat /\ opened \in Nat
        /\ Len(stream) \in Nat
        /\ phase # "idle" => cseq \in Calls
    BY BoundsAssumption DEF Typed, TypeOK
  <1>r. receiver = "follows"
    BY DEF Next, vars, client, network, StartSend, Written, ReadLength, ReadMore, ReadOk,
           ReadUnparsable, ReadUndecryptable, ReadGarbage, Fail, GiveUp, Close, Answer, HangUp,
           Decrypts, Consume
  <1>d. dropped = {}
    BY DEF Next, vars, client, network, StartSend, Written, ReadLength, ReadMore, ReadOk,
           ReadUnparsable, ReadUndecryptable, ReadGarbage, Fail, GiveUp, Close, Answer, HangUp,
           Decrypts, Consume
  <1>i. /\ InStepUntilDropped
        /\ phase # "garbage"
        /\ cut = (phase = "block")
        /\ Arriving
        /\ phase \in {"idle", "write"} => Quiet
        /\ phase \in {"length", "block"} => Asked \/ Arrives
    BY <1>r, <1>d DEF InStep
  <1>c. \A c \in 1 .. cseq : answers[c] = c \/ (c = cseq /\ phase # "idle")
    BY <1>i, <1>r, <1>d DEF InStepUntilDropped
  <1>e. stream = <<>> => Len(stream) = 0
    OBVIOUS
  <1>1. CASE StartSend
    <2>1. /\ phase = "idle" /\ phase' = "write" /\ cseq' = cseq + 1
          /\ UNCHANGED <<inbox, stream, cut, opened, sealed, answers>> /\ taken' = <<>>
      BY <1>1 DEF StartSend, network
    <2>2. Quiet /\ Quiet'
      BY <1>i, <2>1 DEF Quiet
    <2>3. \A c \in 1 .. cseq' : c \in 1 .. cseq \/ c = cseq'
      BY <1>t, <2>1
    <2>4. InStepUntilDropped'
      BY <1>c, <2>1, <2>3 DEF InStepUntilDropped
    <2>5. Arriving'
      BY <1>i, <1>e, <2>1, <2>2 DEF Quiet, Arriving
    <2> QED
      BY <1>i, <2>1, <2>2, <2>4, <2>5
  <1>2. CASE Written
    <2>1. /\ phase = "write" /\ phase' = "length"
          /\ UNCHANGED <<cseq, stream, cut, opened, sealed, answers, taken>>
          /\ inbox' = Append(inbox, cseq)
      BY <1>2, <1>r DEF Written
    <2>2. Quiet
      BY <1>i, <2>1
    <2>3. inbox' = <<cseq>>
      BY <2>1, <2>2 DEF Quiet
    <2>4. InStepUntilDropped'
      BY <1>c, <2>1 DEF InStepUntilDropped
    <2>5. Arriving'
      BY <1>i, <2>1 DEF Arriving
    <2> QED
      BY <1>i, <2>1, <2>2, <2>3, <2>4, <2>5 DEF Quiet, Asked
  <1>3. CASE ReadLength
    <2>1. /\ phase = "length" /\ ~cut /\ phase' = "block" /\ cut' = TRUE
          /\ UNCHANGED <<cseq, stream, inbox, opened, sealed, answers, taken>>
      BY <1>3, <1>i DEF ReadLength, network
    <2>2. InStepUntilDropped'
      BY <1>c, <2>1 DEF InStepUntilDropped
    <2>3. Arriving'
      BY <1>i, <2>1 DEF Arriving
    <2>4. Asked' \/ Arrives'
      BY <1>i, <2>1 DEF Asked, Arrives
    <2> QED
      BY <2>1, <2>2, <2>3, <2>4
  <1>4. CASE Consume
    <2>1. /\ Head(stream).nonce = opened /\ Head(stream).of = cseq
          /\ Head(stream).last = (Len(stream) = 1)
          /\ Collected[1].first
          /\ Collected[Len(Collected)] = Head(stream) /\ Len(Collected) >= 1
          /\ Len(Collected) \in Nat /\ Collected # <<>>
          /\ inbox = <<>>
      BY <1>4, <1>r, <1>d, ReadInStep
    <2>2. IsWhole(Collected) <=> Len(stream) = 1
      <3>1. Collected[Len(Collected)].last <=> Len(stream) = 1
        BY <2>1
      <3>2. \E i \in 1 .. Len(Collected) : Collected[i].first
        <4>1. 1 \in 1 .. Len(Collected)
          BY <2>1
        <4> QED
          BY <2>1, <4>1
      <3> QED
        BY <3>1, <3>2 DEF IsWhole
    <2>3. ReadMore \/ ReadOk
      <3>1. phase = "block" /\ stream' # stream
        BY <1>4, <1>t, Rest DEF Consume, TypeOK
      <3> QED
        BY <2>1, <3>1, <1>d
        DEF Next, vars, client, network, StartSend, Written, ReadLength, ReadUnparsable,
            ReadUndecryptable, ReadGarbage, Fail, GiveUp, Close, Answer, HangUp
    <2>4. /\ phase = "block" /\ stream # <<>> /\ cut' = FALSE
          /\ opened' = opened + 1
          /\ UNCHANGED <<cseq, inbox, sealed>>
      BY <2>3 DEF ReadMore, ReadOk, Decrypts, Consume
    <2>5. /\ 1 \in 1 .. Len(stream)
          /\ Len(stream') = Len(stream) - 1
          /\ \A i \in 1 .. Len(stream) - 1 : stream'[i] = stream[i + 1]
          /\ stream' \in Seq(Blocks)
      <3>1. stream # <<>> /\ stream' = Tail(stream) /\ stream \in Seq(Blocks)
        BY <1>4, <1>t DEF Consume, TypeOK
      <3> QED
        BY <3>1, Rest
    <2>6. CASE ReadMore
      <3>1. Len(stream) # 1 /\ phase' = "length" /\ taken' = Collected /\ answers' = answers
        BY <2>2, <2>6 DEF ReadMore
      <3>2. stream' # <<>> /\ Len(stream') \in Nat
        BY <2>5, <3>1, <1>t
      <3>3. \A i \in 1 .. Len(stream') :
              /\ i + 1 \in 1 .. Len(stream) /\ stream'[i] = stream[i + 1]
              /\ (i + 1 = Len(stream)) = (i = Len(stream'))
              /\ i \in Nat
        BY <2>5, <1>t
      <3>4. \A i \in 1 .. Len(stream') :
              /\ stream'[i].of = cseq'
              /\ stream'[i].nonce = opened' + i - 1
              /\ stream'[i].last = (i = Len(stream'))
        <4> SUFFICES ASSUME NEW i \in 1 .. Len(stream')
                     PROVE  /\ stream'[i].of = cseq'
                            /\ stream'[i].nonce = opened' + i - 1
                            /\ stream'[i].last = (i = Len(stream'))
          OBVIOUS
        <4>1. /\ stream'[i].of = cseq
              /\ stream'[i].nonce = opened + (i + 1) - 1
              /\ stream'[i].last = (i + 1 = Len(stream))
          BY <1>i, <3>3 DEF Arriving
        <4>2. opened + (i + 1) - 1 = opened' + i - 1
          BY <1>t, <2>4, <3>3
        <4> QED
          BY <2>4, <3>3, <4>1, <4>2
      <3>5. sealed' = opened' + Len(stream')
        BY <1>i, <1>t, <2>4, <2>5 DEF Arriving
      <3>6. Arriving'
        BY <2>1, <3>1, <3>4, <3>5 DEF Arriving
      <3>7. InStepUntilDropped'
        BY <1>c, <2>4, <3>1 DEF InStepUntilDropped
      <3> QED
        BY <2>1, <2>4, <3>1, <3>2, <3>6, <3>7 DEF Arrives
    <2>7. CASE ReadOk
      <3>1. /\ Len(stream) = 1 /\ phase' = "idle" /\ taken' = <<>>
            /\ answers' = [answers EXCEPT ![cseq] = Head(stream).of]
        BY <2>2, <2>7 DEF ReadOk
      <3>2. stream' = <<>> /\ Len(stream') = 0
        BY <2>5, <3>1
      <3>3. Arriving'
        BY <1>i, <1>t, <2>4, <3>1, <3>2 DEF Arriving
      <3>4. Quiet'
        BY <2>1, <2>4, <3>1, <3>2 DEF Quiet
      <3>5. \A c \in 1 .. cseq' : answers'[c] = c
        <4>1. \A c \in 1 .. cseq : c \in Calls
          BY <1>t, BoundsAssumption DEF TypeOK, Calls
        <4> QED
          BY <1>c, <1>t, <2>1, <2>4, <3>1, <4>1 DEF TypeOK
      <3>6. InStepUntilDropped'
        BY <3>5 DEF InStepUntilDropped
      <3> QED
        BY <2>4, <3>1, <3>3, <3>4, <3>6
    <2> QED
      BY <2>3, <2>6, <2>7
  <1>5. CASE Answer
    <2>1. /\ inbox # <<>> /\ inbox' = Tail(inbox)
          /\ UNCHANGED <<cseq, phase, cut, opened, taken, answers>>
      BY <1>5 DEF Answer, client
    <2>2. Asked /\ phase \in {"length", "block"}
      BY <1>i, <1>t, <2>1 DEF Quiet, Arrives, TypeOK, Phases
    <2>3. inbox' = <<>> /\ Head(inbox) = cseq
      BY <2>1, <2>2 DEF Asked
    <2>4. PICK n \in 1 .. MaxBlocks : stream' = stream \o Response(cseq, n) /\ sealed' = sealed + n
      BY <1>5, <2>3 DEF Answer
    <2> DEFINE R == Response(cseq, n)
    <2>5. n \in Nat /\ n >= 1 /\ cseq \in Calls
      BY <2>2, <2>4, <1>t, BoundsAssumption
    <2>6. R \in Seq(Blocks) /\ Len(R) = n
      BY <2>5, <1>t, ResponseBlocks
    <2>7. \A i \in 1 .. n : /\ R[i].of = cseq
                            /\ R[i].first = (i = 1)
                            /\ R[i].last = (i = n)
                            /\ R[i].nonce = sealed + i - 1
      BY DEF Response
    <2> HIDE DEF R
    <2>8. stream' = R
      BY <2>2, <2>4, <2>6 DEF Asked, R
    <2>9. sealed = opened
      BY <1>i, <1>e, <1>t, <2>2 DEF Asked, Arriving
    <2>10. stream' # <<>> /\ stream'[1].first
      <3>1. 1 \in 1 .. n /\ Len(stream') # 0
        BY <2>5, <2>6, <2>8
      <3>2. R[1].first
        BY <3>1, <2>7
      <3> QED
        BY <2>6, <2>8, <3>1, <3>2
    <2>11. Arriving'
      <3>1. taken' = <<>> /\ Len(stream') = n
        BY <2>1, <2>2, <2>6, <2>8 DEF Asked
      <3>2. sealed' = opened' + Len(stream')
        BY <1>t, <2>1, <2>4, <2>9, <3>1
      <3> QED
        BY <2>1, <2>7, <2>8, <2>9, <2>10, <3>1, <3>2 DEF Arriving
    <2>12. InStepUntilDropped'
      BY <1>c, <2>1 DEF InStepUntilDropped
    <2> QED
      BY <1>i, <2>1, <2>2, <2>3, <2>10, <2>11, <2>12 DEF Arrives
  <1>6. CASE Close \/ UNCHANGED vars
    BY <1>6, <1>i, <1>c
    DEF Close, vars, client, network, InStepUntilDropped, Arriving, Quiet, Asked, Arrives
  <1>7. ~Fail /\ ~GiveUp /\ ~HangUp /\ ~ReadGarbage
    BY <1>i, <1>r, <1>d DEF Fail, GiveUp, HangUp, ReadGarbage
  <1> QED
    BY <1>1, <1>2, <1>3, <1>4, <1>5, <1>6, <1>7
    DEF Next, ReadMore, ReadOk, ReadUnparsable, ReadUndecryptable, Decrypts

\* As long as nothing was given up, every call gets the response to its own request, for
\* every number of requests and however many blocks the responses have.
THEOREM StaysInStep == Spec => []InStepUntilDropped
  <1>1. Init => Typed /\ InStep
    BY TypeInit, InStepInit
  <1>2. Typed /\ InStep /\ [Next]_vars => (Typed /\ InStep)'
    BY TypeStep, InStepStep
  <1>3. InStep => InStepUntilDropped
    BY DEF InStep, InStepUntilDropped
  <1> QED
    BY <1>1, <1>2, <1>3, PTL DEF Spec
=============================================================================
