--------------------------- MODULE PairSetup_proofs ---------------------------
(***************************************************************************)
(* For any number of clients and PINs: a connection with a cipher shares   *)
(* its keys with the receiver, and starts in step.                         *)
(***************************************************************************)
EXTENDS PairSetup, TLAPS

-----------------------------------------------------------------------------
(* The inductive invariant: of the one request a client has out, either    *)
(* the receiver still has it or its answer is on the way.                  *)

Nothing(c) == asked[c] = <<>> /\ answered[c] = <<>>

\* An answer to M1 belongs to an exchange of this client; one to M3 with a proof comes
\* from the secret of which the receiver has taken the keys.
Sound(c, a) ==
  /\ a.to = "m2" => a.of.exchange = c
  /\ a.to = "m4" /\ "proof" \in a.meets => a.of = receiverKeys[c] /\ a.of.pin = receiverPin

Due(c, what) ==
  \/ asked[c] = <<what>> /\ answered[c] = <<>>
  \/ asked[c] = <<>> /\ \E a \in Answers : answered[c] = <<a>> /\ a.to = what /\ Sound(c, a)

Keyed(c) ==
  /\ stage[c] = "Complete"
  /\ cipher[c] = Secret(pin[c], c, c)
  /\ receiverKeys[c] = cipher[c]
  /\ receiverPin = pin[c]

Unkeyed(c) == stage[c] # "Complete" /\ cipher[c] = NoSecret

\* One disjunct for each place of connect_with_pin.
Attempt(c) ==
  \/ pc[c] = "failed" /\ Unkeyed(c)
  \/ pc[c] = "start" /\ Unkeyed(c) /\ Nothing(c)
  \/ pc[c] = "info" /\ Unkeyed(c) /\ Due(c, "info")
  \/ pc[c] = "m2" /\ Unkeyed(c) /\ Due(c, "m2")
  \/ pc[c] = "m4" /\ Unkeyed(c) /\ Due(c, "m4") /\ secret[c] = Secret(pin[c], c, c)
  \/ pc[c] = "probe" /\ Keyed(c) /\ Due(c, "probe")
  \/ pc[c] = "paired" /\ Keyed(c) /\ (Nothing(c) \/ Due(c, "probe"))

Attempts == \A c \in Clients : Attempt(c)

IInv == TypeOK /\ Attempts

-----------------------------------------------------------------------------
(* Small facts. *)

\* A secret of a client is none of the missing ones.
LEMMA SecretsDiffer == \A p, c : c \in Clients => Secret(p, c, c) # NoSecret
BY NamesAssumption DEF Secret, NoSecret

\* What the receiver or a client computes is a secret.
LEMMA SecretType ==
  ASSUME NEW p \in Pins, NEW e \in Clients \cup {"none"}, NEW c \in Clients
  PROVE  Secret(p, e, c) \in Secrets
BY DEF Secret, Secrets

\* A queue with one entry, seen from both ends.
LEMMA OneEntry ==
  \A a : /\ Append(<<>>, a) = <<a>> /\ Head(<<a>>) = a /\ Tail(<<a>>) = <<>> /\ <<a>> # <<>>
         /\ \A b : <<a>> = <<b>> => a = b
OBVIOUS

\* Nothing about a client changes when none of this does.
LEMMA OthersKeep ==
  ASSUME NEW d \in Clients, Attempt(d),
         pc'[d] = pc[d], stage'[d] = stage[d], secret'[d] = secret[d],
         cipher'[d] = cipher[d], asked'[d] = asked[d], answered'[d] = answered[d],
         receiverKeys'[d] = receiverKeys[d], pin' = pin, receiverPin' = receiverPin
  PROVE  Attempt(d)'
BY DEF Attempt, Keyed, Unkeyed, Due, Sound, Nothing

-----------------------------------------------------------------------------
(* The invariant holds at first. *)

LEMMA InitInv == Init => IInv
<1> SUFFICES ASSUME Init PROVE IInv
  OBVIOUS
<1>1. NoSecret \in Secrets
  BY DEF Secrets
<1>2. TypeOK
  BY <1>1 DEF TypeOK, Init, Waiting
<1>3. Attempts
  BY DEF Attempts, Attempt, Unkeyed, Nothing, Init
<1> QED
  BY <1>2, <1>3 DEF IInv

-----------------------------------------------------------------------------
(* Each action keeps it: first the types, then the attempt of the client    *)
(* it is about; the others' are OthersKeep's.                               *)

LEMMA OpenInv == ASSUME IInv, NEW c \in Clients, Open(c) PROVE IInv'
<1> USE DEF IInv
<1>1. TypeOK'
  BY DEF TypeOK, Open, Ask, Waiting, pairing, receiver
<1>2. Attempt(c)'
  <2>1. Unkeyed(c) /\ Nothing(c)
    BY DEF Attempts, Attempt, Open
  <2>2. asked'[c] = <<"info">> /\ answered'[c] = <<>>
    BY <2>1, OneEntry DEF TypeOK, Open, Ask, Nothing
  <2>3. pc'[c] = "info" /\ Unkeyed(c)'
    BY <2>1 DEF TypeOK, Open, Ask, Unkeyed, pairing
  <2> QED
    BY <2>2, <2>3 DEF Attempt, Due
<1>3. ASSUME NEW d \in Clients, d # c PROVE Attempt(d)'
  BY <1>3, OthersKeep DEF TypeOK, Attempts, Open, Ask, pairing, receiver
<1> QED
  BY <1>1, <1>2, <1>3 DEF Attempts

\* What a step takes is the answer it waits for, and the only one there is.
LEMMA TakesItsOwn ==
  ASSUME IInv, NEW c \in Clients, NEW what \in Waiting, Take(c, what)
  PROVE  /\ asked[c] = <<>> /\ answered'[c] = <<>>
         /\ Head(answered[c]) \in Answers
         /\ Sound(c, Head(answered[c])) /\ Head(answered[c]).to = what
<1>1. Due(c, what)
  BY DEF IInv, Attempts, Attempt, Take, Waiting, Nothing
<1>2. answered[c] # <<>>
  BY DEF Take
<1>3. PICK a \in Answers : answered[c] = <<a>> /\ a.to = what /\ Sound(c, a)
  BY <1>1, <1>2 DEF Due
<1>4. asked[c] = <<>>
  BY <1>1, <1>2 DEF Due
<1>5. Head(answered[c]) = a /\ Tail(answered[c]) = <<>>
  BY <1>3, OneEntry
<1>6. answered'[c] = <<>>
  BY <1>5 DEF Take, IInv, TypeOK
<1> QED
  BY <1>3, <1>4, <1>5, <1>6

\* Queues stay queues.
LEMMA TakeTypes ==
  ASSUME TypeOK, NEW c \in Clients, NEW what, Take(c, what)
  PROVE  answered' \in [Clients -> Seq(Answers)]
BY DEF TypeOK, Take

LEMMA AskTypes ==
  ASSUME TypeOK, NEW c \in Clients, NEW what \in Waiting, Ask(c, what)
  PROVE  asked' \in [Clients -> Seq(Waiting)]
BY DEF TypeOK, Ask

LEMMA StartPairingInv == ASSUME IInv, NEW c \in Clients, StartPairing(c) PROVE IInv'
<1> USE DEF IInv
<1>0. Take(c, "info") /\ "info" \in Waiting
  BY DEF StartPairing, Waiting
<1>1. TypeOK'
  <2>1. answered' \in [Clients -> Seq(Answers)] /\ asked' \in [Clients -> Seq(Waiting)]
    BY <1>0, TakeTypes, AskTypes DEF StartPairing, Waiting
  <2>2. stage[c] # "Complete"
    BY DEF Attempts, Attempt, StartPairing, Take, Unkeyed
  <2> QED
    BY <2>1, <2>2 DEF TypeOK, StartPairing, Take, Ask, Waiting, receiver
<1>2. Attempt(c)'
  <2>1. asked'[c] = <<"m2">> /\ answered'[c] = <<>>
    BY <1>0, TakesItsOwn, OneEntry DEF TypeOK, StartPairing, Ask
  <2>2. pc'[c] = "m2" /\ Unkeyed(c)'
    BY DEF TypeOK, Attempts, Attempt, StartPairing, Take, Ask, Unkeyed
  <2> QED
    BY <2>1, <2>2 DEF Attempt, Due
<1>3. ASSUME NEW d \in Clients, d # c PROVE Attempt(d)'
  BY <1>3, OthersKeep DEF TypeOK, Attempts, StartPairing, Take, Ask, receiver
<1> QED
  BY <1>1, <1>2, <1>3 DEF Attempts

LEMMA ContinueWithM2Inv == ASSUME IInv, NEW c \in Clients, ContinueWithM2(c) PROVE IInv'
<1> USE DEF IInv
<1> DEFINE m2 == Head(answered[c])
<1>0. Take(c, "m2") /\ "m2" \in Waiting
  BY DEF ContinueWithM2, Waiting
<1>1. Unkeyed(c) /\ m2 \in Answers /\ m2.of.exchange = c
  BY <1>0, TakesItsOwn DEF Attempts, Attempt, Take, Sound, Unkeyed
<1>2. answered' \in [Clients -> Seq(Answers)] /\ asked' \in [Clients -> Seq(Waiting)]
  <2>1. asked' = asked \/ Ask(c, "m4")
    BY DEF ContinueWithM2, PairingFails
  <2> QED
    BY <1>0, <2>1, TakeTypes, AskTypes DEF TypeOK, Waiting
<1>3. Secret(pin[c], c, c) \in Secrets
  BY SecretType DEF TypeOK
<1>4. CASE setup[c] = "M1Sent" /\ M2Needs \subseteq m2.meets
  <2>1. /\ secret' = [secret EXCEPT ![c] = Secret(pin[c], c, c)]
        /\ setup' = [setup EXCEPT ![c] = "M3Sent"]
        /\ stage' = [stage EXCEPT ![c] = "WaitingM4"]
        /\ Ask(c, "m4")
        /\ UNCHANGED <<cipher, pin, session, receiver>>
    BY <1>1, <1>4 DEF ContinueWithM2
  <2>2. TypeOK'
    BY <1>1, <1>2, <1>3, <2>1 DEF TypeOK, Ask, Waiting, receiver, Unkeyed
  <2>3. Attempt(c)'
    <3>1. asked'[c] = <<"m4">> /\ answered'[c] = <<>>
      BY <1>0, <2>1, TakesItsOwn, OneEntry DEF TypeOK, Ask
    <3>2. pc'[c] = "m4" /\ Unkeyed(c)' /\ secret'[c] = Secret(pin'[c], c, c)
      BY <1>1, <2>1 DEF TypeOK, Ask, Unkeyed
    <3> QED
      BY <3>1, <3>2 DEF Attempt, Due
  <2>4. ASSUME NEW d \in Clients, d # c PROVE Attempt(d)'
    BY <1>0, <2>1, <2>4, OthersKeep DEF TypeOK, Attempts, Take, Ask, receiver
  <2> QED
    BY <2>2, <2>3, <2>4 DEF Attempts
<1>5. CASE ~(setup[c] = "M1Sent" /\ M2Needs \subseteq m2.meets)
  <2>1. PairingFails(c) /\ UNCHANGED <<pin, session, receiver>>
    BY <1>5 DEF ContinueWithM2
  <2>2. TypeOK'
    BY <1>2, <2>1 DEF TypeOK, PairingFails, Waiting, receiver
  <2>3. Attempt(c)'
    BY <1>1, <2>1 DEF TypeOK, PairingFails, Attempt, Unkeyed
  <2>4. ASSUME NEW d \in Clients, d # c PROVE Attempt(d)'
    BY <1>0, <2>1, <2>4, OthersKeep DEF TypeOK, Attempts, Take, PairingFails, receiver
  <2> QED
    BY <2>2, <2>3, <2>4 DEF Attempts
<1> QED
  BY <1>4, <1>5

LEMMA ContinueWithM4Inv == ASSUME IInv, NEW c \in Clients, ContinueWithM4(c) PROVE IInv'
<1> USE DEF IInv
<1> DEFINE m4 == Head(answered[c])
<1>0. Take(c, "m4") /\ "m4" \in Waiting
  BY DEF ContinueWithM4, Waiting
<1>1. Unkeyed(c) /\ m4 \in Answers /\ Sound(c, m4) /\ m4.to = "m4"
  BY <1>0, TakesItsOwn DEF Attempts, Attempt, Take, Unkeyed
<1>2. secret[c] = Secret(pin[c], c, c)
  BY <1>0 DEF Attempts, Attempt, Take
<1>3. answered' \in [Clients -> Seq(Answers)] /\ asked' \in [Clients -> Seq(Waiting)]
  <2>1. asked' = asked \/ Ask(c, "probe")
    BY DEF ContinueWithM4, PairingFails
  <2> QED
    BY <1>0, <2>1, TakeTypes, AskTypes DEF TypeOK, Waiting
<1>4. CASE Verified(c, m4)
  <2>1. Complete(c) /\ Ask(c, "probe") /\ UNCHANGED <<pin, session, receiver>>
    BY <1>4 DEF ContinueWithM4
  <2>2. cipher'[c] = Secret(pin[c], c, c) /\ cipher'[c] # NoSecret
    BY <1>2, <2>1, SecretsDiffer DEF Complete, TypeOK
  <2>3. TypeOK'
    BY <1>3, <2>1, <2>2 DEF TypeOK, Complete, Ask, Waiting, receiver
  <2>4. receiverKeys[c] = secret[c] /\ receiverPin = pin[c]
    <3>1. m4.of = secret[c] /\ "proof" \in m4.meets
      BY <1>4 DEF Verified, M4Needs
    <3>2. m4.of = receiverKeys[c] /\ m4.of.pin = receiverPin
      BY <1>1, <3>1 DEF Sound
    <3>3. secret[c].pin = pin[c]
      BY <1>2 DEF Secret
    <3> QED
      BY <3>1, <3>2, <3>3
  <2>5. Attempt(c)'
    <3>1. asked'[c] = <<"probe">> /\ answered'[c] = <<>>
      BY <1>0, <2>1, TakesItsOwn, OneEntry DEF TypeOK, Ask
    <3>2. pc'[c] = "probe" /\ Keyed(c)'
      BY <1>2, <2>1, <2>2, <2>4 DEF TypeOK, Ask, Keyed, Complete, receiver
    <3> QED
      BY <3>1, <3>2 DEF Attempt, Due
  <2>6. ASSUME NEW d \in Clients, d # c PROVE Attempt(d)'
    BY <1>0, <2>1, <2>6, OthersKeep DEF TypeOK, Attempts, Take, Complete, Ask, receiver
  <2> QED
    BY <2>3, <2>5, <2>6 DEF Attempts
<1>5. CASE ~Verified(c, m4)
  <2>1. PairingFails(c) /\ UNCHANGED <<pin, session, receiver>>
    BY <1>5 DEF ContinueWithM4
  <2>2. TypeOK'
    BY <1>3, <2>1 DEF TypeOK, PairingFails, Waiting, receiver
  <2>3. Attempt(c)'
    BY <1>1, <2>1 DEF TypeOK, PairingFails, Attempt, Unkeyed
  <2>4. ASSUME NEW d \in Clients, d # c PROVE Attempt(d)'
    BY <1>0, <2>1, <2>4, OthersKeep DEF TypeOK, Attempts, Take, PairingFails, receiver
  <2> QED
    BY <2>2, <2>3, <2>4 DEF Attempts
<1> QED
  BY <1>4, <1>5

LEMMA ProbeAnsweredInv == ASSUME IInv, NEW c \in Clients, ProbeAnswered(c) PROVE IInv'
<1> USE DEF IInv
<1>0. Take(c, "probe") /\ "probe" \in Waiting
  BY DEF ProbeAnswered, Waiting
<1>1. TypeOK'
  BY <1>0, TakeTypes DEF TypeOK, ProbeAnswered, Paired, pairing, receiver
<1>2. Attempt(c)'
  <2>1. Nothing(c)' /\ pc'[c] = "paired"
    BY <1>0, TakesItsOwn DEF TypeOK, ProbeAnswered, Paired, Nothing
  <2>2. Keyed(c)'
    BY <1>0 DEF Attempts, Attempt, Take, Keyed, ProbeAnswered, pairing, receiver
  <2> QED
    BY <2>1, <2>2 DEF Attempt
<1>3. ASSUME NEW d \in Clients, d # c PROVE Attempt(d)'
  BY <1>0, <1>3, OthersKeep
  DEF TypeOK, Attempts, ProbeAnswered, Take, Paired, pairing, receiver
<1> QED
  BY <1>1, <1>2, <1>3 DEF Attempts

LEMMA GiveUpInv == ASSUME IInv, NEW c \in Clients, GiveUp(c) PROVE IInv'
<1> USE DEF IInv
<1>1. TypeOK'
  BY DEF TypeOK, GiveUp, Paired, pairing, receiver
<1>2. Attempt(c)'
  <2>1. CASE pc[c] = "probe"
    <3>1. pc'[c] = "paired" /\ Keyed(c) /\ Due(c, "probe")
      BY <2>1 DEF TypeOK, GiveUp, Paired, Attempts, Attempt
    <3>2. Keyed(c)' /\ Due(c, "probe")'
      BY <3>1 DEF GiveUp, Keyed, Due, Sound, pairing, receiver
    <3> QED
      BY <3>1, <3>2 DEF Attempt
  <2>2. CASE pc[c] # "probe"
    <3>1. pc'[c] = "failed" /\ Unkeyed(c)
      BY <2>2 DEF TypeOK, GiveUp, Attempts, Attempt
    <3> QED
      BY <3>1 DEF Attempt, Unkeyed, GiveUp, pairing
  <2> QED
    BY <2>1, <2>2
<1>3. ASSUME NEW d \in Clients, d # c PROVE Attempt(d)'
  BY <1>3, OthersKeep DEF TypeOK, Attempts, GiveUp, Paired, pairing, receiver
<1> QED
  BY <1>1, <1>2, <1>3 DEF Attempts

\* What a request of a client that has not failed must be, and what its answer becomes.
LEMMA AnswersTheOne ==
  ASSUME IInv, NEW c \in Clients, NEW what, NEW meets \in SUBSET (M2Needs \cup M4Needs),
         NEW of \in Secrets, Answer(c, what, meets, of), pc[c] # "failed"
  PROVE  /\ what = IF pc[c] = "paired" THEN "probe" ELSE pc[c]
         /\ pc[c] # "start" /\ ~Nothing(c)
         /\ asked'[c] = <<>>
         /\ [to |-> what, meets |-> meets, of |-> of] \in Answers
         /\ answered'[c] = <<[to |-> what, meets |-> meets, of |-> of]>>
<1> DEFINE one == [to |-> what, meets |-> meets, of |-> of]
           awaited == IF pc[c] = "paired" THEN "probe" ELSE pc[c]
<1>1. asked[c] # <<>> /\ Head(asked[c]) = what
  BY DEF Answer
<1>2. asked[c] = <<awaited>> /\ answered[c] = <<>> /\ awaited \in Waiting
  BY <1>1 DEF IInv, Attempts, Attempt, Nothing, Due, Waiting
<1>3. what = awaited
  BY <1>1, <1>2, OneEntry
<1>4. one \in Answers
  BY <1>2, <1>3 DEF Answers
<1>5. asked'[c] = <<>>
  BY <1>2, OneEntry DEF Answer, IInv, TypeOK
<1>6. answered'[c] = <<one>>
  BY <1>2, OneEntry DEF Answer, IInv, TypeOK
<1>7. pc[c] # "start" /\ ~Nothing(c)
  BY <1>1 DEF IInv, Attempts, Attempt, Nothing
<1> QED
  BY <1>3, <1>4, <1>5, <1>6, <1>7

LEMMA AnswerTypes ==
  ASSUME TypeOK, NEW c \in Clients, NEW what, NEW meets \in SUBSET (M2Needs \cup M4Needs),
         NEW of \in Secrets, Answer(c, what, meets, of)
  PROVE  asked' \in [Clients -> Seq(Waiting)] /\ answered' \in [Clients -> Seq(Answers)]
<1>1. asked[c] \in Seq(Waiting) /\ asked[c] # <<>> /\ what = Head(asked[c])
  BY DEF TypeOK, Answer
<1>2. what \in Waiting
  BY <1>1
<1>3. [to |-> what, meets |-> meets, of |-> of] \in Answers
  BY <1>2 DEF Answers
<1> QED
  BY <1>1, <1>3 DEF TypeOK, Answer

\* The receiver's answer is the awaited one, and it is sound; its client keeps the rest.
LEMMA AnswerKeeps ==
  ASSUME IInv, NEW c \in Clients, NEW what, NEW meets \in SUBSET (M2Needs \cup M4Needs),
         NEW of \in Secrets, Answer(c, what, meets, of),
         what = "m2" => of.exchange = c,
         what = "m4" /\ "proof" \in meets => of = receiverKeys'[c] /\ of.pin = receiverPin,
         what # "m4" => receiverKeys'[c] = receiverKeys[c]
  PROVE  Attempt(c)'
<1> DEFINE one == [to |-> what, meets |-> meets, of |-> of]
<1>1. CASE pc[c] = "failed"
  BY <1>1 DEF Answer, IInv, Attempts, Attempt, Unkeyed, client, pairing
<1>2. CASE pc[c] # "failed"
  <2>1. /\ what = IF pc[c] = "paired" THEN "probe" ELSE pc[c]
        /\ pc[c] # "start" /\ ~Nothing(c)
        /\ asked'[c] = <<>> /\ one \in Answers /\ answered'[c] = <<one>>
    BY <1>2, AnswersTheOne
  <2>2. Sound(c, one)'
    BY DEF Sound, Answer
  <2>3. Due(c, what)'
    BY <2>1, <2>2 DEF Due, Answers
  <2>4. /\ pin' = pin /\ pc' = pc /\ stage' = stage /\ secret' = secret /\ cipher' = cipher
        /\ receiverPin' = receiverPin
    BY DEF Answer, client, pairing
  <2>5. Keyed(c) /\ what # "m4" => Keyed(c)'
    BY <2>4 DEF Keyed
  <2>6. Unkeyed(c) => Unkeyed(c)'
    BY <2>4 DEF Unkeyed
  <2> QED
    BY <1>2, <2>1, <2>3, <2>4, <2>5, <2>6 DEF IInv, Attempts, Attempt
<1> QED
  BY <1>1, <1>2

\* An answer to c leaves the other clients alone.
LEMMA AnswerLeavesOthers ==
  ASSUME IInv, NEW c \in Clients, NEW what, NEW meets, NEW of, Answer(c, what, meets, of),
         NEW d \in Clients, d # c, receiverKeys'[d] = receiverKeys[d]
  PROVE  Attempt(d)'
BY OthersKeep DEF IInv, TypeOK, Attempts, Answer, client, pairing

LEMMA AnswerPlainInv == ASSUME IInv, NEW c \in Clients, AnswerPlain(c) PROVE IInv'
<1>1. PICK what \in {"info", "probe"} : Answer(c, what, {"parses"}, Secret(receiverPin, c, c))
  BY DEF AnswerPlain
<1>2. Secret(receiverPin, c, c) \in Secrets /\ {"parses"} \in SUBSET (M2Needs \cup M4Needs)
  BY SecretType DEF IInv, TypeOK, M2Needs
<1>3. UNCHANGED <<exchange, receiverKeys>>
  BY DEF AnswerPlain
<1>4. TypeOK'
  BY <1>1, <1>2, <1>3, AnswerTypes DEF IInv, TypeOK, Answer, client, pairing
<1>5. Attempt(c)'
  BY <1>1, <1>2, <1>3, AnswerKeeps
<1>6. ASSUME NEW d \in Clients, d # c PROVE Attempt(d)'
  BY <1>1, <1>3, <1>6, AnswerLeavesOthers
<1> QED
  BY <1>4, <1>5, <1>6 DEF IInv, Attempts

LEMMA AnswerM1Inv == ASSUME IInv, NEW c \in Clients, AnswerM1(c) PROVE IInv'
<1>1. PICK meets \in SUBSET M2Needs : Answer(c, "m2", meets, Secret(receiverPin, c, c))
  BY DEF AnswerM1
<1>2. /\ Secret(receiverPin, c, c) \in Secrets /\ Secret(receiverPin, c, c).exchange = c
      /\ meets \in SUBSET (M2Needs \cup M4Needs)
  BY SecretType DEF IInv, TypeOK, Secret
<1>3. exchange' = c /\ UNCHANGED receiverKeys
  BY DEF AnswerM1
<1>4. TypeOK'
  BY <1>1, <1>2, <1>3, AnswerTypes DEF IInv, TypeOK, Answer, client, pairing
<1>5. Attempt(c)'
  BY <1>1, <1>2, <1>3, AnswerKeeps
<1>6. ASSUME NEW d \in Clients, d # c PROVE Attempt(d)'
  BY <1>1, <1>3, <1>6, AnswerLeavesOthers
<1> QED
  BY <1>4, <1>5, <1>6 DEF IInv, Attempts

LEMMA AnswerM3Inv == ASSUME IInv, NEW c \in Clients, AnswerM3(c) PROVE IInv'
<1> DEFINE own == Secret(receiverPin, exchange, c)
<1>1. PICK meets \in SUBSET M4Needs :
        /\ Answer(c, "m4", meets, own)
        /\ receiverKeys' = IF "proof" \in meets
                           THEN [receiverKeys EXCEPT ![c] = own] ELSE receiverKeys
  BY DEF AnswerM3
<1>2. own \in Secrets /\ own.pin = receiverPin /\ meets \in SUBSET (M2Needs \cup M4Needs)
  BY SecretType DEF IInv, TypeOK, Secret
<1>3. UNCHANGED exchange
  BY DEF AnswerM3
<1>4. TypeOK'
  BY <1>1, <1>2, <1>3, AnswerTypes DEF IInv, TypeOK, Answer, client, pairing
<1>5. "proof" \in meets => own = receiverKeys'[c]
  BY <1>1 DEF IInv, TypeOK
<1>6. Attempt(c)'
  BY <1>1, <1>2, <1>5, AnswerKeeps
<1>7. ASSUME NEW d \in Clients, d # c PROVE Attempt(d)'
  <2>1. receiverKeys'[d] = receiverKeys[d]
    BY <1>1, <1>7 DEF IInv, TypeOK
  <2> QED
    BY <1>1, <1>7, <2>1, AnswerLeavesOthers
<1> QED
  BY <1>4, <1>6, <1>7 DEF IInv, Attempts

\* Forgetting the exchange, and a step of nobody, change nothing of this.
LEMMA KeptInv ==
  ASSUME IInv, UNCHANGED <<client, asked, answered, receiverPin, receiverKeys>>,
         exchange' \in Clients \cup {"none"}
  PROVE  IInv'
<1>1. TypeOK'
  BY DEF IInv, TypeOK, client, pairing
<1>2. ASSUME NEW d \in Clients PROVE Attempt(d)'
  BY <1>2, OthersKeep DEF IInv, Attempts, client, pairing
<1> QED
  BY <1>1, <1>2 DEF IInv, Attempts

LEMMA NextInv == IInv /\ [Next]_vars => IInv'
<1> SUFFICES ASSUME IInv, [Next]_vars PROVE IInv'
  OBVIOUS
<1>1. ASSUME NEW c \in Clients,
             \/ Open(c) \/ StartPairing(c) \/ ContinueWithM2(c) \/ ContinueWithM4(c)
             \/ ProbeAnswered(c) \/ GiveUp(c)
             \/ AnswerPlain(c) \/ AnswerM1(c) \/ AnswerM3(c)
      PROVE  IInv'
  BY <1>1, OpenInv, StartPairingInv, ContinueWithM2Inv, ContinueWithM4Inv, ProbeAnsweredInv,
     GiveUpInv, AnswerPlainInv, AnswerM1Inv, AnswerM3Inv
<1>2. CASE Forget
  BY <1>2, KeptInv DEF Forget
<1>3. CASE UNCHANGED vars
  BY <1>3, KeptInv DEF vars, receiver, IInv, TypeOK
<1> QED
  BY <1>1, <1>2, <1>3 DEF Next

-----------------------------------------------------------------------------
(* What it implies. *)

\* Every variable of connect_with_pin and of the pairing objects keeps its type, and a
\* pairing has keys exactly when it is complete.
THEOREM PairingTypeCorrect == Spec => []TypeOK
<1>1. IInv => TypeOK
  BY DEF IInv
<1> QED
  BY InitInv, NextInv, <1>1, PTL DEF Spec

\* Whoever pairs at the same time, and whatever the receiver's answers lack: a connection
\* that install_control_cipher has encrypted has the keys of the receiver's side of it.
THEOREM PairedKeysAgree == Spec => []KeysAgree
<1>1. IInv => KeysAgree
  <2> SUFFICES ASSUME IInv, NEW c \in Clients, cipher[c] # NoSecret
               PROVE  cipher[c] = receiverKeys[c] /\ cipher[c].exchange = c
                      /\ receiverPin = pin[c]
    BY DEF KeysAgree
  <2>1. Keyed(c)
    BY DEF IInv, Attempts, Attempt, Unkeyed
  <2> QED
    BY <2>1 DEF Keyed, Secret
<1> QED
  BY InitInv, NextInv, <1>1, PTL DEF Spec

\* The plaintext requests of the handshake take their own answers, and no connection is
\* handed out with more than the answer to OPTIONS outstanding.
THEOREM HandshakeInStep == Spec => []InStepUntilPaired
<1>1. IInv => InStepUntilPaired
  <2> SUFFICES ASSUME IInv, NEW c \in Clients, pc[c] # "failed"
               PROVE  asked[c] \o [i \in DOMAIN answered[c] |-> answered[c][i].to]
                        \in {<<>>, <<IF pc[c] = "paired" THEN "probe" ELSE pc[c]>>}
    BY DEF InStepUntilPaired
  <2> DEFINE what == IF pc[c] = "paired" THEN "probe" ELSE pc[c]
             owed == [i \in DOMAIN answered[c] |-> answered[c][i].to]
  <2>1. Nothing(c) \/ Due(c, what)
    BY DEF IInv, Attempts, Attempt
  <2>2. CASE answered[c] = <<>>
    <3>1. owed = <<>>
      BY <2>2
    <3>2. asked[c] \in {<<>>, <<what>>}
      BY <2>1, <2>2 DEF Nothing, Due
    <3>3. asked[c] \o <<>> = asked[c]
      BY <3>2
    <3> QED
      BY <3>1, <3>2, <3>3
  <2>3. CASE answered[c] # <<>>
    <3>1. PICK a \in Answers : answered[c] = <<a>> /\ a.to = what
      BY <2>1, <2>3 DEF Nothing, Due
    <3>2. asked[c] = <<>>
      BY <2>1, <2>3 DEF Nothing, Due
    <3>3. owed = <<what>>
      BY <3>1
    <3>4. <<>> \o <<what>> = <<what>>
      OBVIOUS
    <3> QED
      BY <3>2, <3>3, <3>4
  <2> QED
    BY <2>2, <2>3
<1> QED
  BY InitInv, NextInv, <1>1, PTL DEF Spec
=============================================================================
