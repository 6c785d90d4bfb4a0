------------------------------ MODULE PairSetup ------------------------------
(***************************************************************************)
(* From a TCP connection to an encrypted one: connect_with_pin             *)
(* (client/handshake.rs), with the PairingSession and the PairSetup it     *)
(* drives (pairing/session.rs, pairing/pair_setup.rs). Several clients     *)
(* pair with one receiver, each on a connection of its own.                *)
(*                                                                         *)
(* The receiver is external. It runs one exchange at a time, which the     *)
(* next M1 replaces and a restart forgets, answers as late as it likes,    *)
(* and answers an M3 from whatever exchange it is in; its answers may      *)
(* moreover lack anything the client needs of them. What SRP computes is   *)
(* known by what goes into it: two secrets, or two proofs, are the same    *)
(* only if the PIN, the salt and both public keys are. A new exchange has  *)
(* a salt and a key of its own and is named by the client that opened it.  *)
(*                                                                         *)
(* A call that times out, a write that fails, a receiver that hangs up or  *)
(* sends no RTSP are one event: the call returns an error.                 *)
(***************************************************************************)
EXTENDS Sequences, FiniteSets

CONSTANTS
  Clients,   \* connections, one attempt on each
  Pins

ASSUME NamesAssumption == "none" \notin Clients

VARIABLES
  pin,           \* which each client was given
  pc,            \* the answer connect_with_pin waits for, or how it ended
  session,       \* RtspSession.state
  stage,         \* PairingSession.transient_state
  setup,         \* PairSetup.state; "None" before there is one
  secret,        \* PairSetup.srp_proof
  cipher,        \* what the keys of the control cipher are derived from
  asked,         \* requests the receiver has not answered
  answered,      \* its answers on their way
  receiverPin,
  exchange,      \* who opened the receiver's exchange, or "none"
  receiverKeys   \* the secret from which the receiver has derived a connection's keys

pairing  == <<stage, setup, secret>>
client   == <<pin, pc, session, pairing, cipher>>
receiver == <<receiverPin, exchange, receiverKeys>>
vars == <<client, asked, answered, receiver>>

\* SRP's shared secret, and with it both proofs.
Secret(withPin, opener, by) == [pin |-> withPin, exchange |-> opener, client |-> by]
NoSecret == Secret("none", "none", "none")

\* What process_m2 and process_m4 check of an answer, one after the other.
M2Needs == {"parses", "no error", "state", "salt of 16 bytes", "key of 384 bytes at most",
            "key not zero"}
M4Needs == {"parses", "no error", "state", "proof"}

Waiting == {"info", "m2", "m4", "probe"}

-----------------------------------------------------------------------------
(* The client. *)

\* send: the request goes out, and is waited for.
Ask(c, what) ==
  /\ asked' = [asked EXCEPT ![c] = Append(@, what)]
  /\ pc' = [pc EXCEPT ![c] = what]

Take(c, what) ==
  /\ pc[c] = what
  /\ answered[c] # <<>>
  /\ answered' = [answered EXCEPT ![c] = Tail(@)]

\* open_connected_session: TCP, then GET /info.
Open(c) ==
  /\ pc[c] = "start"
  /\ session[c] = "Disconnected"
  /\ session' = [session EXCEPT ![c] = "Connected"]
  /\ Ask(c, "info")
  /\ UNCHANGED <<pin, pairing, cipher, answered, receiver>>

\* start_transient_pairing_with_pin, whatever /info said.
StartPairing(c) ==
  /\ Take(c, "info")
  /\ setup[c] = "None"
  /\ setup' = [setup EXCEPT ![c] = "M1Sent"]
  /\ stage' = [stage EXCEPT ![c] = "WaitingM2"]
  /\ Ask(c, "m2")
  /\ UNCHANGED <<pin, session, secret, cipher, receiver>>

\* An error of a step ends the attempt, and PairSetup can do nothing more.
PairingFails(c) ==
  /\ setup' = [setup EXCEPT ![c] = "Failed"]
  /\ pc' = [pc EXCEPT ![c] = "failed"]
  /\ UNCHANGED <<stage, secret, cipher, asked>>

\* process_m2 takes salt and key, generate_m3 answers with a key and a proof.
ContinueWithM2(c) ==
  /\ stage[c] = "WaitingM2"
  /\ Take(c, "m2")
  /\ LET m2 == Head(answered[c]) IN
       IF setup[c] = "M1Sent" /\ M2Needs \subseteq m2.meets
       THEN /\ secret' = [secret EXCEPT ![c] = Secret(pin[c], m2.of.exchange, c)]
            /\ setup' = [setup EXCEPT ![c] = "M3Sent"]
            /\ stage' = [stage EXCEPT ![c] = "WaitingM4"]
            /\ Ask(c, "m4")
            /\ UNCHANGED cipher
       ELSE PairingFails(c)
  /\ UNCHANGED <<pin, session, receiver>>

\* Mutant: the client is content with any proof.
VerifiedAlways(c, m4) == setup[c] = "M3Sent" /\ M4Needs \subseteq m4.meets

\* process_m4: the server's proof is the one expected.
Verified(c, m4) ==
  /\ setup[c] = "M3Sent"
  /\ M4Needs \subseteq m4.meets
  /\ m4.of = secret[c]

\* Mutant: the stage is not moved on, and another M4 would be taken.
CompleteUnstaged(c) ==
  /\ setup' = [setup EXCEPT ![c] = "Complete"]
  /\ cipher' = [cipher EXCEPT ![c] = secret[c]]
  /\ UNCHANGED <<stage, secret>>

\* complete_transient; the keys are derived, taken, and encrypt from here on.
Complete(c) ==
  /\ setup' = [setup EXCEPT ![c] = "Complete"]
  /\ stage' = [stage EXCEPT ![c] = "Complete"]
  /\ cipher' = [cipher EXCEPT ![c] = secret[c]]
  /\ UNCHANGED secret

\* What is encrypted first is a request for the options.
ContinueWithM4(c) ==
  /\ stage[c] = "WaitingM4"
  /\ Take(c, "m4")
  /\ IF Verified(c, Head(answered[c]))
     THEN Complete(c) /\ Ask(c, "probe")
     ELSE PairingFails(c)
  /\ UNCHANGED <<pin, session, receiver>>

\* set_paired, after an answer to the probe or without one: its error is only logged.
Paired(c) ==
  /\ session' = [session EXCEPT ![c] = "Paired"]
  /\ pc' = [pc EXCEPT ![c] = "paired"]

ProbeAnswered(c) ==
  /\ Take(c, "probe")
  /\ Paired(c)
  /\ UNCHANGED <<pin, pairing, cipher, asked, receiver>>

\* Mutant: /info is asked like the options, for what it may tell.
GiveUpNotInfo(c) ==
  /\ \/ /\ pc[c] = "info"
        /\ setup' = [setup EXCEPT ![c] = "M1Sent"] /\ stage' = [stage EXCEPT ![c] = "WaitingM2"]
        /\ Ask(c, "m2") /\ UNCHANGED <<session, secret>>
     \/ pc[c] \in {"m2", "m4"} /\ pc' = [pc EXCEPT ![c] = "failed"]
        /\ UNCHANGED <<session, asked, pairing>>
     \/ pc[c] = "probe" /\ Paired(c) /\ UNCHANGED <<asked, pairing>>
  /\ UNCHANGED <<pin, cipher, answered, receiver>>

\* send returns an error.
GiveUp(c) ==
  /\ \/ pc[c] \in {"start", "info", "m2", "m4"} /\ pc' = [pc EXCEPT ![c] = "failed"]
        /\ UNCHANGED session
     \/ pc[c] = "probe" /\ Paired(c)
  /\ UNCHANGED <<pin, pairing, cipher, asked, answered, receiver>>

-----------------------------------------------------------------------------
(* The receiver. *)

\* It answers c's request for `what', with these parts of it in order.
Answer(c, what, meets, of) ==
  /\ asked[c] # <<>> /\ Head(asked[c]) = what
  /\ asked' = [asked EXCEPT ![c] = Tail(@)]
  /\ answered' = [answered EXCEPT ![c] = Append(@, [to |-> what, meets |-> meets, of |-> of])]
  /\ UNCHANGED <<client, receiverPin>>

AnswerPlain(c) ==
  /\ \E what \in {"info", "probe"} : Answer(c, what, {"parses"}, Secret(receiverPin, c, c))
  /\ UNCHANGED <<exchange, receiverKeys>>

\* A new exchange, in which the PIN has not been used yet.
AnswerM1(c) ==
  /\ exchange' = c
  /\ \E meets \in SUBSET M2Needs : Answer(c, "m2", meets, Secret(receiverPin, c, c))
  /\ UNCHANGED receiverKeys

\* It answers from its exchange, though it may be another client's, and takes the keys it
\* gives a proof of; or it answers with an error, as it has to without one.
AnswerM3(c) ==
  /\ \E meets \in SUBSET M4Needs :
       /\ "proof" \in meets => exchange # "none"
       /\ LET own == Secret(receiverPin, exchange, c) IN
            /\ Answer(c, "m4", meets, own)
            /\ receiverKeys' = IF "proof" \in meets
                               THEN [receiverKeys EXCEPT ![c] = own] ELSE receiverKeys
  /\ UNCHANGED exchange

Forget ==
  /\ exchange # "none"
  /\ exchange' = "none"
  /\ UNCHANGED <<client, asked, answered, receiverPin, receiverKeys>>

-----------------------------------------------------------------------------
Init ==
  /\ pin \in [Clients -> Pins] /\ receiverPin \in Pins
  /\ pc = [c \in Clients |-> "start"]
  /\ session = [c \in Clients |-> "Disconnected"]
  /\ stage = [c \in Clients |-> "NotStarted"]
  /\ setup = [c \in Clients |-> "None"]
  /\ secret = [c \in Clients |-> NoSecret]
  /\ cipher = [c \in Clients |-> NoSecret]
  /\ asked = [c \in Clients |-> <<>>] /\ answered = [c \in Clients |-> <<>>]
  /\ exchange = "none"
  /\ receiverKeys = [c \in Clients |-> NoSecret]

Next ==
  \/ \E c \in Clients :
       \/ Open(c) \/ StartPairing(c) \/ ContinueWithM2(c) \/ ContinueWithM4(c)
       \/ ProbeAnswered(c) \/ GiveUp(c)
       \/ AnswerPlain(c) \/ AnswerM1(c) \/ AnswerM3(c)
  \/ Forget

Spec == Init /\ [][Next]_vars

-----------------------------------------------------------------------------
(* Properties. *)

Secrets == [pin : Pins, exchange : Clients \cup {"none"}, client : Clients] \cup {NoSecret}
Answers == [to : Waiting, meets : SUBSET (M2Needs \cup M4Needs), of : Secrets]

\* Every variable has its type; only a pairing that is complete has keys.
TypeOK ==
  /\ pin \in [Clients -> Pins] /\ receiverPin \in Pins
  /\ pc \in [Clients -> Waiting \cup {"start", "failed", "paired"}]
  /\ session \in [Clients -> {"Disconnected", "Connected", "Paired"}]
  /\ stage \in [Clients -> {"NotStarted", "WaitingM2", "WaitingM4", "Complete"}]
  /\ setup \in [Clients -> {"None", "M1Sent", "M3Sent", "Complete", "Failed"}]
  /\ secret \in [Clients -> Secrets] /\ cipher \in [Clients -> Secrets]
  /\ asked \in [Clients -> Seq(Waiting)] /\ answered \in [Clients -> Seq(Answers)]
  /\ exchange \in Clients \cup {"none"}
  /\ receiverKeys \in [Clients -> Secrets]
  /\ \A c \in Clients : (cipher[c] = NoSecret) = (stage[c] # "Complete")

\* A connection that has a cipher has the keys the receiver derived for it, in an exchange
\* of its own and from the same PIN, whoever else was pairing meanwhile.
KeysAgree ==
  \A c \in Clients : cipher[c] # NoSecret =>
    /\ cipher[c] = receiverKeys[c]
    /\ cipher[c].exchange = c
    /\ receiverPin = pin[c]

\* A step of the handshake never finds the answer to an earlier one: nothing is on its way
\* but what it waits for. A connection that is handed out may be behind by the options.
InStepUntilPaired ==
  \A c \in Clients : pc[c] # "failed" =>
    LET owed == asked[c] \o [i \in DOMAIN answered[c] |-> answered[c][i].to]
    IN owed \in {<<>>, <<IF pc[c] = "paired" THEN "probe" ELSE pc[c]>>}
=============================================================================
