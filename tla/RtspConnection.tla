--------------------------- MODULE RtspConnection ---------------------------
(***************************************************************************)
(* RtspConnection (src/rtsp/connection.rs) after pairing: encrypted        *)
(* requests and responses over one TCP stream, one call of `send' at a     *)
(* time because it takes &mut self.                                        *)
(*                                                                         *)
(* Every call gives up after ten seconds without a whole response; the     *)
(* keepalive and the first RECORD are moreover wrapped in a shorter        *)
(* timeout that drops the future and goes on. Either way the future dies   *)
(* at the await it is in, and what it has written, read or decrypted stays *)
(* so, while the part of the response it had collected is lost.            *)
(*                                                                         *)
(* A response is one or more encrypted blocks, each numbered by the        *)
(* receiver's cipher; a block is read in two steps, its length prefix and  *)
(* its bytes. The receiver is external: it answers what it can decrypt,    *)
(* each request once, in order, as late as it likes, and may hang up.      *)
(***************************************************************************)
EXTENDS Naturals, Sequences, FiniteSets

CONSTANTS
  MaxRequests,     \* bound of the model: requests ever sent
  MaxBlocks        \* bound of the model: blocks of one response

ASSUME BoundsAssumption == MaxRequests \in Nat /\ MaxBlocks \in Nat \ {0}

VARIABLES
  open,      \* RtspConnection.stream is Some
  cseq,      \* RtspConnection.cseq
  phase,     \* where the running call is, "idle" if there is none
  hasty,     \* the calls wrapped in a shorter timeout
  receiver,  \* it follows our cipher, lost its place in it, or hung up; or the client knows
  inbox,     \* requests the receiver has got and not answered
  sealed,    \* blocks the receiver has encrypted
  stream,    \* blocks on their way to the client
  cut,       \* part of the first of them has been read
  opened,    \* ControlCipher.decrypt_counter
  taken,     \* response_data of the running call, as a sequence of blocks
  answers,   \* for every call that returned Ok, whose response it took
  dropped    \* the calls that were given up

client  == <<open, cseq, phase, hasty, cut, opened, taken, answers, dropped>>
network == <<receiver, inbox, sealed, stream>>
vars    == <<client, network>>

Calls    == 1 .. MaxRequests
NoAnswer == 0
Phases   == {"idle", "write", "length", "block", "garbage"}
Blocks   == [of : Calls, first : BOOLEAN, last : BOOLEAN, nonce : Nat]

\* The n blocks of the response to c, sealed in order. The first holds the headers.
Response(c, n) ==
  [i \in 1 .. n |-> [of |-> c, first |-> i = 1, last |-> i = n, nonce |-> sealed + i - 1]]

-----------------------------------------------------------------------------
(* send. *)

\* Numbers the request, serializes and encrypts it, and starts to write.
StartSend ==
  /\ open
  /\ phase = "idle"
  /\ cseq < MaxRequests
  /\ cseq' = cseq + 1
  /\ phase' = "write"
  /\ hasty' \in {hasty, hasty \cup {cseq'}}
  /\ taken' = <<>>
  /\ UNCHANGED <<open, cut, opened, answers, dropped, network>>

\* Mutant: the message carries the number the counter has moved on to.
WrittenNextNumber ==
  /\ phase = "write"
  /\ receiver # "reset"
  /\ phase' = "length"
  /\ inbox' = IF receiver = "follows" THEN Append(inbox, cseq + 1) ELSE inbox
  /\ UNCHANGED <<open, cseq, hasty, cut, opened, taken, answers, dropped,
                 receiver, sealed, stream>>

\* write_all and flush are through.
Written ==
  /\ phase = "write"
  /\ receiver # "reset"
  /\ phase' = "length"
  /\ inbox' = IF receiver = "follows" THEN Append(inbox, cseq) ELSE inbox
  /\ UNCHANGED <<open, cseq, hasty, cut, opened, taken, answers, dropped,
                 receiver, sealed, stream>>

\* Two bytes that ought to be a length, and are not if the block was cut before.
ReadLength ==
  /\ phase = "length"
  /\ stream # <<>>
  /\ phase' = IF cut THEN "garbage" ELSE "block"
  /\ cut' = TRUE
  /\ UNCHANGED <<open, cseq, hasty, opened, taken, answers, dropped, network>>

\* The block follows and leaves the stream.
Consume ==
  /\ phase = "block"
  /\ stream # <<>>
  /\ stream' = Tail(stream)
  /\ cut' = FALSE
  /\ UNCHANGED <<open, cseq, hasty, dropped, receiver, inbox, sealed>>

Collected == Append(taken, Head(stream))

\* Mutant: the headers are enough, whatever the length of the body.
IsWholeAtHeaders(data) == \E i \in 1 .. Len(data) : data[i].first

\* Some header ends in what was collected, and its body ends with the last block.
IsWhole(data) ==
  /\ data[Len(data)].last
  /\ \E i \in 1 .. Len(data) : data[i].first

Decrypts ==
  /\ Consume
  /\ Head(stream).nonce = opened
  /\ opened' = opened + 1

\* Mutant: a call reads one block, and returns with it.
ReadMoreNever ==
  /\ Decrypts
  /\ ~IsWhole(Collected)
  /\ phase' = "idle"
  /\ taken' = <<>>
  /\ answers' = [answers EXCEPT ![cseq] = Head(stream).of]

\* The response goes on in the next block.
ReadMore ==
  /\ Decrypts
  /\ ~IsWhole(Collected)
  /\ phase' = "length"
  /\ taken' = Collected
  /\ UNCHANGED answers

\* The response is whole and parses: Ok, whatever its CSeq says.
ReadOk ==
  /\ Decrypts
  /\ IsWhole(Collected)
  /\ Collected[1].first
  /\ phase' = "idle"
  /\ taken' = <<>>
  /\ answers' = [answers EXCEPT ![cseq] = Head(stream).of]

\* It starts with what a dropped call has left of another: no status line, an error.
ReadUnparsable ==
  /\ Decrypts
  /\ IsWhole(Collected)
  /\ ~Collected[1].first
  /\ phase' = "idle"
  /\ taken' = <<>>
  /\ UNCHANGED answers

\* A whole block under another number: an error, and the counter stays.
ReadUndecryptable ==
  /\ Consume
  /\ Head(stream).nonce # opened
  /\ phase' = "idle"
  /\ UNCHANGED <<opened, taken, answers>>

\* The rest of the first block and of n - 1 more is swallowed, and the next may be cut.
Swallow(n) ==
  /\ stream' = SubSeq(stream, n + 1, Len(stream))
  /\ cut' \in IF n = 0 THEN {cut} ELSE {FALSE, stream' # <<>>}

\* Mutant: the counter moves whether or not the bytes decrypt.
ReadGarbageCounted ==
  /\ phase = "garbage"
  /\ \E n \in 0 .. Len(stream) : Swallow(n)
  /\ phase' = "idle"
  /\ opened' = opened + 1
  /\ UNCHANGED <<open, cseq, hasty, taken, answers, dropped, receiver, inbox, sealed>>

\* Whatever was read as a length asks for that many bytes; they do not decrypt.
ReadGarbage ==
  /\ phase = "garbage"
  /\ \E n \in 0 .. Len(stream) : Swallow(n)
  /\ phase' = "idle"
  /\ UNCHANGED <<open, cseq, hasty, opened, taken, answers, dropped, receiver, inbox, sealed>>

\* The write fails, as every later one will, or the stream ends.
Fail ==
  /\ receiver \in {"gone", "reset"}
  /\ \/ phase = "write" /\ receiver' = "reset"
     \/ phase \in {"length", "block", "garbage"} /\ stream = <<>> /\ UNCHANGED receiver
  /\ phase' = "idle"
  /\ UNCHANGED <<open, cseq, hasty, cut, opened, taken, answers, dropped,
                 inbox, sealed, stream>>

\* Mutant: nothing cuts short the reading of a block.
GiveUpEarly ==
  /\ \/ phase = "write" /\ cseq \in hasty
     \/ phase = "length"
  /\ phase' = "idle"
  /\ dropped' = dropped \cup {cseq}
  /\ receiver' = IF phase = "write" /\ receiver = "follows" THEN "lost" ELSE receiver
  /\ cut' \in {cut, stream # <<>>}
  /\ UNCHANGED <<open, cseq, hasty, opened, taken, answers, inbox, sealed, stream>>

\* A timeout drops the call. The ten seconds of send itself cover only the response; a
\* request cut off while it was written leaves the receiver without a block it counts on.
GiveUp ==
  /\ \/ phase = "write" /\ cseq \in hasty /\ UNCHANGED <<stream, cut>>
     \/ phase = "length" /\ UNCHANGED stream /\ cut' \in {cut, stream # <<>>}
     \/ phase = "block" /\ UNCHANGED <<stream, cut>>
     \/ phase = "garbage" /\ \E n \in 0 .. Len(stream) : Swallow(n)
  /\ phase' = "idle"
  /\ dropped' = dropped \cup {cseq}
  /\ receiver' = IF phase = "write" /\ receiver = "follows" THEN "lost" ELSE receiver
  /\ UNCHANGED <<open, cseq, hasty, opened, taken, answers, inbox, sealed>>

\* close drops the TCP stream; later calls are refused.
Close ==
  /\ open
  /\ phase = "idle"
  /\ open' = FALSE
  /\ UNCHANGED <<cseq, phase, hasty, cut, opened, taken, answers, dropped, network>>

-----------------------------------------------------------------------------
(* The receiver. *)

Answer ==
  /\ inbox # <<>>
  /\ inbox' = Tail(inbox)
  /\ \E n \in 1 .. MaxBlocks :
       /\ stream' = stream \o Response(Head(inbox), n)
       /\ sealed' = sealed + n
  /\ UNCHANGED <<client, receiver>>

\* What was in flight may be lost with the connection.
HangUp ==
  /\ receiver \in {"follows", "lost"}
  /\ receiver' = "gone"
  /\ inbox' = <<>>
  /\ \E n \in 0 .. Len(stream) : stream' = SubSeq(stream, 1, n)
  /\ UNCHANGED <<client, sealed>>

-----------------------------------------------------------------------------
Init ==
  /\ open = TRUE /\ cseq = 0 /\ phase = "idle" /\ hasty = {}
  /\ receiver = "follows" /\ inbox = <<>> /\ sealed = 0 /\ stream = <<>>
  /\ cut = FALSE /\ opened = 0 /\ taken = <<>>
  /\ answers = [c \in Calls |-> NoAnswer] /\ dropped = {}

Next == \/ StartSend \/ Written \/ ReadLength
        \/ ReadMore \/ ReadOk \/ ReadUnparsable \/ ReadUndecryptable \/ ReadGarbage
        \/ Fail \/ GiveUp \/ Close
        \/ Answer \/ HangUp

Spec == Init /\ [][Next]_vars

\* The timers fire, and the kernel takes a request or fails the write. Nothing is assumed
\* of the receiver, which may stay silent for ever.
FairSpec == Spec /\ WF_vars(Written \/ Fail) /\ WF_vars(GiveUp)

-----------------------------------------------------------------------------
(* Properties. *)

\* Every variable has its type.
TypeOK ==
  /\ open \in BOOLEAN
  /\ cseq \in 0 .. MaxRequests
  /\ phase \in Phases
  /\ hasty \subseteq Calls
  /\ receiver \in {"follows", "lost", "gone", "reset"}
  /\ inbox \in Seq(Calls)
  /\ sealed \in Nat
  /\ stream \in Seq(Blocks)
  /\ cut \in BOOLEAN
  /\ opened \in Nat
  /\ taken \in Seq(Blocks)
  /\ answers \in [Calls -> 0 .. MaxRequests]
  /\ dropped \subseteq Calls

\* A response goes to one call at most, never to one made before the request it answers,
\* and responses are handed out in the order of their requests, whatever was given up,
\* cut or skipped in between.
ResponsesInOrder ==
  \A c \in Calls : answers[c] # NoAnswer =>
    /\ answers[c] <= c
    /\ \A d \in 1 .. c - 1 : answers[d] < answers[c]

\* As long as no call was given up and the receiver is there, every call that is over
\* has got the response to its own request.
InStepUntilDropped ==
  dropped = {} /\ receiver = "follows" =>
    \A c \in 1 .. cseq : answers[c] = c \/ (c = cseq /\ phase # "idle")

\* A late response is inherited by a later call: how far the response a call takes lags
\* behind its request is at most the number of calls given up before.
LagIsDropped ==
  \A c \in Calls : answers[c] # NoAnswer =>
    c - answers[c] <= Cardinality({d \in dropped : d < c})

\* The block the client's cipher waits for has been sealed and is no longer there to read.
BlockLost ==
  /\ opened < sealed
  /\ \A i \in 1 .. Len(stream) :
       stream[i].nonce = opened => i = 1 /\ cut /\ phase # "block"

\* A connection that lost a block never delivers a response again: both ciphers count,
\* and no later block, however well it is read, is taken for the missing one.
DamageIsFinal == [][BlockLost => BlockLost' /\ answers' = answers]_vars

\* No call hangs: each returns, with a response or without, even if the receiver is silent.
CallsReturn == (phase # "idle") ~> (phase = "idle")

\* What send_feedback says of a keepalive that times out ("it's just a keepalive"): as
\* long as only calls under a shorter timeout were given up, every other call still gets
\* the response to its own request.
KeepaliveIsHarmless ==
  dropped \subseteq hasty => \A c \in Calls : answers[c] \in {NoAnswer, c}
=============================================================================
