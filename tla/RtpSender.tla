----------------------------- MODULE RtpSender -----------------------------
(***************************************************************************)
(* RtpSender (src/audio/rtp/sender.rs): the sequence numbers of the audio  *)
(* packets of one receiver, the ring of recent packets its retransmissions *)
(* are served from, and the numbering of its sync packets. Every method    *)
(* runs under the streamer's lock, so each is one action: the streaming    *)
(* task prepares, the caller resets, the control listener retransmits.     *)
(*                                                                         *)
(* A packet is its 16-bit sequence number and, for the properties only,    *)
(* its number since the sender was made. Payload, cipher and header layout *)
(* are left out: encrypt_payload failing leaves the sender as it was, and  *)
(* every stored packet has a header of twelve bytes, so it is never too    *)
(* short to hold the sequence number handle_retransmit reads back.         *)
(***************************************************************************)
EXTENDS Integers, Sequences, SequencesExt

CONSTANTS
  SeqSpace,      \* 2^16, the range of a u16
  HistorySize,   \* PACKET_HISTORY_SIZE
  MaxPackets,    \* bound of the model: audio packets ever prepared
  MaxSyncs       \* bound of the model: sync packets ever built

ASSUME RingAssumption ==
  /\ HistorySize \in Nat \ {0}
  /\ SeqSpace \in Nat \ {0}
  /\ \E k \in 1 .. SeqSpace : SeqSpace = HistorySize * k
  /\ MaxPackets \in Nat
  /\ MaxSyncs \in Nat

VARIABLES
  socket,         \* the data or the control socket is bound
  controlPort,    \* the sync destination has a port other than 0
  sequence,       \* RtpSender.sequence
  history,        \* RtpSender.packet_history
  prepared,       \* number of the next audio packet
  syncSequence,   \* RtpSender.sync_sequence
  firstSyncSent,  \* RtpSender.first_sync_sent
  syncs,          \* sync packets built since the last reset
  request,        \* the retransmit request handled last, if nothing else came since
  replies,        \* the set of packets resent for it
  rtxOk           \* it was handled without an error

audioVars == <<sequence, history, prepared>>
syncVars  == <<syncSequence, firstSyncSent, syncs>>
rtxVars   == <<request, replies, rtxOk>>
setupVars == <<socket, controlPort>>
vars      == <<setupVars, audioVars, syncVars, rtxVars>>

SeqNums  == 0 .. SeqSpace - 1
Slots    == 0 .. HistorySize - 1
Packets  == [seq : SeqNums, number : Nat]
NoPacket == [seq |-> -1, number |-> -1]
Syncs    == [seq : SeqNums, restart : BOOLEAN]
Requests == [first : SeqNums, count : SeqNums]

-----------------------------------------------------------------------------
(* Audio packets. *)

\* Mutant: the ring keeps the first packet it gets in a slot.
SerializeAudioOnce ==
  /\ history' = [history EXCEPT ![sequence % HistorySize] =
                   IF @ = NoPacket THEN [seq |-> sequence, number |-> prepared] ELSE @]
  /\ sequence' = (sequence + 1) % SeqSpace
  /\ prepared' = prepared + 1

\* Mutant: the sequence number grows past its width.
SerializeAudioUnwrapped ==
  /\ history' = [history EXCEPT ![sequence % HistorySize] =
                   [seq |-> sequence, number |-> prepared]]
  /\ sequence' = sequence + 1
  /\ prepared' = prepared + 1

\* serialize_audio, when the payload could be encrypted.
SerializeAudio ==
  /\ history' = [history EXCEPT ![sequence % HistorySize] =
                   [seq |-> sequence, number |-> prepared]]
  /\ sequence' = (sequence + 1) % SeqSpace
  /\ prepared' = prepared + 1

\* prepare_audio, or send_audio: without a socket the latter fails, but only after
\* the packet has been numbered and stored.
PrepareAudio ==
  /\ prepared < MaxPackets
  /\ SerializeAudio
  /\ request' = <<>> /\ replies' = {} /\ rtxOk' = TRUE
  /\ UNCHANGED <<setupVars, syncVars>>

-----------------------------------------------------------------------------
(* Sync packets. *)

\* prepare_sync and prepare_ptp_sync build different bytes from the same state. send_sync
\* looks for a socket before it builds and send_ptp_sync after, which then has numbered
\* a packet it does not send; the error ends the streaming task.
PrepareSync ==
  /\ Len(syncs) < MaxSyncs
  /\ controlPort
  /\ syncs' = Append(syncs, [seq |-> syncSequence, restart |-> ~firstSyncSent])
  /\ syncSequence' = (syncSequence + 1) % SeqSpace
  /\ firstSyncSent' = TRUE
  /\ UNCHANGED <<setupVars, audioVars, rtxVars>>

\* Mutant: the flag survives the flush.
ResetSyncStateKeepsFlag ==
  /\ syncs # <<>>
  /\ syncs' = <<>>
  /\ UNCHANGED <<setupVars, audioVars, syncSequence, firstSyncSent, rtxVars>>

ResetSyncState ==
  /\ syncs # <<>>
  /\ firstSyncSent' = FALSE
  /\ syncs' = <<>>
  /\ UNCHANGED <<setupVars, audioVars, syncSequence, rtxVars>>

-----------------------------------------------------------------------------
(* Retransmission. *)

\* The sequence number at an offset of a request: first_sequence.wrapping_add(i).
Asked(r, i) == (r.first + i) % SeqSpace

\* Mutant: whatever is in the slot is resent.
HeldUnchecked(seq) == history[seq % HistorySize] # NoPacket

\* The slot is in use, and by that very sequence number.
Held(seq) == history[seq % HistorySize] # NoPacket /\ history[seq % HistorySize].seq = seq

\* The packets resent for the first n sequence numbers asked for.
Resent(r, n) ==
  {history[Asked(r, i) % HistorySize] : i \in {j \in 0 .. n - 1 : Held(Asked(r, j))}}

\* A failing send_to ends the loop: the replies before it are out.
HandleRetransmit(r) ==
  /\ socket
  /\ request' = <<r>>
  /\ \/ rtxOk' = TRUE /\ replies' = Resent(r, r.count)
     \/ rtxOk' = FALSE /\ \E n \in 0 .. r.count - 1 : replies' = Resent(r, n)
  /\ UNCHANGED <<setupVars, audioVars, syncVars>>

-----------------------------------------------------------------------------
Init ==
  /\ socket \in BOOLEAN /\ controlPort \in BOOLEAN
  /\ sequence = 0 /\ prepared = 0
  /\ history = [i \in Slots |-> NoPacket]
  /\ syncSequence = 0 /\ firstSyncSent = FALSE /\ syncs = <<>>
  /\ request = <<>> /\ replies = {} /\ rtxOk = TRUE

Next == \/ PrepareAudio \/ PrepareSync \/ ResetSyncState
        \/ \E r \in Requests : HandleRetransmit(r)

Spec == Init /\ [][Next]_vars

-----------------------------------------------------------------------------
(* Properties. *)

\* Every variable has its type: the counters stay within a u16, the slots hold packets.
TypeOK ==
  /\ socket \in BOOLEAN /\ controlPort \in BOOLEAN
  /\ sequence \in SeqNums
  /\ history \in [Slots -> Packets \cup {NoPacket}]
  /\ prepared \in Nat
  /\ syncSequence \in SeqNums
  /\ firstSyncSent \in BOOLEAN
  /\ syncs \in Seq(Syncs)
  /\ request \in Seq(Requests)
  /\ replies \subseteq Packets
  /\ rtxOk \in BOOLEAN

\* Packet number n, as it was prepared.
Packet(n) == [seq |-> n % SeqSpace, number |-> n]
Recent(n) == n < prepared /\ prepared <= n + HistorySize

\* The ring holds exactly the last HistorySize packets, each in the slot its sequence
\* number leads to, also across the wrap of the sequence number.
RingHoldsLatest ==
  /\ sequence = prepared % SeqSpace
  /\ \A n \in 0 .. prepared - 1 : Recent(n) => history[n % HistorySize] = Packet(n)
  /\ \A i \in Slots : history[i] # NoPacket =>
       /\ Recent(history[i].number)
       /\ history[i] = Packet(history[i].number)
       /\ history[i].number % HistorySize = i

AskedFor(seq) == \E i \in 0 .. request[1].count - 1 : seq = Asked(request[1], i)

\* Only packets still in the ring are resent, each because its own sequence number was
\* asked for: never the one that took its slot or had its number a lap ago.
RepliesAreAsked ==
  \A p \in replies :
    AskedFor(p.seq) /\ p.number \in Nat /\ Recent(p.number) /\ p = Packet(p.number)

\* When handle_retransmit returns Ok, every packet it was asked for that is among the
\* last HistorySize has been resent.
RepliesAreComplete ==
  (request # <<>> /\ rtxOk) =>
    \A n \in 0 .. prepared - 1 :
      (Recent(n) /\ AskedFor(n % SeqSpace)) => Packet(n) \in replies

\* An answer is exact: nothing but what was asked for and is still held, and all of it.
RepliesAreExact == RepliesAreAsked /\ RepliesAreComplete

\* Since a flush, the first sync packet and no other tells the receiver to start over,
\* and sync packets are numbered without a gap.
SyncRestarts ==
  \A i \in DOMAIN syncs :
    /\ syncs[i].restart <=> i = 1
    /\ syncs[i].seq = (syncs[1].seq + i - 1) % SeqSpace
=============================================================================
