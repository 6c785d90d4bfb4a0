----------------------------- MODULE GroupWire -----------------------------
(***************************************************************************)
(* One streamer and the several receivers of a group, from the packets the *)
(* streaming task prepares to what each receiver hears: the targets of the *)
(* sender thread (start_live in src/audio/streamer.rs), its pause loop and *)
(* its fan-out (sender_thread.rs), the marker and the flagged sync packet  *)
(* that follow a flush, the group control listener that answers retransmit *)
(* requests (client/control.rs, client/group.rs), and a network that loses *)
(* packets.                                                                *)
(*                                                                         *)
(* Receiver 0 is the primary. Every RtpSender prepares every packet, so    *)
(* their sequence numbers move in step: a packet is its number, and what   *)
(* receiver r's sender sealed is told by its owner. How frames get to the  *)
(* task, and how the stream ends, is AudioPipeline's; here the task finds  *)
(* the buffer filled or empty as it may.                                   *)
(***************************************************************************)
EXTENDS Naturals, Sequences, FiniteSets

CONSTANTS
  Members,        \* connections in the group besides the primary
  HistorySize,    \* PACKET_HISTORY_SIZE
  ChanCap,        \* SENDER_CHANNEL_CAPACITY
  MaxPackets,     \* bound of the model: packets ever prepared
  MaxPauses       \* bound of the model: pauses ever asked for

ASSUME GroupAssumption ==
  /\ {HistorySize, ChanCap} \subseteq Nat \ {0}
  /\ {Members, MaxPackets, MaxPauses} \subseteq Nat

VARIABLES
  targets,     \* receivers whose data socket could be cloned, in order
  listening,   \* receivers whose control socket could be cloned
  syncing,     \* the primary has a port for sync packets
  state,       \* StreamerInner.state
  firstSent,   \* StreamerInner.first_packet_sent
  flagSent,    \* first_sync_sent of the primary's sender
  task,        \* where run_streamer is
  pending,     \* the message its blocking send is trying to deliver
  prepared,    \* number of the next packet
  chan,        \* the bounded channel to the sender thread
  thread,      \* where sender_thread_main is
  held,        \* the packet in its burst buffer
  api,         \* the call the owner of the streamer is in
  pauses,      \* pauses asked for so far
  base,        \* history: `prepared' when the last flush was over
  emitted,     \* history: packets the thread put on the sockets
  thrown,      \* history: numbers of those it threw away
  unmarked,    \* history: why the marked packet since then may have been thrown away
  heard        \* what reached each receiver

setupVars  == <<targets, listening, syncing>>
streamVars == <<state, firstSent, flagSent>>
taskVars   == <<task, pending, prepared>>
threadVars == <<thread, held, emitted, thrown>>
apiVars    == <<api, pauses, base>>
vars == <<setupVars, streamVars, taskVars, chan, threadVars, apiVars, unmarked, heard>>

Receivers == 0 .. Members
Pause  == [kind |-> "Pause"]
Resume == [kind |-> "Resume"]

-----------------------------------------------------------------------------
(* The API: pause and resume of the group. *)

Accepts    == Len(chan) < ChanCap
TrySend(m) == chan' = IF Accepts THEN Append(chan, m) ELSE chan

\* The group's pause up to its FLUSH requests: only a Streaming stream is paused.
PauseStream ==
  /\ api = "idle" /\ pauses < MaxPauses
  /\ api' = "flush" /\ pauses' = pauses + 1
  /\ IF state = "Streaming"
     THEN TrySend(Pause) /\ state' = "Paused"
     ELSE UNCHANGED <<chan, state>>
  /\ UNCHANGED <<setupVars, firstSent, flagSent, taskVars, threadVars, base, unmarked, heard>>

\* Mutant: the streamer forgets to start over with a marked packet.
ResetKeepsFirstSent ==
  /\ api = "flush" /\ api' = "idle"
  /\ flagSent' = FALSE
  /\ base' = prepared /\ unmarked' = {}
  /\ UNCHANGED <<setupVars, state, firstSent, taskVars, chan, threadVars, pauses, heard>>

\* The receivers have flushed: reset_after_flush.
ResetAfterFlush ==
  /\ api = "flush" /\ api' = "idle"
  /\ firstSent' = FALSE /\ flagSent' = FALSE
  /\ base' = prepared /\ unmarked' = {}
  /\ UNCHANGED <<setupVars, state, taskVars, chan, threadVars, pauses, heard>>

\* The primary's FLUSH failed: the call returns before the reset.
FlushFails ==
  /\ api = "flush" /\ api' = "idle"
  /\ unmarked' = unmarked \cup {"no flush"}
  /\ UNCHANGED <<setupVars, streamVars, taskVars, chan, threadVars, pauses, base, heard>>

ResumeStream ==
  /\ api = "idle" /\ state = "Paused"
  /\ TrySend(Resume)
  /\ state' = "Streaming"
  /\ UNCHANGED <<setupVars, firstSent, flagSent, taskVars, threadVars, apiVars, unmarked, heard>>

-----------------------------------------------------------------------------
(* run_streamer, with a sender thread. *)

TaskCheck ==
  /\ task = "check" /\ state # "Paused"
  /\ task' = "fill"
  /\ UNCHANGED <<setupVars, streamVars, pending, prepared, chan, threadVars, apiVars, unmarked, heard>>

\* Too few frames to leave Buffering.
TaskWait ==
  /\ task = "fill" /\ state = "Buffering"
  /\ task' = "check"
  /\ UNCHANGED <<setupVars, streamVars, pending, prepared, chan, threadVars, apiVars, unmarked, heard>>

\* Nothing to pop, in whatever state the stream is by now.
TaskUnderrun ==
  /\ task = "fill" /\ state # "Buffering"
  /\ task' = "check" /\ state' = "Buffering"
  /\ UNCHANGED <<setupVars, firstSent, flagSent, pending, prepared, chan, threadVars, apiVars,
                 unmarked, heard>>

\* A frame becomes one packet per receiver. The first after a reset is marked and comes
\* with a sync packet, which tells the receivers to start over if it is the first too;
\* a later packet has a sync packet when the last is long ago.
TaskPrepare ==
  /\ task = "fill" /\ prepared < MaxPackets
  /\ \E far \in BOOLEAN :
       LET sync == (~firstSent \/ far) /\ syncing IN
       /\ pending' = <<[kind |-> "Packet", number |-> prepared,
                        marker |-> ~firstSent, restart |-> sync /\ ~flagSent]>>
       /\ flagSent' = (flagSent \/ sync)
  /\ firstSent' = TRUE
  /\ prepared' = prepared + 1
  /\ state' = IF state = "Buffering" THEN "Streaming" ELSE state
  /\ task' = "send"
  /\ unmarked' = IF state = "Paused" /\ ~firstSent THEN unmarked \cup {"in flight"} ELSE unmarked
  /\ UNCHANGED <<setupVars, chan, threadVars, apiVars, heard>>

TaskSent ==
  /\ task = "send" /\ Accepts
  /\ chan' = chan \o pending /\ pending' = <<>>
  /\ task' = "check"
  /\ UNCHANGED <<setupVars, streamVars, prepared, threadVars, apiVars, unmarked, heard>>

-----------------------------------------------------------------------------
(* sender_thread_main, and the network behind it. *)

\* A datagram for each receiver that is sent one; the network loses any of them.
Delivered(sent) ==
  \E arrives \in SUBSET DOMAIN sent :
    heard' = [r \in Receivers |-> IF r \in arrives THEN heard[r] \cup {sent[r]} ELSE heard[r]]

\* The packet for the i-th target is the i-th of the packets prepared, one per receiver.
WirePacket(i) == i - 1
Fanout(p) ==
  [r \in {targets[i] : i \in DOMAIN targets} |->
     [owner  |-> WirePacket(CHOOSE i \in DOMAIN targets : targets[i] = r),
      number |-> p.number, copy |-> FALSE]]

ThreadReceive ==
  /\ thread = "recv" /\ chan # <<>>
  /\ chan' = Tail(chan)
  /\ LET m == Head(chan) IN
       \/ m.kind = "Packet" /\ thread' = "emit" /\ held' = <<m>>
       \/ m = Pause  /\ thread' = "paused" /\ UNCHANGED held
       \/ m = Resume /\ UNCHANGED <<thread, held>>
  /\ UNCHANGED <<setupVars, streamVars, taskVars, emitted, thrown, apiVars, unmarked, heard>>

ThreadEmit ==
  /\ thread = "emit" /\ thread' = "recv"
  /\ emitted' = emitted \cup {held[1]}
  /\ held' = <<>>
  /\ Delivered(Fanout(held[1]))
  /\ UNCHANGED <<setupVars, streamVars, taskVars, chan, thrown, apiVars, unmarked>>

ThreadPaused ==
  /\ thread = "paused" /\ chan # <<>>
  /\ chan' = Tail(chan)
  /\ thread' = IF Head(chan) = Resume THEN "recv" ELSE "paused"
  /\ thrown' = IF Head(chan).kind = "Packet" THEN thrown \cup {Head(chan).number} ELSE thrown
  /\ UNCHANGED <<setupVars, streamVars, taskVars, held, emitted, apiVars, unmarked, heard>>

-----------------------------------------------------------------------------
(* The receivers and the group control listener. *)

\* A receiver asks for what is missing below the latest packet it has heard.
Gaps(r) ==
  LET numbers == {p.number : p \in heard[r]}
  IN {n \in 0 .. MaxPackets : n \notin numbers /\ \E latest \in numbers : latest > n}

\* Mutant: the listener answers for the primary, as it does for a single receiver.
ServedByPrimary(r) == 0

\* The sender that answers receiver r.
ServedBy(r) == r

\* handle_retransmit_for_target, under the streamer's lock: the sender's ring holds the
\* latest packets it prepared, whether or not the thread has sent them.
Retransmit(r, n) ==
  /\ r \in listening
  /\ n \in Gaps(r)
  /\ prepared - n <= HistorySize
  /\ Delivered([q \in {r} |-> [owner |-> ServedBy(r), number |-> n, copy |-> TRUE]])
  /\ UNCHANGED <<setupVars, streamVars, taskVars, chan, threadVars, apiVars, unmarked>>

-----------------------------------------------------------------------------
\* A stream that start_live has just started: cloning a socket may have failed for any
\* receiver, but with no target at all there is no thread.
Init ==
  /\ \E cloned \in SUBSET Receivers \ {{}} :
       targets = [i \in 1 .. Cardinality(cloned) |->
                    CHOOSE r \in cloned : Cardinality({q \in cloned : q < r}) = i - 1]
  /\ listening \in SUBSET Receivers
  /\ syncing \in BOOLEAN
  /\ state = "Buffering" /\ firstSent = FALSE /\ flagSent = FALSE
  /\ task = "check" /\ pending = <<>> /\ prepared = 0
  /\ chan = <<>> /\ thread = "recv" /\ held = <<>>
  /\ api = "idle" /\ pauses = 0 /\ base = 0
  /\ emitted = {} /\ thrown = {} /\ unmarked = {}
  /\ heard = [r \in Receivers |-> {}]

Next ==
  \/ PauseStream \/ ResetAfterFlush \/ FlushFails \/ ResumeStream
  \/ TaskCheck \/ TaskWait \/ TaskUnderrun \/ TaskPrepare \/ TaskSent
  \/ ThreadReceive \/ ThreadEmit \/ ThreadPaused
  \/ \E r \in Receivers : \E n \in 0 .. MaxPackets : Retransmit(r, n)

Spec == Init /\ [][Next]_vars

-----------------------------------------------------------------------------
(* Properties. *)

Targets == {targets[i] : i \in DOMAIN targets}

\* What a receiver hears was sealed by its own sender, and a copy is never of a packet the
\* thread still has before it: the only way to hear another receiver's packet, which it
\* cannot decrypt, is that an earlier receiver's data socket could not be cloned, which
\* moves the targets against the packets.
HearsItsOwn ==
  \A r \in Receivers : \A p \in heard[r] :
    /\ p.owner = r \/ (~p.copy /\ \E q \in Receivers \ Targets : q < r)
    /\ p.number \in thrown \cup {e.number : e \in emitted}

\* The first packet the receivers are sent of what was prepared since a flush is marked,
\* and its sync packet tells them to start over. A paused thread throws that packet away
\* in two cases only: the task was past its look at the state when pause was called and made
\* the packet after the reset, or the FLUSH of the pause that caught it failed.
FlushIsMarked ==
  unmarked = {} =>
    \A p \in emitted : p.number >= base =>
      \E first \in emitted :
        /\ base <= first.number /\ first.number <= p.number
        /\ first.marker /\ (syncing => first.restart)
=============================================================================
