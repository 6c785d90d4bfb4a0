--------------------------- MODULE AudioPipeline ---------------------------
(***************************************************************************)
(* The audio path of one stream, from the application's live PCM channel   *)
(* to the UDP sockets (src/audio/streamer.rs, sender_thread.rs, buffer.rs, *)
(* and the channel side of live_decoder.rs).                               *)
(*                                                                         *)
(* Four actors run concurrently:                                           *)
(*   - the source, which owns the LiveFrameSender;                         *)
(*   - the caller of the API (start, pause, resume, stop), one call at a   *)
(*     time because the methods take &mut self;                            *)
(*   - the tokio task run_streamer, which decodes, buffers, encodes and    *)
(*     hands packets to a blocking send;                                   *)
(*   - the real-time thread sender_thread_main, which paces them out.      *)
(* The caller and the task share StreamerInner under a mutex: every action *)
(* below is one critical section, so the mutex itself is not a variable.   *)
(*                                                                         *)
(* One live frame stands for the PCM of one RTP packet (the re-chunking is *)
(* LiveAudioDecoder's own), the encoder's timestamp counts packets, its    *)
(* 32-bit RTP form wraps, and `wire' records the packets handed to the     *)
(* data socket, in order.                                                  *)
(***************************************************************************)
EXTENDS Naturals, Sequences, SequencesExt

CONSTANTS
  LiveCap,        \* capacity of the live PCM channel
  BufCap,         \* AudioBuffer.capacity_frames
  ChanCap,        \* SENDER_CHANNEL_CAPACITY
  PacketSamples,  \* frames_per_packet: what one packet adds to the timestamp
  SampleRate,     \* sample_rate: the distance in samples that forces a sync
  TimestampSpace, \* the number of RTP timestamps: 2^32
  SyncPort,       \* whether the first receiver has a port for sync packets
  MaxFrames       \* bound of the model: frames the source ever offers

LowWatermarkPercent == 40     \* BUFFER_LOW_WATERMARK_PERCENT
ResumeFillPercent   == 10     \* BUFFER_RESUME_FILL_PERCENT
DecodeBatchLimit    == 3      \* DECODE_BATCH_LIMIT

ASSUME ConstantsAssumption ==
  /\ LiveCap \in Nat \ {0}
  /\ ChanCap \in Nat \ {0}
  /\ PacketSamples \in Nat \ {0}
  /\ SampleRate \in Nat \ {0}
  /\ TimestampSpace \in Nat /\ SampleRate + PacketSamples <= TimestampSpace
  /\ SyncPort \in BOOLEAN
  /\ MaxFrames \in Nat
  /\ BufCap \in Nat /\ BufCap >= 4   \* 2000 ms of packets

VARIABLES
  nextFrame,   \* source: number of the next frame it will offer
  srcOpen,     \* source: the LiveFrameSender still exists
  live,        \* the live PCM channel
  hasDecoder,  \* StreamerInner.live_decoder is Some
  eof,         \* LiveAudioDecoder.eof
  buffer,      \* StreamerInner.buffer
  state,       \* StreamerInner.state
  ts,          \* the encoder's timestamp, in packets
  firstSent,   \* StreamerInner.first_packet_sent
  lastSync,    \* StreamerInner.last_sync_rtp
  task,        \* where run_streamer is
  aborted,     \* JoinHandle::abort was called on it
  pending,     \* the message its spawn_blocking send is trying to deliver
  threaded,    \* a sender thread was started (else packets go out directly)
  txOpen,      \* AudioStreamer.sender_tx is Some
  chan,        \* the bounded channel to the sender thread
  thread,      \* where sender_thread_main is
  held,        \* the packet in its burst buffer
  wire,        \* packets handed to the sockets so far
  api,         \* the call the owner of the streamer is in
  desync       \* history: why thread and state may disagree about a pause

sourceVars == <<nextFrame, srcOpen, live>>
innerVars  == <<hasDecoder, eof, buffer, state, ts, firstSent, lastSync>>
taskVars   == <<task, aborted, pending>>
threadVars == <<threaded, thread, held, wire>>
vars == <<sourceVars, innerVars, taskVars, threadVars, txOpen, chan, api, desync>>

Frames       == 1..MaxFrames
StreamStates == {"Idle", "Buffering", "Streaming", "Paused", "Stopped", "Error"}
Packets      == [kind : {"Packet"}, frame : Frames, sync : BOOLEAN]
Pause        == [kind |-> "Pause"]
Resume       == [kind |-> "Resume"]
Stop         == [kind |-> "Stop"]
Messages     == Packets \cup {Pause, Resume, Stop}

-----------------------------------------------------------------------------
(* AudioBuffer and the decoder, as the task sees them. *)

FillBelow(buf, percent) == Len(buf) * 100 < percent * BufCap
FillAbove(buf, percent) == Len(buf) * 100 > percent * BufCap

\* Mutant: one refill takes all there is.
BatchSizeUnlimited ==
  IF FillBelow(buffer, LowWatermarkPercent) /\ hasDecoder /\ ~eof THEN Len(live) ELSE 0

\* How many frames one refill takes: decode_some_inner stops at the batch limit
\* or at the first receive that yields nothing.
BatchSize ==
  IF FillBelow(buffer, LowWatermarkPercent) /\ hasDecoder /\ ~eof
  THEN IF Len(live) < DecodeBatchLimit THEN Len(live) ELSE DecodeBatchLimit
  ELSE 0

\* Mutant: new frames are pushed at the wrong end.
RefilledAtFront == SubSeq(live, 1, BatchSize) \o buffer

Refilled == buffer \o SubSeq(live, 1, BatchSize)

\* Mutant: a disconnected channel is taken for an empty one.
EofNeverSeen == eof

\* The receive after the last frame finds the channel disconnected.
EofAfterRefill ==
  \/ eof
  \/ /\ FillBelow(buffer, LowWatermarkPercent)
     /\ hasDecoder
     /\ ~srcOpen
     /\ Len(live) < DecodeBatchLimit

Refill ==
  /\ live' = SubSeq(live, BatchSize + 1, Len(live))
  /\ eof' = EofAfterRefill

\* buffering_action: the three outcomes, on the buffer as the refill left it.
Ready      == state # "Buffering" \/ FillAbove(Refilled, ResumeFillPercent)
StopAtEof  == ~Ready /\ hasDecoder /\ EofAfterRefill /\ Refilled = <<>>
Wait       == ~Ready /\ ~StopAtEof
ReadyState == IF state = "Buffering" THEN "Streaming" ELSE state

\* packet.timestamp as u32, and wrapping_sub.
RtpTs == (ts * PacketSamples) % TimestampSpace

WrappingSub(a, b) == (a + TimestampSpace - b) % TimestampSpace

\* Mutant: the subtraction saturates.
NeedSyncSaturating ==
  \/ ~firstSent
  \/ lastSync = 0
  \/ RtpTs >= lastSync /\ RtpTs - lastSync >= SampleRate

NeedSync == ~firstSent \/ lastSync = 0 \/ WrappingSub(RtpTs, lastSync) >= SampleRate

\* prepare_sync makes nothing of a sync that is due if there is no port for it.
PreparesSync == NeedSync /\ SyncPort

-----------------------------------------------------------------------------
(* The channel to the sender thread. *)

\* try_send: refused when the queue is full or the receiver is gone.
Accepts == thread # "exited" /\ Len(chan) < ChanCap

TrySend(m) == chan' = IF Accepts THEN Append(chan, m) ELSE chan

\* run_streamer has returned, and dropped the sender it was given.
Returned == task \in {"failing", "done"}

\* Every Sender is gone: the streamer's, the task's and that of a blocking send.
Disconnected == ~txOpen /\ Returned /\ pending = <<>>

-----------------------------------------------------------------------------
(* The source. *)

\* A push needs the decoder's end of the channel, which stop drops.
Push ==
  /\ srcOpen
  /\ hasDecoder \/ api = "new"
  /\ nextFrame <= MaxFrames
  /\ Len(live) < LiveCap
  /\ live' = Append(live, nextFrame)
  /\ nextFrame' = nextFrame + 1
  /\ UNCHANGED <<srcOpen, innerVars, taskVars, threadVars, txOpen, chan, api, desync>>

CloseSource ==
  /\ srcOpen
  /\ srcOpen' = FALSE
  /\ UNCHANGED <<nextFrame, live, innerVars, taskVars, threadVars, txOpen, chan, api, desync>>

-----------------------------------------------------------------------------
(* The API. *)

\* start_live, on the freshly made streamer both call sites pass it.
StartLive ==
  /\ api = "new"
  /\ hasDecoder' = TRUE
  /\ state' = "Buffering"
  /\ task' = "check"
  /\ threaded' \in BOOLEAN
  /\ txOpen' = threaded'
  /\ thread' = IF threaded' THEN "recv" ELSE "none"
  /\ api' = "idle"
  /\ UNCHANGED <<sourceVars, eof, buffer, ts, firstSent, lastSync, aborted, pending,
                 held, wire, chan, desync>>

Signal(m) ==
  IF txOpen
  THEN /\ TrySend(m)
       /\ desync' = IF Accepts THEN desync ELSE desync \cup {"refused"}
  ELSE UNCHANGED <<chan, desync>>

\* Mutant: a stream that still buffers is paused too.
PauseStreamUnguarded ==
  /\ api = "idle"
  /\ api' = "flush"
  /\ Signal(Pause)
  /\ state' = "Paused"
  /\ UNCHANGED <<sourceVars, hasDecoder, eof, buffer, ts, firstSent, lastSync,
                 taskVars, threadVars, txOpen>>

\* Connection::pause up to its FLUSH request.
PauseStream ==
  /\ api = "idle"
  /\ api' = "flush"
  /\ IF state = "Streaming"
     THEN Signal(Pause) /\ state' = "Paused"
     ELSE UNCHANGED <<chan, desync, state>>
  /\ UNCHANGED <<sourceVars, hasDecoder, eof, buffer, ts, firstSent, lastSync,
                 taskVars, threadVars, txOpen>>

\* reset_after_flush, once the FLUSH of a pause or of a stop is over.
ResetAfterFlush ==
  /\ api \in {"flush", "stopFlush"}
  /\ api' = IF api = "flush" THEN "idle" ELSE "stopped"
  /\ firstSent' = FALSE
  /\ UNCHANGED <<sourceVars, hasDecoder, eof, buffer, state, ts, lastSync,
                 taskVars, threadVars, txOpen, chan, desync>>

\* The FLUSH request of a pause failed: the call returns early.
FlushFails ==
  /\ api = "flush"
  /\ api' = "idle"
  /\ UNCHANGED <<sourceVars, innerVars, taskVars, threadVars, txOpen, chan, desync>>

\* Mutant: resuming forgets the sender thread.
ResumeStreamSilent ==
  /\ api = "idle"
  /\ state = "Paused"
  /\ state' = "Streaming"
  /\ UNCHANGED <<sourceVars, hasDecoder, eof, buffer, ts, firstSent, lastSync,
                 taskVars, threadVars, txOpen, api, chan, desync>>

ResumeStream ==
  /\ api = "idle"
  /\ state = "Paused"
  /\ Signal(Resume)
  /\ state' = "Streaming"
  /\ UNCHANGED <<sourceVars, hasDecoder, eof, buffer, ts, firstSent, lastSync,
                 taskVars, threadVars, txOpen, api>>

\* Mutant: sender_tx is kept while stop waits.
StopSignalKeepsSender ==
  /\ api = "idle"
  /\ api' = "join"
  /\ IF txOpen THEN TrySend(Stop) ELSE UNCHANGED chan
  /\ UNCHANGED <<sourceVars, innerVars, taskVars, threadVars, txOpen, desync>>

\* stop: signal the thread, give up the sender, wait for the thread ...
StopSignal ==
  /\ api = "idle"
  /\ api' = "join"
  /\ IF txOpen THEN TrySend(Stop) ELSE UNCHANGED chan
  /\ txOpen' = FALSE
  /\ UNCHANGED <<sourceVars, innerVars, taskVars, threadVars, desync>>

\* Mutant: stop does not wait for the thread.
StopJoinedEarly ==
  /\ api = "join"
  /\ api' = "abort"
  /\ aborted' = TRUE
  /\ UNCHANGED <<sourceVars, innerVars, task, pending, threadVars, txOpen, chan, desync>>

\* Mutant: the task is not aborted, only told by the state.
StopJoinedNoAbort ==
  /\ api = "join"
  /\ thread \in {"none", "exited"}
  /\ api' = "abort"
  /\ UNCHANGED <<sourceVars, innerVars, taskVars, threadVars, txOpen, chan, desync>>

\* ... then abort the task ...
StopJoined ==
  /\ api = "join"
  /\ thread \in {"none", "exited"}
  /\ api' = "abort"
  /\ aborted' = TRUE
  /\ UNCHANGED <<sourceVars, innerVars, task, pending, threadVars, txOpen, chan, desync>>

\* Mutant: the buffer is left as it is.
StopFinishKeepsBuffer ==
  /\ api = "abort"
  /\ api' = "stopFlush"
  /\ state' = "Stopped"
  /\ hasDecoder' = FALSE
  /\ live' = <<>>
  /\ UNCHANGED <<nextFrame, srcOpen, eof, buffer, ts, firstSent, lastSync, taskVars,
                 threadVars, txOpen, chan, desync>>

\* ... and only then take the lock, empty the buffer and drop the decoder.
StopFinish ==
  /\ api = "abort"
  /\ api' = "stopFlush"
  /\ state' = "Stopped"
  /\ buffer' = <<>>
  /\ hasDecoder' = FALSE
  /\ live' = <<>>
  /\ UNCHANGED <<nextFrame, srcOpen, eof, ts, firstSent, lastSync, taskVars,
                 threadVars, txOpen, chan, desync>>

Api == \/ StartLive \/ PauseStream \/ ResetAfterFlush \/ FlushFails
       \/ ResumeStream \/ StopSignal \/ StopJoined \/ StopFinish

-----------------------------------------------------------------------------
(* run_streamer. An abort takes effect at the task's next suspension, so an *)
(* aborted task may still finish the pass it is in.                         *)

\* Where a finished pass leaves the task: with a sender thread it always
\* suspends; without one it does so only if it is ahead of its deadline.
NextPass == IF ~aborted THEN {"check"}
            ELSE IF threaded THEN {"done"} ELSE {"check", "done"}

\* First critical section: look at the state, then let the lock go.
TaskCheck ==
  /\ task = "check"
  /\ UNCHANGED <<sourceVars, innerVars, aborted, pending, threadVars, txOpen, api, desync>>
  /\ \/ /\ state \in {"Stopped", "Error"}
        /\ task' = "done"
        /\ IF threaded THEN TrySend(Stop) ELSE UNCHANGED chan
     \/ /\ state = "Paused"
        /\ task' = IF aborted THEN "done" ELSE "check"
        /\ UNCHANGED chan
     \/ /\ state \notin {"Stopped", "Error", "Paused"}
        /\ task' = "fill"
        /\ UNCHANGED chan

\* Second critical section: refill, then one of the outcomes that follow.
TaskFill ==
  /\ task = "fill"
  /\ Refill
  /\ UNCHANGED <<nextFrame, srcOpen, hasDecoder, aborted, threaded, thread, held, txOpen, api>>

TaskWait ==
  /\ TaskFill
  /\ Wait
  /\ buffer' = Refilled
  /\ task' = IF aborted THEN "done" ELSE "check"
  /\ UNCHANGED <<state, ts, firstSent, lastSync, pending, wire, chan, desync>>

TaskStopAtEof ==
  /\ TaskFill
  /\ StopAtEof
  /\ buffer' = Refilled
  /\ state' = "Stopped"
  /\ task' = "done"
  /\ IF threaded THEN TrySend(Stop) ELSE UNCHANGED chan
  /\ UNCHANGED <<ts, firstSent, lastSync, pending, wire, desync>>

\* Pop, encode, prepare for every receiver, account for the packet, and either
\* hand it to a blocking send or put it on the sockets at once. last_sync_rtp moves
\* whether or not the sync that was due could be made.
TaskProduce ==
  /\ TaskFill
  /\ Ready
  /\ Refilled # <<>>
  /\ buffer' = Tail(Refilled)
  /\ state' = ReadyState
  /\ ts' = ts + 1
  /\ firstSent' = TRUE
  /\ lastSync' = IF NeedSync THEN RtpTs ELSE lastSync
  /\ LET packet == [kind |-> "Packet", frame |-> Head(Refilled), sync |-> PreparesSync]
     IN IF threaded
        THEN pending' = <<packet>> /\ task' = "send" /\ UNCHANGED wire
        ELSE wire' = Append(wire, packet) /\ task' \in NextPass /\ UNCHANGED pending
  /\ UNCHANGED <<chan, desync>>

\* Nothing to pop: record_buffer_underrun, whatever the state has become.
TaskUnderrun ==
  /\ TaskFill
  /\ Ready
  /\ Refilled = <<>>
  /\ buffer' = Refilled
  /\ state' = "Buffering"
  /\ task' \in NextPass
  /\ desync' = IF state = "Paused" THEN desync \cup {"underrun"} ELSE desync
  /\ UNCHANGED <<ts, firstSent, lastSync, pending, wire, chan>>

\* The resampler failed on a frame it had received: the frame is gone, those before
\* it are buffered. As in every failure run_streamer returns, its guard dropped, without
\* a Stop for the thread.
TaskDecodeFails ==
  /\ task = "fill"
  /\ \E n \in 1..BatchSize :
       /\ live' = SubSeq(live, n + 1, Len(live))
       /\ buffer' = buffer \o SubSeq(live, 1, n - 1)
  /\ task' = "failing"
  /\ UNCHANGED <<nextFrame, srcOpen, hasDecoder, eof, state, ts, firstSent, lastSync,
                 aborted, pending, threadVars, txOpen, chan, api, desync>>

\* Encoding, preparing or directly sending the popped frame failed.
TaskFail ==
  /\ TaskFill
  /\ Ready
  /\ Refilled # <<>>
  /\ buffer' = Tail(Refilled)
  /\ state' = ReadyState
  /\ task' = "failing"
  /\ UNCHANGED <<ts, firstSent, lastSync, pending, wire, chan, desync>>

\* What start_live wrapped around run_streamer then marks the state, whatever it has
\* become by now, unless try_lock finds the lock taken. It does not suspend in between.
TaskError ==
  /\ task = "failing"
  /\ state' \in {state, "Error"}
  /\ task' = "done"
  /\ UNCHANGED <<sourceVars, hasDecoder, eof, buffer, ts, firstSent, lastSync, aborted,
                 pending, threadVars, txOpen, chan, api, desync>>

\* Mutant: the message is kept for another attempt.
TaskSentAgain ==
  /\ task = "send"
  /\ Accepts
  /\ chan' = Append(chan, Head(pending))
  /\ task' = "check"
  /\ UNCHANGED <<sourceVars, innerVars, aborted, pending, threadVars, txOpen, api, desync>>

\* The blocking send has put the message in the channel ...
TaskSent ==
  /\ task = "send"
  /\ Accepts
  /\ chan' = Append(chan, Head(pending))
  /\ pending' = <<>>
  /\ task' = "check"
  /\ UNCHANGED <<sourceVars, innerVars, aborted, threadVars, txOpen, api, desync>>

\* ... or has found the thread gone: the loop breaks, the state stays as it is.
TaskSendFails ==
  /\ task = "send"
  /\ thread = "exited"
  /\ pending' = <<>>
  /\ task' = "done"
  /\ UNCHANGED <<sourceVars, innerVars, aborted, threadVars, txOpen, chan, api, desync>>

\* The abort takes effect. A blocking send outlives it, but only to find the
\* thread gone.
TaskCancelled ==
  /\ aborted
  /\ task \in {"check", "fill", "send"}
  /\ task' = "done"
  /\ pending' = <<>>
  /\ UNCHANGED <<sourceVars, innerVars, aborted, threadVars, txOpen, chan, api, desync>>

Task == \/ TaskCheck \/ TaskWait \/ TaskStopAtEof \/ TaskProduce \/ TaskUnderrun
        \/ TaskDecodeFails \/ TaskFail \/ TaskError \/ TaskSent \/ TaskSendFails
        \/ TaskCancelled

-----------------------------------------------------------------------------
(* sender_thread_main. *)

ThreadExits ==
  /\ thread' = "exited"
  /\ chan' = <<>>

\* Mutant: a Pause is read and forgotten.
ThreadMissesPause ==
  /\ thread = "recv"
  /\ chan # <<>>
  /\ LET m == Head(chan) IN
       \/ /\ m.kind = "Packet"
          /\ thread' = "emit" /\ held' = <<m>> /\ chan' = Tail(chan)
       \/ /\ m.kind \in {"Pause", "Resume"}
          /\ chan' = Tail(chan) /\ UNCHANGED <<thread, held>>
       \/ /\ m.kind = "Stop"
          /\ ThreadExits /\ UNCHANGED held
  /\ UNCHANGED <<sourceVars, innerVars, taskVars, threaded, wire, txOpen, api, desync>>

ThreadReceive ==
  /\ thread = "recv"
  /\ chan # <<>>
  /\ LET m == Head(chan) IN
       \/ /\ m.kind = "Packet"
          /\ thread' = "emit" /\ held' = <<m>> /\ chan' = Tail(chan)
       \/ /\ m.kind = "Pause"
          /\ thread' = "paused" /\ chan' = Tail(chan) /\ UNCHANGED held
       \/ /\ m.kind = "Resume"
          /\ chan' = Tail(chan) /\ UNCHANGED <<thread, held>>
       \/ /\ m.kind = "Stop"
          /\ ThreadExits /\ UNCHANGED held
  /\ UNCHANGED <<sourceVars, innerVars, taskVars, threaded, wire, txOpen, api, desync>>

\* The deadline has come: the packet goes to the sockets.
ThreadEmit ==
  /\ thread = "emit"
  /\ wire' = wire \o held
  /\ held' = <<>>
  /\ thread' = "recv"
  /\ UNCHANGED <<sourceVars, innerVars, taskVars, threaded, txOpen, chan, api, desync>>

\* Mutant: a paused thread throws a Stop away too.
ThreadPausedMissesStop ==
  /\ thread = "paused"
  /\ chan # <<>>
  /\ \/ Head(chan) = Resume /\ thread' = "recv"
     \/ Head(chan) # Resume /\ UNCHANGED thread
  /\ chan' = Tail(chan)
  /\ UNCHANGED <<sourceVars, innerVars, taskVars, threaded, held, wire, txOpen, api, desync>>

\* Mutant: a paused thread throws a Resume away too.
ThreadPausedMissesResume ==
  /\ thread = "paused"
  /\ chan # <<>>
  /\ IF Head(chan) = Stop THEN ThreadExits
     ELSE chan' = Tail(chan) /\ UNCHANGED thread
  /\ UNCHANGED <<sourceVars, innerVars, taskVars, threaded, held, wire, txOpen, api, desync>>

\* While paused, everything but Resume and Stop is thrown away.
ThreadPaused ==
  /\ thread = "paused"
  /\ chan # <<>>
  /\ LET m == Head(chan) IN
       \/ m = Resume /\ thread' = "recv" /\ chan' = Tail(chan)
       \/ m = Stop /\ ThreadExits
       \/ m \notin {Resume, Stop} /\ chan' = Tail(chan) /\ UNCHANGED thread
  /\ UNCHANGED <<sourceVars, innerVars, taskVars, threaded, held, wire, txOpen, api, desync>>

\* All senders dropped: noticed in the main loop only, the pause loop ignores it.
ThreadDisconnected ==
  /\ thread = "recv"
  /\ chan = <<>>
  /\ Disconnected
  /\ ThreadExits
  /\ UNCHANGED <<sourceVars, innerVars, taskVars, threaded, held, wire, txOpen, api, desync>>

Thread == ThreadReceive \/ ThreadEmit \/ ThreadPaused \/ ThreadDisconnected

-----------------------------------------------------------------------------
Init ==
  /\ nextFrame = 1 /\ srcOpen = TRUE /\ live = <<>>
  /\ hasDecoder = FALSE /\ eof = FALSE /\ buffer = <<>> /\ state = "Idle"
  /\ ts = 0 /\ firstSent = FALSE /\ lastSync = 0
  /\ task = "none" /\ aborted = FALSE /\ pending = <<>>
  /\ threaded = FALSE /\ txOpen = FALSE /\ chan = <<>>
  /\ thread = "none" /\ held = <<>> /\ wire = <<>>
  /\ api = "new" /\ desync = {}

Next == Push \/ CloseSource \/ Api \/ Task \/ Thread

Spec == Init /\ [][Next]_vars

\* The tokio runtime polls the task and the caller's future, and the kernel runs
\* the sender thread; a blocking send gets the free slot it waits for. Nothing
\* makes the application produce, close, pause, resume or stop.
FairSpec ==
  /\ Spec
  /\ WF_vars(Task)
  /\ WF_vars(Thread)
  /\ WF_vars(StopJoined \/ StopFinish \/ ResetAfterFlush \/ FlushFails)

-----------------------------------------------------------------------------
(* Properties. *)

SourceOK ==
  /\ nextFrame \in 1..(MaxFrames + 1)
  /\ srcOpen \in BOOLEAN
  /\ live \in Seq(Frames)

InnerOK ==
  /\ hasDecoder \in BOOLEAN
  /\ eof \in BOOLEAN
  /\ buffer \in Seq(Frames)
  /\ state \in StreamStates
  /\ ts \in Nat
  /\ firstSent \in BOOLEAN
  /\ lastSync \in 0..(TimestampSpace - 1)

TaskOK ==
  /\ task \in {"none", "check", "fill", "send", "failing", "done"}
  /\ aborted \in BOOLEAN
  /\ pending \in Seq(Packets)
  /\ (task = "send") <=> (pending # <<>>)

ThreadOK ==
  /\ threaded \in BOOLEAN
  /\ thread \in {"none", "recv", "emit", "paused", "exited"}
  /\ held \in Seq(Packets)
  /\ wire \in Seq(Packets)

CallOK ==
  /\ txOpen \in BOOLEAN
  /\ chan \in Seq(Messages)
  /\ api \in {"new", "idle", "flush", "join", "abort", "stopFlush", "stopped"}
  /\ desync \subseteq {"refused", "underrun"}

NotStarted == api = "new" => task = "none"

\* Every variable has its type, there is no task before start_live, and the task is in a
\* blocking send exactly when a message is pending.
TypeOK == SourceOK /\ InnerOK /\ TaskOK /\ ThreadOK /\ CallOK /\ NotStarted

\* Everything between the source and the network, oldest first: what the task has made
\* packets of, signals in between, and what it has not come to yet.
IsPacket(m) == m.kind = "Packet"
Made   == wire \o held \o chan \o pending
Unmade == buffer \o live

\* No frame is duplicated or overtaken on its way through the live channel, the
\* buffer, the blocking send, the sender channel and the thread.
InOrder ==
  /\ \A i, j \in DOMAIN Made :
       i < j /\ IsPacket(Made[i]) /\ IsPacket(Made[j]) => Made[i].frame < Made[j].frame
  /\ \A i, j \in DOMAIN Unmade : i < j => Unmade[i] < Unmade[j]
  /\ \A i \in DOMAIN Made, j \in DOMAIN Unmade : IsPacket(Made[i]) => Made[i].frame < Unmade[j]

\* AudioBuffer::push never meets a full buffer, so BufferOverflow cannot end the task:
\* refilling stops at the low watermark and one batch always fits above it.
BufferFits == Len(Refilled) <= BufCap

\* A receiver that can be sent sync packets is never left without one for sample_rate
\* samples, also when the 32-bit timestamps wrap: a packet made without one has, less
\* than SampleRate samples before it, a packet made with one, unless that was thrown away.
SyncSpacing ==
  SyncPort => \A p \in ToSet(Made) : IsPacket(p) /\ ~p.sync =>
    \E f \in Frames :
      /\ f < p.frame /\ (p.frame - f) * PacketSamples < SampleRate
      /\ \A q \in ToSet(Made) : IsPacket(q) /\ q.frame = f => q.sync

\* What the sender thread will be doing once it has read the signals queued for it.
WillBePaused ==
  \/ \E i \in DOMAIN chan :
       chan[i] = Pause /\ \A j \in DOMAIN chan : j > i => chan[j] # Resume
  \/ thread = "paused" /\ \A j \in DOMAIN chan : chan[j] # Resume

\* The sender thread and StreamerInner.state agree on whether the stream is paused,
\* except after one of two events: a full channel refused a Pause or a Resume, or an
\* underrun turned a Paused state into Buffering.
SignalsAgree ==
  (threaded /\ desync = {} /\ thread # "exited"
     /\ state \in {"Buffering", "Streaming", "Paused"})
  => (WillBePaused <=> state = "Paused")

\* Once stop has returned from its last critical section nothing reaches the wire,
\* whatever the aborted task still does.
StopIsFinal == [][(api \in {"stopFlush", "stopped"}) => wire' = wire]_vars

FramesOf(packets) == [i \in DOMAIN packets |-> packets[i].frame]
FramesIn(s) == {s[i].frame : i \in {j \in DOMAIN s : IsPacket(s[j])}}

\* The whole pipeline plays in order and loses frames only to a paused or finished
\* thread, to a task that ends, or to stop. What waits to be played is in what the thread
\* holds, the sender channel, the blocking send, the buffer or the live channel.
Output == IF api \in {"stopFlush", "stopped"} THEN "stopped"
          ELSE IF thread \in {"paused", "exited"} THEN "muted" ELSE "on"

Waiting == FramesIn(held) \cup FramesIn(chan) \cup FramesIn(pending)
             \cup ToSet(buffer) \cup ToSet(live)

Abstract == INSTANCE Playout WITH
  accepted <- nextFrame - 1,
  waiting  <- Waiting,
  played   <- FramesOf(wire),
  output   <- Output,
  ended    <- Returned

ImplementsPlayout == Abstract!Spec

\* To the owner of the streamer all of this is the life of one Streamer: it is started
\* once, only an underrun or a failure takes it out of Paused unasked, and nothing, not
\* even a task that is still in a pass or has just failed, brings it back to Streaming
\* after stop.
Life == INSTANCE Streamer WITH
  streamer <- [state |-> state,
               task  |-> IF task \in {"none", "done"} THEN task
                         ELSE IF api \in {"stopFlush", "stopped"} THEN "aborted" ELSE "running"]

LivesAsStreamer == Life!Spec

-----------------------------------------------------------------------------
(* Liveness, under FairSpec. *)

StopQueued == \E i \in DOMAIN chan : chan[i] = Stop

\* A stop whose message made it into the channel returns, even to a paused thread and
\* with the task blocked on a full channel.
StopCompletes == (api = "join" /\ StopQueued) ~> (api = "stopped")

\* Frames too few to resume playback that no further frame will join.
Stranded ==
  state = "Buffering" /\ eof /\ buffer # <<>> /\ ~FillAbove(buffer, ResumeFillPercent)

\* A stop whose message was refused waits for the source to end; it then returns
\* unless the stream or the thread is paused or the last frames are stranded.
StopWithoutSignal ==
  (api = "join" /\ ~srcOpen)
     ~> (api = "stopped" \/ state = "Paused" \/ thread = "paused" \/ Stranded)

\* After stop the task ends, even if it overwrote the Stopped state on its way out.
TaskReleased == (api = "stopped") ~> (task = "done")

\* When the source ends, the task plays out the buffer and ends, unless the stream is
\* paused, stop is called, or the last frames are too few to leave Buffering.
EofDrains ==
  (~srcOpen /\ api \notin {"new", "join"})
     ~> (task = "done" \/ state = "Paused" \/ Stranded \/ api = "join")

\* A pause or a resume that was not refused reaches the sender thread, unless the
\* state changes again before.
SignalsTakeEffect ==
  /\ (threaded /\ state = "Streaming" /\ thread = "paused")
       ~> (thread # "paused" \/ state = "Paused" \/ desync # {})
  /\ (threaded /\ state = "Paused" /\ thread \in {"recv", "emit"})
       ~> (thread = "paused" \/ state # "Paused" \/ desync # {})
=============================================================================
