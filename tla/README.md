# liba2 in TLA+

liba2 is an AirPlay 2 sender: it finds receivers on the network, pairs with one or several of
them, sets up an RTSP session over an encrypted control connection, and streams live PCM as
encrypted RTP to each, either from its own clock (NTP) or from the receivers' (PTP). This
directory holds TLA+ models of the library's stateful parts, TLC runs that check them on small
instances, and TLAPS proofs of the main results for all values of the constants.

All paths below are relative to the crate's `src/`.

## How to run

    tlc -config MCAudioPipeline.cfg  MCAudioPipeline.tla     # likewise the other .cfg files
    tlapm RtspConnection_proofs.tla                          # likewise the other *_proofs.tla

`PROJECT.json` lists the runs, the source lines every definition models, the hazards, the
theorems and, for every property, a plausible bug in the code (a *mutant*) that makes TLC
report that property violated. The mutant operators stand in the modules beside the
definitions they change, under a comment that begins with "Mutant".

## 1. Inventory

### Components

| component | source | state it keeps | operations |
|---|---|---|---|
| Streamer | `audio/streamer.rs`, `audio/buffer.rs` | `StreamerInner` under a mutex: stream state, buffer, decoder, encoder timestamp, `first_packet_sent`, `last_sync_rtp`; outside it `sender_tx`, the thread's and the task's handles | `start_live`, `pause`, `resume`, `reset_after_flush`, `stop`; the task `run_streamer` |
| Sender thread | `audio/sender_thread.rs` | paused or not, the burst in hand, the pacing deadline | `sender_thread_main`: receive, pace, emit, pause, stop |
| Live decoder | `audio/live_decoder.rs`, `audio/resampler.rs` | live channel, pending samples, EOF flag | `LiveFrameSender::send`, `decode_frame` / `decode_resampled` |
| RTP sender | `audio/rtp/sender.rs`, `rtp/retransmit.rs` | 16-bit sequence, 512-slot history ring, sync sequence, first-sync flag | `prepare_*`, `send_*`, `reset_sync_state`, `handle_retransmit` |
| RTSP connection | `rtsp/connection.rs`, `crypto/chacha.rs` | TCP stream, CSeq, the two block counters of `ControlCipher` | `connect`, `send`, `enable_encryption`, `close` |
| Session and connection | `rtsp/session.rs`, `client/connection.rs` | `SessionState`, `PlaybackState`, streamer, control listener, volume | connect, set up, start, pause, resume, stop, disconnect, keepalive |
| Group and API | `client/group.rs`, `client/api.rs` | member connections, shared streamer, playback state | the same for several receivers |
| Control listener | `client/control.rs`, `client/stats.rs` | running flag, counters | retransmit requests to replies |
| Pairing and handshake | `client/handshake.rs`, `pairing/*` | pair-setup state, session keys | transient pair-setup, `/info`, options probe |
| Timing | `timing/ptp/*`, `timing/ntp.rs`, `timing/clock.rs` | timestamps of the running exchange, best offset, master election | PTP slave loop, BMCA yield, NTP responder |
| Discovery | `discovery/*` | device table, running flag | scan, browse, event stream |
| Data | `core/*`, `crypto/{srp,keys,hkdf,tlv}.rs`, `rtsp/{request,plist_codec}.rs`, `audio/{encoder,cipher,rtp/packet}.rs` | none over time | encodings and arithmetic |

### How they interact

The application owns a `LiveFrameSender`, the back of a bounded channel. `run_streamer`, a
tokio task, takes frames off its front in batches into the `AudioBuffer`, pops one, encodes it,
lets every `RtpSender` number, encrypt and remember it, and hands the packets to a *blocking*
send into a second bounded channel (`SENDER_CHANNEL_CAPACITY`), from which a real-time OS thread
paces them to the UDP sockets. Pause, Resume and Stop travel in the same channel as the packets,
but by `try_send`. The caller's methods and the task share `StreamerInner` under an async mutex;
the thread shares nothing but the channel. The control listener, a further task, locks the
streamer to answer retransmit requests from the ring. `Connection` orders streamer, RTSP
requests, `RtspSession` and its reported playback state by hand, one after the other, with an
early return at every failure; the group does so for several connections.

RTSP requests are answered over one TCP stream. `send` takes `&mut self`, so there is one call
at a time, but it is cancelled by its own ten-second timeout, and by the shorter timeouts that
`send_feedback` and the first RECORD wrap around it.

### What is hard

Concurrency between four actors in the audio path; a lock released between two critical
sections of one pass of the task; control messages that a full queue refuses; a join before an
abort; the loss of a future in the middle of a read; late responses; a sequence number that
wraps at another period than its ring; multi-step operations that fail half-way. The list, with
the line at which each bites and the properties about it, is `hazards` in `PROJECT.json`.

### What makes each component correct

- *Audio path*: frames are played in order and at most once; frames are lost only to a pause, a
  stop or a failure; the buffer never overflows; sync packets are never too far apart; the thread
  and the state agree on a pause; nothing is sent after stop; stop, and the task, end.
- *RTP sender*: the ring holds exactly the latest packets; a retransmit answer contains nothing
  stale and misses nothing that is held; after a flush the first sync packet, and no other, says so.
- *RTSP connection*: a call gets the response to its own request, or at least none that came before
  another call's; a desynchronised cipher is never mistaken for a working one; calls return.
- *Session, connection, group*: the reported state, the session's and the streamer's agree except after
  failures that can be named; nothing that was started is left without an owner who can stop it.
- *Pairing*: keys are only installed after both proofs are verified. *Timing*: an offset combines the
  timestamps of one exchange. *Discovery*: the device table follows the announcements, and stop ends a
  browse. *Group*: every receiver hears what was sealed for it, and a flush starts all of them over.

## 2. Plan

| # | module | models | abstract specification | theorems | state |
|---|---|---|---|---|---|
| 1 | `AudioPipeline` | streamer, task, sender thread, both channels | `Playout`, `Streamer` | types, every safety property and both refinements | done, proved |
| 2 | `RtpSender` | numbering, ring, retransmission, sync flags | - | types, ring, replies, sync flags | done, proved |
| 3 | `RtspConnection` | `send` with timeouts, encrypted blocks | - | types and every safety property | done, proved |
| 4 | `PlaybackControl`, `StreamerLife` | `RtspSession`, `Connection`, `GroupSession`, `AirPlayClient` over streamers and failing requests | - | types and every property | done, proved |
| 5 | `LiveDecoder` | regrouping of samples into packets, EOF | the stream of samples | `PacketsAreTheStream` | done, proved |
| 6 | `GroupWire` | targets of a group, pause loop, marker and flagged sync, retransmission to several receivers over a lossy network | - | types, `HearsItsOwn`, `FlushIsMarked` | done, proved |
| 7 | `PairSetup` | pairing of several clients with one receiver, up to the probe | - | types, `KeysAgree`, `InStepUntilPaired` | done, proved |
| 8 | `PtpSlave` | slave loop, election, UDP that loses, doubles and reorders | one exchange, one offset | types, the offset's error, `TroubleIsForgotten`, `EveryExchangeCounts` | done, proved |
| 9 | `ServiceBrowser` | device table, running flag, blocking polls | the announced devices | `TableIsFresh` | done, proved |

`Streamer` is where two of them meet: `AudioPipeline` is proved to go through the life that
`Streamer` (over the operators of `StreamerLife`) describes, and `PlaybackControl` uses the same
operators for every streamer of a client. The NTP responder has no state but its life, which is
in `PlaybackControl`.
Every safety property of every passing run is a theorem, and so are both refinements.

## 3. The modules

### AudioPipeline

One stream, from the source's channel to the sockets. Every action is one critical section under
the `StreamerInner` mutex, or one step of the thread. `task` says where `run_streamer` is:
`check` (first lock: look at the state), `fill` (second lock: refill, pop, encode), `send`
(blocking send), `failing` (it has returned an error, its lock and its sender dropped), `done`. A
failure is thus two steps, as in the code: `TaskFail` or `TaskDecodeFails`, and later `TaskError`, the
`try_lock` that writes Error over whatever the state has become by then, Stopped included, or does not
get the lock. Between `check` and `fill` the lock is free, as in the code, so a pause or a
stop may come between. `api` says where the owner of the streamer is: in a pause up to its FLUSH
(`flush`), or in the steps of a stop: signal and give up the sender (`join`), wait for the
thread, abort (`abort`), take the lock and clear (`stopFlush`), reset after the FLUSH (`stopped`).
Both call sites make a new streamer for every `start_live` (`client/connection.rs:393`,
`client/group.rs:174`), so it is started once.

| action | code |
|---|---|
| `Push`, `CloseSource` | `LiveFrameSender`, dropped at any time |
| `StartLive` | `start_live`, with a sender thread or, when no socket could be cloned for one, without |
| `PauseStream`, `ResumeStream`, `ResetAfterFlush`, `FlushFails` | `pause`, `resume`, `reset_after_flush` and their callers in `client/connection.rs` |
| `StopSignal`, `StopJoined`, `StopFinish` | `stop` |
| `TaskCheck`, `TaskWait`, `TaskStopAtEof`, `TaskProduce`, `TaskUnderrun`, `TaskDecodeFails`, `TaskFail`, `TaskError`, `TaskSent`, `TaskSendFails`, `TaskCancelled` | `run_streamer`, `buffering_action`, `refill_buffer_if_needed`, their failures and what `start_live` makes of them, abort |
| `ThreadReceive`, `ThreadEmit`, `ThreadPaused`, `ThreadDisconnected` | `sender_thread_main` |

Abstractions. A live frame is the PCM of one packet. `ts` counts the packets encoded, so that the encoder's
timestamp is `ts * PacketSamples`; `RtpTs` is that truncated to the 32 bits of RTP (`TimestampSpace`), `lastSync`
is such a truncated value, and `NeedSync` compares the two with `WrappingSub` and takes 0 for "none yet", as
the code does. A packet goes out with a sync packet if one is due and the receiver has a port for it (`PreparesSync`:
`prepare_sync` returns `Ok(None)` without), while `lastSync` advances whenever one is due. Time is
absent: pacing, render delay, receive timeouts and clock offsets decide *when* or *with what
contents* a packet goes out, so an emission may come at any moment and a receive timeout is a
stutter. A burst is one packet. `wire` is what was handed to the sockets: the thread only logs a failed UDP
send; without a thread such a failure ends the task (`TaskFail`), and what the receivers before the
failing one of a group were sent is not counted. `state_cache` is written and never read for a decision. `packets_sent` and
`timestamp_cache` move with `ts`. An abort takes effect at the task's next suspension. The control
listener holds a clone of the streamer, hence of `sender_tx`, but every caller joins that
listener before it calls stop. A streamer that is dropped without stop is not modelled.

`Playout` is what this promises: frames are taken in order and played in order, the least that waits
first; they may be lost only while the output is muted or stopped, or when the producer ends. Frames are
numbered as they are taken, so what waits is a set. `ImplementsPlayout` is the refinement under the mapping
*waiting = thread's hand, sender channel, blocking send, buffer, live channel* (`Waiting`).

### RtpSender

The sender of one receiver. All its methods run under the streamer's lock, so each is one action:
`PrepareAudio`, `PrepareSync`, `ResetSyncState`, `HandleRetransmit`. A packet is its sequence number
and its number since the sender was made (`number`), which the code does not have and the
properties compare with. The replies to a request are the set resent; a failing `send_to` leaves a
prefix of them. `send_ptp_sync` numbers its packet before it looks for a socket, `send_sync` after:
both are `PrepareSync`, because the error ends the task. `2^16` and `512` are `SeqSpace` and
`HistorySize`, of which the model needs only that the second divides the first. Clock fields
and packet bytes are left out.

### RtspConnection

The connection after pairing, when every message is encrypted. A call goes through `phase`: `write`,
then `length` and `block` in turn for every encrypted block of the response, or `garbage` when a
previous call was dropped inside a block, so that this one reads ciphertext for a length.
`sealed` and `opened` are the block counters of the two ciphers; as in `chacha.rs`, the latter
moves only on success. `GiveUp` drops the call at any of its awaits, with exactly what the code has
by then consumed; while writing, only the `hasty` calls (those under an outer timeout) can be
dropped, since the ten seconds of `send` begin after the write. The receiver is *external*: it
answers each request it can decrypt once, in order, arbitrarily late, and may hang up, losing what is
in flight. After it has lost a block (`lost`) it can decrypt no more; after a failed write every later
write fails (`reset`). The headers of a response are taken to fit its first block. The plaintext phase
is left out: any failure in it ends the connection attempt.

### StreamerLife, Streamer, PlaybackControl

`StreamerLife` says what the methods and the task of one `AudioStreamer` do to the pair of its state
and its task (running, aborted, done), as operators on that pair: `Started`, `PausedBy`, `ResumedBy`,
`StoppedBy`, and `Moves` for what the task does by itself. `Streamer` is the specification made of them.

`PlaybackControl` is `AirPlayClient` with its connection or its group. A call is begun with the sequence
of its steps (`Steps`, one operator per method: `Connect`, `ConnectGroup`, `Start`, `StartGroup`, `Pause`,
`Resume`, `StopAll`, `DisconnectAll`), one step per await or state change, in the order of the code; `todo` is
what is left of it. A step in `Fallible` may fail for a reason outside, one in `Refused` fails on a guard of
`RtspSession` or on what the set-up left; either drops `todo`, as the early returns do, and what it
drops with it (`DropConnections`, the local streamer). Between any two steps the streamers move (`Live`,
`LocalLives`).

| action | code |
|---|---|
| `Handshake`, `StartServer`, `Phase1`, `Phase2`, `StartTiming`, `Request`, `NeedClock`, `Keep` | `Connection::connect_with_pin`, `setup`, `GroupSession` set-up, `AirPlayClient::connect*` |
| `StopListener`, `StopStreamer`, `BuildSender`, `StartLive`, `SessionPlay`, `KeepStreamer` | `start_streaming_live` of connection and group, `stop` |
| `PauseStreamer`, `ResumeStreamer`, `SessionPause`, `SessionResume`, `Report` | `pause`, `resume`, `stop` and their group versions |
| `EndTasks`, `Teardown`, `Close`, `Ungroup` | `disconnect` |
| `WaitSeesStopped` | `wait_for_completion` |

Abstractions. A request that may fail without consequence (the first RECORD, FLUSH at start and stop, those to
members) is no step. Volume and keepalive change nothing modelled here. Futures of the API that are dropped
half-way, and a client that is dropped without disconnect, are left out. `drift`, `deaf` and `lost` are history:
why report and streamer may differ, that a refused start has taken the listener, and which tasks no one can stop.

### GroupWire

Where streamer, sender thread, the `RtpSender` of every receiver, the control listener and the network meet.
Receiver 0 is the primary. `Init` is a stream just started, with any choice of data sockets that could be
cloned (`targets`), control sockets (`listening`) and a sync port (`syncing`). The i-th target gets the i-th of
the packets prepared (`Fanout`), which is what the thread does. `PauseStream`, `ResetAfterFlush`, `FlushFails`,
`ResumeStream`, the task's and the thread's actions are those of `AudioPipeline` with frames left out and the
marker of the first packet and the flag of the first sync packet kept in. `Retransmit` answers from the ring, whose
content is known from `RtpSender`: the latest `HistorySize` numbers prepared. The network loses any packet.
The end of the stream, and failures of the task, are `AudioPipeline`'s.

### LiveDecoder

Why `AudioPipeline` may take a live frame for a packet. A sample is its number in the stream; frames of any size
arrive between the receives of one `decode_resampled`, which returns a packet, or nothing when the time is over
or the channel is disconnected. Rates are equal: what the resampler makes of samples is not modelled.

### PairSetup

`connect_with_pin` over several clients that pair with one receiver at a time, each on its own connection: `/info`
(`Open`, `StartPairing`), M1 to M4 (`ContinueWithM2`, `ContinueWithM4`), the cipher, the probe (`ProbeAnswered`,
or `GiveUp`, whose error is swallowed there). The receiver is *external*: one exchange, replaced by the next M1,
forgotten at a restart, answers at any time and with any part missing (`M2Needs`, `M4Needs` list what the client
checks). SRP is symbolic: a secret is the PIN, the exchange and the client it came from, and a proof is right
exactly if the secrets are the same. `answered` and `asked` are per-connection queues, because in plaintext nothing
but the order tells one answer from another.

### PtpSlave

The slave loop (`OnSync`, `OnFollowUp`, `OnDelayResp`) and the election before it (`OpeningSent`, `Elected`,
`SendFails`, `Ignore`), over a network that is a set: `Disturb` loses or doubles a message, lateness and reordering
are any order of arrival. Exchanges are numbered in the model only; `clean` and `troubled` record which began
with nothing older under way and which were disturbed. The receiver's clock advances from Sync to Sync, and
messages otherwise take no time: the effect of delays is `OffsetError`, a theorem about the formula. The model has
no sockets. The code takes Sync and Delay_Resp on the event socket only (`slave.rs:117`, `bmca.rs:176`) and Follow_Up
on the general one (`slave.rs:169`, `bmca.rs:221`), and ignores them on the other: a message on the wrong socket is one
that `Disturb` loses.

### ServiceBrowser

The table, the running flag and the daemon's one listener per kind of service, shared by callers that browse (a
stream that is polled) or scan (a loop). `polled` says which callers occupy a worker thread: `recv_timeout` blocks it
and the stream never returns Pending. `Open`, `Subscribe`, `Check`, `Receive`, `Unsubscribe`, `Lower` are the steps of
both loops, `Handled` is `handle_service_event`, `StopLowers` and `StopUnsubscribes` are `stop`. The daemon is
*external*: it replaces its listener, tells a new one what it knows, and drops what nobody listens for. TXT records
are left out, and with them merging and records that do not parse.

## 4. The runs

| run | question | instance | why it is enough |
|---|---|---|---|
| `audio_safety` | types, order, agreement on pause, overflow, sync distance, silence after stop, refinement of `Playout` and of `Streamer`, under every interleaving | 5 frames, live channel 5, sender channel 2, buffer 4, packets of 2 samples, a sync every 3 samples, timestamps modulo 5, a sync port | 4 is the smallest capacity in which one packet is below the low watermark and a batch of three fits above; a live channel that holds all frames lets a batch be as large as it may; two slots let a refused signal and an accepted one stand beside packets; two whole sync intervals, and timestamps 0, 2, 4, 1, 3, of which the fourth has wrapped while the last sync has not. Full live channels, and frames too few to leave Buffering, are in the next run |
| `audio_liveness` | does stop return, does the task end, is EOF noticed, do signals arrive | 3 frames, live channel 1, sender channel 2, buffer 10, packets of 1 sample, no sync port | a full channel and a task blocked on it at every point of a stop; with 10, one buffered frame is not above the 10 % resume level and two are: one stranded frame |
| `rtp_sender` | ring, retransmission, sync flags | 8 numbers, 4 slots, 14 packets, 2 syncs | nearly two laps of the numbers and four of the ring, with every request (all starts, all lengths) at every point |
| `rtsp_connection` | order and lag of responses, damage, do calls return | 4 requests, responses of 1 or 2 blocks | two calls dropped at different awaits, two that inherit; every phase with a receiver that is silent or gone |
| `rtsp_keepalive` | is a timed-out keepalive harmless, as its comment says | 3 requests, 1 block | *violated*: see section 7 |
| `playback_control` | what any sequence of calls, failing anywhere, leaves of session, report, streamer, listener and tasks | a connection alone or a primary and one member; every timing protocol | the number of calls is not bounded: TLC closes the state space; members beyond the first are treated alike |
| `group_wire` | who hears what, and does a flush start the receivers over | primary and one member, 3 packets, ring 2, channel 2, 2 pauses | every choice of sockets; a packet on each side of a flush in flight, queued or thrown away; one packet that has left the ring |
| `live_decoder` | are the packets the stream | packets of 3 samples, frames of 0, 1, 4, 7, channel 3, 12 samples | less than, more than and more than twice a packet, in every order and split over calls |
| `pairing` | who ends with a cipher, with which keys, in step or not | 2 clients, 2 PINs | one client's exchange replaced and answered by the other's at every point |
| `ptp_slave` | right offsets after trouble, and none missed | 4 exchanges, one disturbed in every way, with and without election | what a disturbed exchange leaves behind meets a clean one before it, after it or both |
| `browser_safety` | when may the table be wrong | 1 device with both services, 2 callers, 2 workers, 2 changes, 1 stop | two receivers for the two queues of one device; announcements that come and go before, between and after subscriptions |
| `browser_liveness` | is stop heard | the same, 1 change | as many streams as workers, or one fewer |

Bounds of the models: `MaxFrames`, `MaxPackets`, `MaxSyncs`, `MaxRequests`, `MaxBlocks`, `MaxPauses`, `MaxSamples`,
`LastExchange`, `MaxTroubled`, `MaxChanges`, and in `PtpSlave` that a message is doubled once and as the first
disturbance of its exchange; each only stops the environment (source, encoder, caller, network) from going
on. Most runs have deadlock checking off because the system does stop: a stream that has ended, a
connection that is closed, an environment at its bound, or, in `playback_control`, a `wait_for_completion` on a stream
that plays to its end. `live_decoder` has it on. Client and caller symmetry is used where no liveness is checked.

Properties worth a word:

- `SignalsAgree` says when thread and state agree about a pause and names the only two events after which
  they may not: a full channel refused a signal (`refused`), or an underrun overwrote Paused
  (`underrun`). The history variable `desync` records these two and nothing else.
- `SyncSpacing` speaks of receivers with a control port; to others no sync packet is ever sent. It excuses a stretch in which a packet was thrown away by a paused thread, which is
  what happens to packets with a due sync as to others.
- `LivesAsStreamer` lets a task that has failed write Error over Stopped, because the code can: stop's last section
  may come between the return of `run_streamer` and the `try_lock` behind it. What it excludes is Streaming or Paused.
- `SignalsTakeEffect` is about both signals: a thread that sends while the state is Paused comes to pause, and
  one that is paused while the state is Streaming comes to send.
- `StopCompletes` holds only if the Stop message found room in the channel. `StopWithoutSignal` says
  what is left otherwise: stop then returns once the source has ended, unless the stream or the thread
  is paused or a few last frames are stranded. Both exceptions are real (section 7).
- `LagIsDropped`, `InStepUntilDropped` and `ResponsesInOrder` together say what the CSeq that the code
  only logs is worth: responses shift, by at most the number of calls given up, and never swap.
- `DamageIsFinal` says that `BlockLost` can never be undone by a lucky cut.
- `StreamerFollows` lists every way in which what is heard may differ from what is reported; each entry of
  `drift` it admits is reached. `OnlyFailuresLoseTasks` lists every task that can be left running with nobody to stop it.
- `StreamsOnce` states a limit of the code, and what `AudioPipeline` relies on: no start after a stop on the
  same connection.
- `FlushIsMarked` and `HearsItsOwn` also name their exceptions, and TLC reaches each. Underruns and refused
  signals are not among those of `FlushIsMarked`.
- `TableIsFresh` excuses a device whose events two callers handled out of order, and names the one kind of
  announcement whose withdrawal the code does not understand.
- An exception that a property names is not caught by it. Hazards that come true in the code and are such an
  exception (a flag raised again before a stream has seen it lowered, streams on every worker, removals that are mistaken, the
  probe's late answer) therefore stand in `hazards` without a property; the properties say that nothing else goes wrong.
- `TroubleIsForgotten` does not exclude a wrong offset made *of* a disturbed exchange, which the code does
  publish; it says that the next undisturbed one is right.

### Fairness

`AudioPipeline!FairSpec`: weak fairness of the task (the tokio runtime polls it; a blocking send gets a slot
that is free), of the thread (the kernel runs it; its pacing deadlines are finite) and of the
steps of a stop or pause that has been begun (its future is polled, and the FLUSH has a timeout).
None of the source: nothing makes it push or close. None of pause, resume and the beginning of stop.
`RtspConnection!FairSpec`: weak fairness of "the kernel takes the request or fails the write" and of the
timers. The write has no timeout of its own, so without the first a call could hang in it: a receiver
whose window stays closed is then one that the kernel's TCP timeout ends. Nothing is assumed of the
receiver's answers.
`ServiceBrowser!FairSpec`: weak fairness of what a worker has begun (each of its waits has a timeout) and of a
stop that finds a free worker. Nobody need poll a stream, and nothing need be announced.

## 5. The proofs

`*_proofs.tla`, checked by TLAPS for all values of the constants that satisfy the modules' assumptions:
`ConstantsAssumption` (positive capacities; a buffer of at least four packets: `AudioStreamer::new` sizes
it to two seconds, 250 packets of 352 samples at 44.1 kHz; and a timestamp space that holds a second and a packet, as
2^32 does), `RingAssumption` (the ring size divides the number space, as 512 does 65536),
the `BoundsAssumption`s (bounds are numbers), `ClocksAssumption` (Syncs are some time apart), the `NamesAssumption`s
("none" is no client; "nobody" is no caller, and devices are finitely many), `GroupWire`'s `GroupAssumption` (ring and channel hold something), `PlaybackControl`'s (a group has two
receivers or more: `connect_group` refuses fewer, `client/api.rs:264`), `TimingAssumption` (the clock is NTP, a PTP slave or a PTP master), `SizesAssumption`
(channel and packets hold something; a frame may be empty).

| theorem | says | argument |
|---|---|---|
| `TypeCorrect` | `[]TypeOK` of the pipeline | `TypeOK` is inductive; it contains that there is no task before `start_live` and that a message is pending exactly in the blocking send |
| `BufferNeverOverflows` | `[]BufferFits` | `BufferFits` speaks of the buffer a refill *would* make and is not inductive; `BufferInv`, the buffer itself fits, is. A refill starts below 40 % and adds at most 3: that fits from a capacity of 4 on, and not of 3 |
| `StopSilences` | `StopIsFinal` | `QuietInv`: from the second lock of stop on, the thread is gone, buffer, live channel and decoder are empty, so that no pass of the aborted task finds a frame |
| `ImplementsStreamer` | `Spec => LivesAsStreamer`, a refinement | `LifeInv`: until stop a working task is in one of three states; after it `QuietInv` leaves it nothing to play, and a task that has failed only Error to write. So every step of the task is a `Move` (`TaskMoves`) and every call one method or a stutter (`ApiMoves`) |
| `FramesStayInOrder` | `[]InOrder` | `InOrder` speaks of one concatenation; `OrderInv` speaks of the six places: each is in order, and each is below the next (`Layers`). A step moves the front of one place to the back of the next, or loses it |
| `ImplementsPlay` | `Spec => ImplementsPlayout`, a refinement | by `OrderInv` the frame the thread sends is the least of those that wait; every other step of source, caller, task and thread only moves frames between the places (`FramesInQueue`, `CutContents`, `RefillContents`) or loses them as `Playout`'s `Switch` may |
| `SyncsStaySpaced` | `[]SyncSpacing` | `LastSynced`: the packet made when `lastSync` was taken had a sync (if there is a port for it), its untruncated timestamp is `lastSync` modulo the space, and it is less than a rate before the latest packet. So the difference now is below the space, and the wrapping one is the difference itself (`WrappedDifference`, from `OneRemainder`): if no sync is due, that packet is near the next one too (`SyncIsNear`). `Numbered`: while the task works, frames before it are numbered on from its timestamp. Only `TaskProduce` makes packets (`NothingElseMakes`) |
| `PauseIsAgreed` | `[]SignalsAgree` | `Will`: the last signal in the channel, or else the thread, decides; reading the first message never changes what the last says (`WillAfterTail`), sending one does as it should (`WillAfterAppend`). With `WiringInv`, `LifeInv` and `QuietInv` the property is inductive |
| `SenderTypeCorrect`, `RingIsExact` | `[]TypeOK`, `[]RingHoldsLatest` | the ring invariant is inductive; the work is in the arithmetic: slot of the wrapped number = slot of the number (`SlotOfNumber`, from divisibility), and numbers closer than the ring size never share a slot (`CloseAreDistinct`) |
| `AnswersAreExact` | `[]RepliesAreExact` | from the ring invariant: a slot answers for a sequence number exactly when it holds the recent packet of that number (`HeldIsRecent`, `RecentIsHeld`) |
| `FlushRestartsSync` | `[]SyncRestarts` | what the flag says of the sync packets since the last flush, and that they are numbered without a gap |
| `ConnectionTypeCorrect` | `[]TypeOK` of the connection | `Typed` |
| `DamageStaysFinal` | `DamageIsFinal` | `Numbered`: the blocks in the stream carry increasing numbers between `opened` and `sealed`; so a block that is missing is before all that are left, and nothing decrypts |
| `ResponsesStayInOrder` | `[]ResponsesInOrder` | `Ordered`: answers given < responses in flight < requests the receiver holds, each in order; a step moves a response along this chain and never past another |
| `StaysInStep` | `[]InStepUntilDropped` | `InStep`: while no call was dropped, nothing is ever on its way but the request or the answer of the call that runs, and between calls nothing at all |
| `LagStaysDropped` | `[]LagIsDropped` | `Lagging`: what is still to come answers a request at most as many calls back as there are calls without a response, dropped or running; or a block is lost and nothing will come (`Damaged`). The bound on one response follows when it is taken, by counting the dropped calls between |
| `Typed`, `Agrees`, `Follows`, `LosesByFailure`, `Covers`, `Once` | `[]` of `TypeOK`, `SessionAgrees`, `StreamerFollows`, `OnlyFailuresLoseTasks`, `ListenerCovers`, `StreamsOnce` of `PlaybackControl` | a call is a sequence of steps made when it begins; `Flow` says which step may follow which, and every call is proved to flow (`Flows`), those made of one part per member of a group included. Then one assertion per concern for the step that is next: whose streamers there are (`Owned`), what a leaving client has given up (`Torn`) and a joining one has (`Joined`), what a start has checked (`Starting`), listeners (`Covered`), reports (`Agreed`), what players do (`Followed`) |
| `OwnPackets` | `[]HearsItsOwn` | `InLine`: packets are emitted or thrown away in the order they were prepared, so what the thread is through with is everything up to a number; `TargetsOK`: a target's place is its receiver's, unless an earlier socket could not be cloned |
| `StartsOver` | `[]FlushIsMarked` | the first packet prepared since the flush, `base`, is marked wherever it is (`Started`). `Undisturbed`: unless one of the named exceptions has happened, a Resume in the channel has `base` behind it, and a thread that threw `base` away is still paused and has emitted nothing later. With `InLine`: if anything since the flush was emitted, so was `base` |
| `PacketsOfTheStream` | `[]PacketsAreTheStream` | packets, what is collected, the residue and the frames in the channel, one after the other, are the samples given (`Unbroken`). The work is in `FlattenSeq`, how it grows at the back and shrinks at the front |
| `PairingTypeCorrect`, `HandshakeInStep`, `PairedKeysAgree` | `[]TypeOK`, `[]InStepUntilPaired`, `[]KeysAgree` of `PairSetup` | per client, `Attempt` ties the stage of the pairing to what is asked and answered: at most one message is on its way, and it is the one awaited. So an M4 taken is the answer to the M3 just sent, its proof that of the receiver's keys, and a proof is only right if PIN, exchange and client are |
| `SlaveTypeCorrect` | `[]TypeOK` of the slave | inductive |
| `OffsetError` | an offset made of one exchange is wrong by half the difference of the two delays | the formula, with the integer division of the code |
| `OffsetsTakeRequests` | `[]OneOffsetPerRequest` | a stamped t3 is a request not yet used |
| `TroubleDoesNotLast`, `ExchangesCount` | `[]TroubleIsForgotten`, `[]EveryExchangeCounts` | `OnTrack`: for a clean exchange that is not disturbed, which of its messages are under way says which stamps are its own; a Delay_Resp clears all three, so nothing older survives into it |
| `TableStaysFresh` | `[]TableIsFresh` | what is on its way to all callers is seen as one set of events per kind of service (`Pend`), each with the number of its change. `Listed`: of a device that is there, either the event that tells so of its main service is still to be handled, and later than every removal of it, or the table has it and every removal still to come is older than what was handled (`raced`). `Delisted` is the same of a device that is gone. `InTime`: no event is newer than the last change |

The proofs about the two ends of a stream, `LiveDecoder` and `GroupWire`, are in one module, `Stream_proofs`.

Only model-checked: what is temporal under fairness (`StopIsHeard` and the other liveness properties), since liveness
and `ENABLED` are out of the prover's reach. The induction theorems of the library take an operator as a
parameter, which the provers cannot instantiate; where a proof needs induction (`FlattenSeq` of frames, the calls of a
group of any size) it takes a least counterexample instead, from the well-foundedness of `<` on `Nat`. There are no RECURSIVE operators.

## 6. What is not modelled

For good: the cryptographic primitives, TLV and plist codecs, the parsing of TXT records and feature bits, the
filter of the resampler, the ALAC encoder, packet layouts, socket options, statistics and logging: values
without behaviour over time, which tests on single inputs reach. Futures of the API that are cancelled
half-way and a client that is dropped without disconnect: in the code this is a matter of which fields
implement Drop, and none of the timing servers does. Volume. The events connection, whose messages are read and
not acted on. PTP sequence ids and addresses, because the loop does not use them to match.

## 7. What the modelling brought up

Checked by a run:

- **A keepalive that times out is not harmless** (`rtsp_keepalive`). `send_feedback` gives up after two seconds
  and returns Ok (`client/connection.rs:538`); the response that comes later is taken by the next
  request, whose CSeq mismatch is only logged (`rtsp/connection.rs:124`), and so on for ever. A call
  dropped inside a block does worse: `DamageIsFinal` applies and the connection is dead, without
  being closed.

Exceptions that a property had to name, each reached by its run. They are what the code does; no line of the
repository says otherwise, so they are not findings:

- *Stop may wait for ever* (`StopWithoutSignal`): Stop is sent with `try_send`, which
  a full channel refuses, and the thread is joined *before* the task that fills the channel is aborted
  (`audio/streamer.rs:284`). A paused thread moreover takes a disconnected channel for a timeout
  (`audio/sender_thread.rs:179`).
- *A refused Pause or Resume, and an underrun that overwrites Paused*, leave state and thread in disagreement
  (`SignalsAgree`).
- *Last frames can be stranded* (`EofDrains`): EOF is noticed only with an empty buffer, and a few
  frames at or below the resume level never leave Buffering (`audio/streamer.rs:391`). Below that, the tail
  shorter than a packet is never played (`PacketsAreTheStream`).
- *A connection streams once* (`StreamsOnce`): `setup` is legal only from Paired, and every later start calls it
  (`client/connection.rs:386`), after it has stopped the control listener of the stream that may still play (`ListenerCovers`).
- *A pause that meets Buffering* is lost on the streamer and reported as Paused; *a pause or resume whose request
  fails* leaves streamer and report apart (`StreamerFollows`). A resume before the first start makes the session Playing, and
  the connection can then never stream; after a stop, pause and resume still go through.
- *The first pause of a group* mutes the streamer and fails at the primary's session, which group start leaves in Ready;
  after a pause that failed at FLUSH a resume fails before it reaches the group's streamer, and only another pause repairs it.
- *Tasks nobody can stop* (`OnlyFailuresLoseTasks`): a start that is refused on an NTP connection drops the server it
  replaces, whose loop then spins on a closed shutdown channel (`timing/ntp.rs:131`); a failed connect leaks the NTP
  responder, a failed group the election and its relays, with their ports.
- *Receivers of a group can get each other's packets* (`HearsItsOwn`): a sender whose data socket cannot be cloned is
  left out of the targets and not of the packets (`audio/streamer.rs:187`).
- *The marked packet after a flush can be thrown away* (`FlushIsMarked`), if the task was in a pass at the pause or the
  FLUSH of the pause that caught it had failed.
- *stop of the browser may not be heard* (`StopIsHeard`): the flag is shared with every other browse and scan, and as many quiet
  streams as workers keep stop from running. *The table keeps devices that are gone*, or loses ones that are there
  (`TableIsFresh`): removals are understood for RAOP names only.
- *A paired connection may start one answer behind* (`InStepUntilPaired`): the probe's failure is swallowed
  (`client/handshake.rs:125`). That keys agree rests on the server's proof alone, since the RTSP status is not looked at.

Seen in the code and beyond these models (see `hazards`): an election that times out hands on an all-zero
clock id as if received; a plaintext answer that ends early makes the read spin until its ten seconds are over;
`wait_for_completion` does not end with the stream.
