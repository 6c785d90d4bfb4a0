------------------------ MODULE AudioPipeline_proofs ------------------------
(***************************************************************************)
(* Theorems about AudioPipeline, for every capacity, sample rate and       *)
(* source: its types, its buffer, silence after stop, its life as a        *)
(* Streamer, the order of frames, the spacing of sync packets, agreement   *)
(* on a pause, and its implementation of Playout.                          *)
(***************************************************************************)
EXTENDS AudioPipeline, SequenceTheorems, TLAPS

-----------------------------------------------------------------------------
(* One refill, whatever the buffer and the live channel hold. *)

\* A batch never takes more than the channel has or the batch limit allows, and takes
\* nothing unless the buffer is below the low watermark and there is a decoder.
LEMMA BatchBounds ==
  ASSUME TypeOK
  PROVE  /\ BatchSize \in 0..Len(live)
         /\ BatchSize <= 3
         /\ BatchSize > 0 => hasDecoder /\ Len(buffer) * 100 < 40 * BufCap
<1>1. Len(live) \in Nat
  BY LenProperties DEF TypeOK, SourceOK
<1>2. QED
  BY <1>1 DEF BatchSize, FillBelow, DecodeBatchLimit, LowWatermarkPercent

\* Cutting a prefix off a sequence and keeping the rest yields sequences of its elements.
LEMMA CutType ==
  ASSUME NEW S, NEW s \in Seq(S), NEW k \in 0..Len(s)
  PROVE  /\ SubSeq(s, 1, k) \in Seq(S)
         /\ Len(SubSeq(s, 1, k)) = k
         /\ SubSeq(s, k + 1, Len(s)) \in Seq(S)
<1>1. Len(s) \in Nat /\ \A i \in 1..Len(s) : s[i] \in S
  BY LenProperties, ElementOfSeq
<1>2. /\ SubSeq(s, 1, k) \in Seq(S)
      /\ Len(SubSeq(s, 1, k)) = IF 1 <= k THEN k - 1 + 1 ELSE 0
  BY <1>1, SubSeqProperties
<1>3. SubSeq(s, k + 1, Len(s)) \in Seq(S)
  BY <1>1, SubSeqProperties
<1>4. QED
  BY <1>1, <1>2, <1>3

\* What a refill leaves in the buffer and in the live channel.
LEMMA RefillType ==
  ASSUME TypeOK
  PROVE  /\ Refilled \in Seq(Frames)
         /\ Len(Refilled) = Len(buffer) + BatchSize
         /\ Refill => live' \in Seq(Frames) /\ eof' \in BOOLEAN
<1>1. BatchSize \in 0..Len(live)
  BY BatchBounds
<1>2. live \in Seq(Frames) /\ buffer \in Seq(Frames) /\ eof \in BOOLEAN
  BY DEF TypeOK, SourceOK, InnerOK
<1>3. /\ SubSeq(live, 1, BatchSize) \in Seq(Frames)
      /\ Len(SubSeq(live, 1, BatchSize)) = BatchSize
      /\ SubSeq(live, BatchSize + 1, Len(live)) \in Seq(Frames)
  BY <1>1, <1>2, CutType
<1>4. EofAfterRefill \in BOOLEAN
  BY DEF EofAfterRefill
<1>5. QED
  BY <1>2, <1>3, <1>4, ConcatProperties DEF Refilled, Refill

\* The RTP timestamp is in its range.
LEMMA RtpTsType ==
  ASSUME ts \in Nat
  PROVE  RtpTs \in 0..(TimestampSpace - 1)
<1>1. TimestampSpace \in Nat \ {0} /\ PacketSamples \in Nat
  BY ConstantsAssumption
<1>2. \A n \in Nat : n % TimestampSpace \in 0..(TimestampSpace - 1)
  BY <1>1
<1>3. ts * PacketSamples \in Nat
  BY <1>1
<1>. QED
  BY <1>2, <1>3 DEF RtpTs

\* The queue of the sender channel holds messages only, whether a send fits or not.
LEMMA TrySendType ==
  ASSUME TypeOK, NEW m \in Messages, TrySend(m)
  PROVE  chan' \in Seq(Messages)
BY AppendProperties DEF TypeOK, CallOK, TrySend

\* The three signals may be put in the channel.
LEMMA SignalsAreMessages ==
  Pause \in Messages /\ Resume \in Messages /\ Stop \in Messages
BY DEF Messages

-----------------------------------------------------------------------------
(* Type correctness. *)

\* A freshly made streamer has its types.
LEMMA TypeInit == Init => TypeOK
<1>. SUFFICES ASSUME Init PROVE TypeOK
  OBVIOUS
<1>1. <<>> \in Seq(Frames) /\ <<>> \in Seq(Packets) /\ <<>> \in Seq(Messages)
  BY EmptySeq
<1>2. SourceOK
  BY <1>1, ConstantsAssumption DEF Init, SourceOK
<1>3. InnerOK
  <2>1. 0 \in 0..(TimestampSpace - 1)
    BY ConstantsAssumption
  <2>. QED
    BY <1>1, <2>1, ConstantsAssumption DEF Init, InnerOK, StreamStates
<1>4. TaskOK
  BY <1>1 DEF Init, TaskOK
<1>5. ThreadOK
  BY <1>1 DEF Init, ThreadOK
<1>6. CallOK
  BY <1>1 DEF Init, CallOK
<1>7. NotStarted
  BY DEF Init, NotStarted
<1>8. QED
  BY <1>2, <1>3, <1>4, <1>5, <1>6, <1>7 DEF TypeOK

\* A part of the state that a step leaves alone keeps its type.
LEMMA PartsStable ==
  ASSUME TypeOK
  PROVE  /\ UNCHANGED sourceVars => SourceOK'
         /\ UNCHANGED innerVars => InnerOK'
         /\ UNCHANGED taskVars => TaskOK'
         /\ UNCHANGED threadVars => ThreadOK'
         /\ UNCHANGED <<txOpen, chan, api, desync>> => CallOK'
<1>1. UNCHANGED sourceVars => SourceOK'
  BY DEF TypeOK, SourceOK, sourceVars
<1>2. UNCHANGED innerVars => InnerOK'
  BY DEF TypeOK, InnerOK, innerVars
<1>3. UNCHANGED taskVars => TaskOK'
  BY DEF TypeOK, TaskOK, taskVars
<1>4. UNCHANGED threadVars => ThreadOK'
  BY DEF TypeOK, ThreadOK, threadVars
<1>5. UNCHANGED <<txOpen, chan, api, desync>> => CallOK'
  BY DEF TypeOK, CallOK
<1>6. QED
  BY <1>1, <1>2, <1>3, <1>4, <1>5

\* No call of the API disturbs a type, and none but start_live makes the task.
LEMMA TypeApi ==
  ASSUME TypeOK, Api
  PROVE  TypeOK'
<1>1. CASE StartLive
  <2>1. InnerOK'
    BY <1>1 DEF StartLive, TypeOK, InnerOK, StreamStates
  <2>2. TaskOK'
    BY <1>1 DEF StartLive, TypeOK, TaskOK, NotStarted
  <2>3. ThreadOK'
    BY <1>1 DEF StartLive, TypeOK, ThreadOK
  <2>4. CallOK'
    BY <1>1 DEF StartLive, TypeOK, CallOK
  <2>5. QED
    BY <1>1, <2>1, <2>2, <2>3, <2>4, PartsStable DEF StartLive, TypeOK, NotStarted
<1>2. CASE PauseStream
  <2>1. chan' \in Seq(Messages) /\ desync' \subseteq {"refused", "underrun"}
    BY <1>2, TrySendType, SignalsAreMessages DEF PauseStream, Signal, TypeOK, CallOK
  <2>2. InnerOK'
    BY <1>2 DEF PauseStream, TypeOK, InnerOK, StreamStates
  <2>3. CallOK'
    BY <1>2, <2>1 DEF PauseStream, TypeOK, CallOK
  <2>4. QED
    BY <1>2, <2>2, <2>3, PartsStable DEF PauseStream, TypeOK, NotStarted
<1>3. CASE ResetAfterFlush
  <2>1. InnerOK'
    BY <1>3 DEF ResetAfterFlush, TypeOK, InnerOK
  <2>2. CallOK'
    BY <1>3 DEF ResetAfterFlush, TypeOK, CallOK
  <2>3. QED
    BY <1>3, <2>1, <2>2, PartsStable DEF ResetAfterFlush, TypeOK, NotStarted
<1>4. CASE FlushFails
  <2>1. CallOK'
    BY <1>4 DEF FlushFails, TypeOK, CallOK
  <2>2. QED
    BY <1>4, <2>1, PartsStable DEF FlushFails, TypeOK, NotStarted
<1>5. CASE ResumeStream
  <2>1. chan' \in Seq(Messages) /\ desync' \subseteq {"refused", "underrun"}
    BY <1>5, TrySendType, SignalsAreMessages DEF ResumeStream, Signal, TypeOK, CallOK
  <2>2. InnerOK'
    BY <1>5 DEF ResumeStream, TypeOK, InnerOK, StreamStates
  <2>3. CallOK'
    BY <1>5, <2>1 DEF ResumeStream, TypeOK, CallOK
  <2>4. QED
    BY <1>5, <2>2, <2>3, PartsStable DEF ResumeStream, TypeOK, NotStarted
<1>6. CASE StopSignal
  <2>1. chan' \in Seq(Messages)
    BY <1>6, TrySendType, SignalsAreMessages DEF StopSignal, TypeOK, CallOK
  <2>2. CallOK'
    BY <1>6, <2>1 DEF StopSignal, TypeOK, CallOK
  <2>3. QED
    BY <1>6, <2>2, PartsStable DEF StopSignal, TypeOK, NotStarted
<1>7. CASE StopJoined
  <2>1. TaskOK' /\ CallOK'
    BY <1>7 DEF StopJoined, TypeOK, TaskOK, CallOK
  <2>2. QED
    BY <1>7, <2>1, PartsStable DEF StopJoined, TypeOK, NotStarted
<1>8. CASE StopFinish
  <2>1. SourceOK' /\ InnerOK'
    BY <1>8, EmptySeq DEF StopFinish, TypeOK, SourceOK, InnerOK, StreamStates
  <2>2. CallOK'
    BY <1>8 DEF StopFinish, TypeOK, CallOK
  <2>3. QED
    BY <1>8, <2>1, <2>2, PartsStable DEF StopFinish, TypeOK, NotStarted
<1>9. QED
  BY <1>1, <1>2, <1>3, <1>4, <1>5, <1>6, <1>7, <1>8 DEF Api

\* No pass of run_streamer, finished or failed, disturbs a type.
LEMMA TypeTask ==
  ASSUME TypeOK, Task
  PROVE  TypeOK'
<1>1. CASE TaskCheck
  <2>1. task = "check" /\ pending = <<>>
    BY <1>1 DEF TaskCheck, TypeOK, TaskOK
  <2>2. chan' \in Seq(Messages)
    BY <1>1, TrySendType, SignalsAreMessages DEF TaskCheck, TypeOK, CallOK
  <2>3. TaskOK'
    BY <1>1, <2>1 DEF TaskCheck, TypeOK, TaskOK
  <2>4. CallOK'
    BY <1>1, <2>2 DEF TaskCheck, TypeOK, CallOK
  <2>5. QED
    BY <1>1, <2>1, <2>3, <2>4, PartsStable DEF TaskCheck, TypeOK, NotStarted
<1>2. ASSUME TaskFill
      PROVE  /\ SourceOK'
             /\ eof' \in BOOLEAN
             /\ UNCHANGED <<hasDecoder, aborted, threaded, thread, held, txOpen, api>>
             /\ task = "fill" /\ pending = <<>> /\ api # "new"
  BY <1>2, RefillType DEF TaskFill, TypeOK, SourceOK, TaskOK, NotStarted
<1>3. CASE TaskWait
  <2>1. TaskFill
    BY <1>3 DEF TaskWait
  <2>2. InnerOK'
    BY <1>2, <1>3, <2>1, RefillType DEF TaskWait, TypeOK, InnerOK
  <2>3. TaskOK' /\ ThreadOK' /\ CallOK'
    BY <1>2, <1>3, <2>1 DEF TaskWait, TypeOK, TaskOK, ThreadOK, CallOK
  <2>4. QED
    BY <1>2, <2>1, <2>2, <2>3 DEF TypeOK, NotStarted
<1>4. CASE TaskStopAtEof
  <2>1. TaskFill
    BY <1>4 DEF TaskStopAtEof
  <2>2. chan' \in Seq(Messages)
    BY <1>4, TrySendType, SignalsAreMessages DEF TaskStopAtEof, TypeOK, CallOK
  <2>3. InnerOK'
    BY <1>2, <1>4, <2>1, RefillType DEF TaskStopAtEof, TypeOK, InnerOK, StreamStates
  <2>4. TaskOK' /\ ThreadOK' /\ CallOK'
    BY <1>2, <1>4, <2>1, <2>2 DEF TaskStopAtEof, TypeOK, TaskOK, ThreadOK, CallOK
  <2>5. QED
    BY <1>2, <2>1, <2>3, <2>4 DEF TypeOK, NotStarted
<1>5. CASE TaskProduce
  <2>1. TaskFill /\ Refilled # <<>>
    BY <1>5 DEF TaskProduce
  <2>2. Head(Refilled) \in Frames /\ Tail(Refilled) \in Seq(Frames)
    BY <2>1, RefillType, HeadTailProperties
  <2>3. PreparesSync \in BOOLEAN
    BY DEF PreparesSync
  <2>4. InnerOK'
    <3>1. ReadyState \in StreamStates
      BY DEF ReadyState, TypeOK, InnerOK, StreamStates
    <3>2. RtpTs \in 0..(TimestampSpace - 1)
      BY RtpTsType DEF TypeOK, InnerOK
    <3>3. QED
      BY <1>2, <1>5, <2>1, <2>2, <3>1, <3>2 DEF TaskProduce, TypeOK, InnerOK
  <2>5. TaskOK' /\ ThreadOK' /\ CallOK'
    <3>. DEFINE packet == [kind |-> "Packet", frame |-> Head(Refilled), sync |-> PreparesSync]
    <3>1. packet \in Packets
      BY <2>2, <2>3 DEF Packets
    <3>2. <<packet>> \in Seq(Packets) /\ <<packet>> # <<>>
      BY <3>1
    <3>3. Append(wire, packet) \in Seq(Packets)
      BY <3>1, AppendProperties DEF TypeOK, ThreadOK
    <3>4. \/ pending' = <<packet>> /\ task' = "send" /\ UNCHANGED wire
          \/ wire' = Append(wire, packet) /\ task' \in {"check", "done"} /\ UNCHANGED pending
      BY <1>5 DEF TaskProduce, NextPass
    <3>5. UNCHANGED <<chan, desync>>
      BY <1>5 DEF TaskProduce
    <3>. HIDE DEF packet
    <3>6. TaskOK'
      BY <1>2, <2>1, <3>2, <3>4 DEF TypeOK, TaskOK
    <3>7. ThreadOK'
      BY <1>2, <2>1, <3>3, <3>4 DEF TypeOK, ThreadOK
    <3>8. CallOK'
      BY <1>2, <2>1, <3>5 DEF TypeOK, CallOK
    <3>9. QED
      BY <3>6, <3>7, <3>8
  <2>6. QED
    BY <1>2, <2>1, <2>4, <2>5 DEF TypeOK, NotStarted
<1>6. CASE TaskUnderrun
  <2>1. TaskFill
    BY <1>6 DEF TaskUnderrun
  <2>2. InnerOK'
    BY <1>2, <1>6, <2>1, RefillType DEF TaskUnderrun, TypeOK, InnerOK, StreamStates
  <2>3. TaskOK'
    BY <1>2, <1>6, <2>1 DEF TaskUnderrun, NextPass, TypeOK, TaskOK
  <2>4. ThreadOK' /\ CallOK'
    BY <1>2, <1>6, <2>1 DEF TaskUnderrun, TypeOK, ThreadOK, CallOK
  <2>5. QED
    BY <1>2, <2>1, <2>2, <2>3, <2>4 DEF TypeOK, NotStarted
<1>7. CASE TaskDecodeFails
  <2>1. PICK n \in 1..BatchSize :
          /\ live' = SubSeq(live, n + 1, Len(live))
          /\ buffer' = buffer \o SubSeq(live, 1, n - 1)
    BY <1>7 DEF TaskDecodeFails
  <2>2. n \in 0..Len(live) /\ n - 1 \in 0..Len(live)
    BY BatchBounds, LenProperties DEF TypeOK, SourceOK
  <2>3. live' \in Seq(Frames) /\ SubSeq(live, 1, n - 1) \in Seq(Frames)
    BY <2>1, <2>2, CutType DEF TypeOK, SourceOK
  <2>4. SourceOK'
    BY <1>7, <2>3 DEF TaskDecodeFails, TypeOK, SourceOK
  <2>5. InnerOK'
    BY <1>7, <2>1, <2>3, ConcatProperties
       DEF TaskDecodeFails, TypeOK, InnerOK, StreamStates
  <2>6. TaskOK'
    BY <1>7 DEF TaskDecodeFails, TypeOK, TaskOK
  <2>7. QED
    BY <1>7, <2>4, <2>5, <2>6, PartsStable DEF TaskDecodeFails, TypeOK, NotStarted
<1>8. CASE TaskFail
  <2>1. TaskFill /\ Refilled # <<>>
    BY <1>8 DEF TaskFail
  <2>2. ReadyState \in StreamStates
    BY DEF ReadyState, TypeOK, InnerOK, StreamStates
  <2>3. InnerOK'
    BY <1>2, <1>8, <2>1, <2>2, RefillType, HeadTailProperties
       DEF TaskFail, TypeOK, InnerOK, StreamStates
  <2>4. TaskOK' /\ ThreadOK' /\ CallOK'
    BY <1>2, <1>8, <2>1 DEF TaskFail, TypeOK, TaskOK, ThreadOK, CallOK
  <2>5. QED
    BY <1>2, <2>1, <2>3, <2>4 DEF TypeOK, NotStarted
<1>9. CASE TaskSent
  <2>1. Head(pending) \in Messages
    BY <1>9, HeadTailProperties DEF TaskSent, TypeOK, TaskOK, Messages
  <2>2. chan' \in Seq(Messages)
    BY <1>9, <2>1, AppendProperties DEF TaskSent, TypeOK, CallOK
  <2>3. TaskOK'
    BY <1>9, EmptySeq DEF TaskSent, TypeOK, TaskOK
  <2>4. CallOK'
    BY <1>9, <2>2 DEF TaskSent, TypeOK, CallOK
  <2>5. QED
    BY <1>9, <2>3, <2>4, PartsStable DEF TaskSent, TypeOK, NotStarted
<1>10. CASE TaskSendFails
  <2>1. TaskOK'
    BY <1>10, EmptySeq DEF TaskSendFails, TypeOK, TaskOK
  <2>2. QED
    BY <1>10, <2>1, PartsStable DEF TaskSendFails, TypeOK, NotStarted
<1>11. CASE TaskCancelled
  <2>1. TaskOK'
    BY <1>11, EmptySeq DEF TaskCancelled, TypeOK, TaskOK
  <2>2. QED
    BY <1>11, <2>1, PartsStable DEF TaskCancelled, TypeOK, NotStarted
<1>12. CASE TaskError
  <2>1. InnerOK'
    BY <1>12 DEF TaskError, TypeOK, InnerOK, StreamStates
  <2>2. TaskOK'
    BY <1>12 DEF TaskError, TypeOK, TaskOK
  <2>3. QED
    BY <1>12, <2>1, <2>2, PartsStable DEF TaskError, TypeOK, NotStarted
<1>13. QED
  BY <1>1, <1>3, <1>4, <1>5, <1>6, <1>7, <1>8, <1>9, <1>10, <1>11, <1>12 DEF Task

\* No step of sender_thread_main disturbs a type.
LEMMA TypeThread ==
  ASSUME TypeOK, Thread
  PROVE  TypeOK'
<1>1. CASE ThreadReceive
  <2>1. Head(chan) \in Messages /\ Tail(chan) \in Seq(Messages) /\ <<>> \in Seq(Messages)
    BY <1>1, HeadTailProperties, EmptySeq DEF ThreadReceive, TypeOK, CallOK
  <2>2. Head(chan).kind = "Packet" => <<Head(chan)>> \in Seq(Packets)
    BY <2>1 DEF Messages, Pause, Resume, Stop
  <2>3. ThreadOK'
    BY <1>1, <2>2 DEF ThreadReceive, ThreadExits, TypeOK, ThreadOK
  <2>4. CallOK'
    BY <1>1, <2>1 DEF ThreadReceive, ThreadExits, TypeOK, CallOK
  <2>5. QED
    BY <1>1, <2>3, <2>4, PartsStable DEF ThreadReceive, TypeOK, NotStarted, taskVars
<1>2. CASE ThreadEmit
  <2>1. ThreadOK'
    BY <1>2, ConcatProperties, EmptySeq DEF ThreadEmit, TypeOK, ThreadOK
  <2>2. QED
    BY <1>2, <2>1, PartsStable DEF ThreadEmit, TypeOK, NotStarted, taskVars
<1>3. CASE ThreadPaused
  <2>1. Tail(chan) \in Seq(Messages) /\ <<>> \in Seq(Messages)
    BY <1>3, HeadTailProperties, EmptySeq DEF ThreadPaused, TypeOK, CallOK
  <2>2. ThreadOK'
    BY <1>3 DEF ThreadPaused, ThreadExits, TypeOK, ThreadOK
  <2>3. CallOK'
    BY <1>3, <2>1 DEF ThreadPaused, ThreadExits, TypeOK, CallOK
  <2>4. QED
    BY <1>3, <2>2, <2>3, PartsStable DEF ThreadPaused, TypeOK, NotStarted, taskVars
<1>4. CASE ThreadDisconnected
  <2>1. ThreadOK' /\ CallOK'
    BY <1>4, EmptySeq DEF ThreadDisconnected, ThreadExits, TypeOK, ThreadOK, CallOK
  <2>2. QED
    BY <1>4, <2>1, PartsStable DEF ThreadDisconnected, TypeOK, NotStarted, taskVars
<1>5. QED
  BY <1>1, <1>2, <1>3, <1>4 DEF Thread

\* A frame the source pushes is one it may number, and closing changes no type.
LEMMA TypeSource ==
  ASSUME TypeOK, Push \/ CloseSource
  PROVE  TypeOK'
<1>1. CASE Push
  <2>1. nextFrame \in Frames
    BY <1>1, ConstantsAssumption DEF Push, TypeOK, SourceOK, Frames
  <2>2. SourceOK'
    BY <1>1, <2>1, ConstantsAssumption, AppendProperties DEF Push, TypeOK, SourceOK, Frames
  <2>3. QED
    BY <1>1, <2>2, PartsStable DEF Push, TypeOK, NotStarted, taskVars
<1>2. CASE CloseSource
  <2>1. SourceOK'
    BY <1>2 DEF CloseSource, TypeOK, SourceOK
  <2>2. QED
    BY <1>2, <2>1, PartsStable DEF CloseSource, TypeOK, NotStarted, taskVars
<1>3. QED
  BY <1>1, <1>2

\* Every step keeps the types.
LEMMA TypeStep == TypeOK /\ [Next]_vars => TypeOK'
<1>1. ASSUME TypeOK, UNCHANGED vars PROVE TypeOK'
  BY <1>1, PartsStable DEF vars, TypeOK, NotStarted, taskVars
<1>2. QED
  BY <1>1, TypeApi, TypeTask, TypeThread, TypeSource DEF Next

\* Every variable of the audio path keeps its type, whatever the capacities.
THEOREM TypeCorrect == Spec => []TypeOK
BY TypeInit, TypeStep, PTL DEF Spec

-----------------------------------------------------------------------------
(* The buffer. BufferFits is about the buffer a refill would make; that it holds needs *)
(* the buffer itself to fit, which every step preserves because it leaves at most the  *)
(* refilled buffer behind.                                                             *)

BufferInv == Len(buffer) <= BufCap

\* A refill begins below the low watermark and adds a batch at most: with a buffer of at
\* least four packets the two stay within its capacity.
LEMMA FitsAfterRefill == TypeOK /\ BufferInv => BufferFits
<1>. SUFFICES ASSUME TypeOK, BufferInv PROVE BufferFits
  OBVIOUS
<1>1. Len(buffer) \in Nat /\ Len(Refilled) = Len(buffer) + BatchSize
  BY RefillType, LenProperties DEF TypeOK, InnerOK
<1>2. BatchSize \in Nat
  BY BatchBounds, LenProperties DEF TypeOK, SourceOK
<1>3. CASE BatchSize = 0
  BY <1>1, <1>3 DEF BufferFits, BufferInv
<1>4. CASE BatchSize > 0
  <2>1. Len(buffer) * 100 < 40 * BufCap /\ BatchSize <= 3
    BY <1>4, BatchBounds
  <2>2. QED
    BY <1>1, <1>2, <2>1, ConstantsAssumption DEF BufferFits
<1>5. QED
  BY <1>2, <1>3, <1>4

\* Every step leaves the buffer within its capacity.
LEMMA BufferStep == TypeOK /\ BufferInv /\ [Next]_vars => BufferInv'
<1>. SUFFICES ASSUME TypeOK, BufferInv, [Next]_vars PROVE BufferInv'
  OBVIOUS
<1>1. Len(Refilled) <= BufCap /\ Len(Refilled) = Len(buffer) + BatchSize
      /\ Refilled \in Seq(Frames) /\ Len(Refilled) \in Nat
  BY FitsAfterRefill, RefillType, LenProperties DEF BufferFits
<1>2. ASSUME UNCHANGED buffer PROVE BufferInv'
  BY <1>2 DEF BufferInv
<1>3. ASSUME buffer' = Refilled \/ (Refilled # <<>> /\ buffer' = Tail(Refilled))
      PROVE  BufferInv'
  BY <1>1, <1>3, HeadTailProperties, ConstantsAssumption DEF BufferInv
<1>4. CASE StopFinish
  BY <1>4, EmptySeq, ConstantsAssumption DEF StopFinish, BufferInv
<1>5. CASE TaskDecodeFails
  <2>1. PICK n \in 1..BatchSize : buffer' = buffer \o SubSeq(live, 1, n - 1)
    BY <1>5 DEF TaskDecodeFails
  <2>2. n - 1 \in 0..Len(live) /\ n - 1 < BatchSize /\ n \in Nat /\ BatchSize \in Nat
    BY BatchBounds, LenProperties DEF TypeOK, SourceOK
  <2>3. /\ SubSeq(live, 1, n - 1) \in Seq(Frames)
        /\ Len(SubSeq(live, 1, n - 1)) = n - 1
    BY <2>2, CutType DEF TypeOK, SourceOK
  <2>4. Len(buffer') = Len(buffer) + (n - 1)
    BY <2>1, <2>3, ConcatProperties DEF TypeOK, InnerOK
  <2>5. Len(buffer) \in Nat
    BY LenProperties DEF TypeOK, InnerOK
  <2>6. QED
    BY <1>1, <2>2, <2>4, <2>5, ConstantsAssumption DEF BufferInv
<1>6. CASE Push \/ CloseSource \/ Thread \/ UNCHANGED vars
  BY <1>2, <1>6
     DEF Push, CloseSource, Thread, ThreadReceive, ThreadEmit, ThreadPaused,
         ThreadDisconnected, innerVars, vars
<1>7. CASE Api
  BY <1>2, <1>4, <1>7
     DEF Api, StartLive, PauseStream, ResetAfterFlush, FlushFails, ResumeStream,
         StopSignal, StopJoined, innerVars
<1>8. CASE Task
  <2>1. CASE TaskCheck \/ TaskError \/ TaskSent \/ TaskSendFails \/ TaskCancelled
    BY <1>2, <2>1 DEF TaskCheck, TaskError, TaskSent, TaskSendFails, TaskCancelled, innerVars
  <2>2. CASE TaskWait \/ TaskStopAtEof \/ TaskUnderrun \/ TaskProduce \/ TaskFail
    BY <1>3, <2>2 DEF TaskWait, TaskStopAtEof, TaskUnderrun, TaskProduce, TaskFail
  <2>3. QED
    BY <1>5, <1>8, <2>1, <2>2 DEF Task
<1>9. QED
  BY <1>6, <1>7, <1>8 DEF Next

\* AudioBuffer::push never finds the buffer full, for every capacity of at least four
\* packets: decoding cannot end a stream with BufferOverflow.
THEOREM BufferNeverOverflows == Spec => []BufferFits
<1>1. Init => BufferInv
  BY EmptySeq, ConstantsAssumption DEF Init, BufferInv
<1>2. QED
  BY <1>1, BufferStep, FitsAfterRefill, TypeCorrect, PTL DEF Spec

-----------------------------------------------------------------------------
(* After stop. Joining the thread before the abort keeps it from emitting; emptying the *)
(* buffer and dropping the decoder keeps the aborted task from finding a frame.         *)

QuietInv ==
  /\ api \in {"abort", "stopFlush", "stopped"} => thread \in {"none", "exited"}
  /\ api \in {"stopFlush", "stopped"} => buffer = <<>> /\ ~hasDecoder

\* Without a decoder a refill yields nothing.
LEMMA NothingToRefill ==
  ASSUME TypeOK, buffer = <<>>, ~hasDecoder
  PROVE  Refilled = <<>> /\ BatchSize = 0
<1>1. BatchSize = 0
  BY DEF BatchSize
<1>2. SubSeq(live, 1, BatchSize) = <<>>
  BY <1>1, SubSeqEmpty
<1>3. QED
  BY <1>1, <1>2, EmptySeq, ConcatEmptySeq DEF Refilled

\* Once stop has joined the thread and emptied the buffer, no step brings a frame back.
LEMMA QuietStep == TypeOK /\ QuietInv /\ [Next]_vars => QuietInv'
<1>. SUFFICES ASSUME TypeOK, QuietInv, [Next]_vars PROVE QuietInv'
  OBVIOUS
<1>1. CASE Push \/ CloseSource \/ UNCHANGED vars
  BY <1>1 DEF QuietInv, Push, CloseSource, innerVars, threadVars, vars
<1>2. CASE Api
  BY <1>2 DEF Api, QuietInv, StartLive, PauseStream, ResetAfterFlush, FlushFails,
              ResumeStream, StopSignal, StopJoined, StopFinish, innerVars, threadVars
<1>3. CASE Thread
  BY <1>3 DEF QuietInv, Thread, ThreadReceive, ThreadEmit, ThreadPaused,
              ThreadDisconnected, ThreadExits, innerVars
<1>4. CASE Task
  <2>1. UNCHANGED <<api, thread, hasDecoder>>
    BY <1>4 DEF Task, TaskCheck, TaskFill, TaskWait, TaskStopAtEof, TaskProduce,
                TaskUnderrun, TaskDecodeFails, TaskFail, TaskError, TaskSent, TaskSendFails,
                TaskCancelled, innerVars, threadVars
  <2>2. ASSUME api \in {"stopFlush", "stopped"} PROVE buffer' = <<>>
    <3>1. buffer = <<>> /\ Refilled = <<>> /\ BatchSize = 0
      BY <2>2, NothingToRefill DEF QuietInv
    <3>2. ~TaskDecodeFails
      BY <3>1 DEF TaskDecodeFails
    <3>3. QED
      BY <1>4, <3>1, <3>2
         DEF Task, TaskCheck, TaskWait, TaskStopAtEof, TaskProduce, TaskUnderrun,
             TaskFail, TaskError, TaskSent, TaskSendFails, TaskCancelled, innerVars
  <2>3. QED
    BY <2>1, <2>2 DEF QuietInv
<1>5. QED
  BY <1>1, <1>2, <1>3, <1>4 DEF Next

\* A step of the silenced streamer puts nothing on the wire.
LEMMA QuietWire ==
  TypeOK /\ QuietInv /\ [Next]_vars => ((api \in {"stopFlush", "stopped"}) => wire' = wire)
<1>. SUFFICES ASSUME TypeOK, QuietInv, [Next]_vars, api \in {"stopFlush", "stopped"}
              PROVE  wire' = wire
  OBVIOUS
<1>1. thread \in {"none", "exited"} /\ Refilled = <<>>
  BY NothingToRefill DEF QuietInv
<1>2. CASE Thread
  BY <1>1, <1>2 DEF Thread, ThreadReceive, ThreadEmit, ThreadPaused, ThreadDisconnected
<1>3. CASE Task
  BY <1>1, <1>3 DEF Task, TaskCheck, TaskWait, TaskStopAtEof, TaskProduce, TaskUnderrun,
                    TaskDecodeFails, TaskFail, TaskError, TaskSent, TaskSendFails, TaskCancelled, threadVars
<1>4. CASE Push \/ CloseSource \/ Api \/ UNCHANGED vars
  BY <1>4 DEF Push, CloseSource, Api, StartLive, PauseStream, ResetAfterFlush, FlushFails,
              ResumeStream, StopSignal, StopJoined, StopFinish, threadVars, vars
<1>5. QED
  BY <1>2, <1>3, <1>4 DEF Next

\* Once stop has left its last critical section nothing is handed to the sockets any
\* more, whatever an aborted task still does.
THEOREM StopSilences == Spec => StopIsFinal
<1>1. Init => QuietInv
  BY DEF Init, QuietInv
<1>2. QED
  BY <1>1, QuietStep, QuietWire, TypeCorrect, PTL DEF Spec, StopIsFinal

-----------------------------------------------------------------------------
(* The life of the streamer. What its owner and its task do to the buffers is a stutter  *)
(* of Streamer; the other steps are one of its steps each, because the task only runs in *)
(* one of three states until stop, and finds no frame after it.                          *)

Streams == {"Buffering", "Streaming", "Paused"}
AtWork  == {"check", "fill", "send", "failing"}
Over    == {"stopFlush", "stopped"}

LifeInv ==
  /\ api = "new" => state = "Idle" /\ task = "none"
  /\ api # "new" => task # "none"
  /\ task \in AtWork /\ api \notin Over => state \in Streams

TaskOf(t, a) == IF t \in {"none", "done"} THEN t ELSE IF a \in Over THEN "aborted" ELSE "running"
Seen == [state |-> state, task |-> TaskOf(task, api)]

\* The task of a stream that is not stopped goes on, ends, or is between two changes.
LEMMA RunningTask ==
  ASSUME TypeOK, LifeInv, Task, api \notin Over
  PROVE  /\ task \in AtWork /\ api' = api /\ api # "new"
         /\ \/ state' = state /\ task' \in AtWork \cup {"done"}
            \/ state = "Buffering" /\ state' = "Streaming" /\ task' \in AtWork \cup {"done"}
            \/ state # "Buffering" /\ state' = "Buffering" /\ task' \in AtWork \cup {"done"}
            \/ state' = "Error" /\ task' = "done"
            \/ state = "Buffering" /\ state' = "Stopped" /\ task' = "done"
<1>1. task \in AtWork /\ api' = api
  BY DEF Task, TaskCheck, TaskFill, TaskWait, TaskStopAtEof, TaskProduce, TaskUnderrun,
         TaskDecodeFails, TaskFail, TaskError, TaskSent, TaskSendFails, TaskCancelled, AtWork
<1>2. api # "new"
  BY <1>1 DEF LifeInv, AtWork
<1>3. CASE TaskCheck \/ TaskError \/ TaskSent \/ TaskSendFails \/ TaskCancelled
  BY <1>1, <1>2, <1>3 DEF TaskError, TaskCheck, TaskSent, TaskSendFails, TaskCancelled, innerVars, AtWork
<1>4. CASE TaskWait \/ TaskUnderrun \/ TaskStopAtEof
  BY <1>1, <1>2, <1>4 DEF TaskWait, TaskUnderrun, TaskStopAtEof, StopAtEof, Ready, NextPass, AtWork
<1>5. CASE TaskProduce
  BY <1>1, <1>2, <1>5 DEF TaskProduce, ReadyState, NextPass, AtWork
<1>6. CASE TaskFail \/ TaskDecodeFails
  BY <1>1, <1>2, <1>6 DEF TaskFail, TaskDecodeFails, ReadyState, AtWork
<1>. QED
  BY <1>1, <1>2, <1>3, <1>4, <1>5, <1>6 DEF Task

\* The task of a stopped stream has nothing to play and can only end, or take its empty
\* buffer for an underrun; one that had failed before marks the state as it ends.
LEMMA AbortedTask ==
  ASSUME TypeOK, LifeInv, QuietInv, Task, api \in Over
  PROVE  /\ task \in AtWork /\ api' = api
         /\ \/ state' \in {state, "Buffering"} /\ task' \in AtWork \cup {"done"}
            \/ state' = "Error" /\ task' = "done"
<1>1. task \in AtWork /\ api' = api
  BY DEF Task, TaskCheck, TaskFill, TaskWait, TaskStopAtEof, TaskProduce, TaskUnderrun,
         TaskDecodeFails, TaskFail, TaskError, TaskSent, TaskSendFails, TaskCancelled, AtWork
<1>2. Refilled = <<>> /\ BatchSize = 0 /\ ~hasDecoder
  BY NothingToRefill DEF QuietInv, Over
<1>3. ~TaskProduce /\ ~TaskFail /\ ~TaskDecodeFails /\ ~TaskStopAtEof
  BY <1>2 DEF TaskProduce, TaskFail, TaskDecodeFails, TaskStopAtEof, StopAtEof
<1>4. CASE TaskCheck \/ TaskError \/ TaskSent \/ TaskSendFails \/ TaskCancelled
  BY <1>1, <1>4 DEF TaskError, TaskCheck, TaskSent, TaskSendFails, TaskCancelled, innerVars, AtWork
<1>5. CASE TaskWait \/ TaskUnderrun
  BY <1>1, <1>5 DEF TaskWait, TaskUnderrun, NextPass, AtWork
<1>. QED
  BY <1>3, <1>4, <1>5 DEF Task

\* Every step keeps the states a task can be in.
LEMMA LifeStep == TypeOK /\ LifeInv /\ QuietInv /\ [Next]_vars => LifeInv'
<1> SUFFICES ASSUME TypeOK, LifeInv, QuietInv, [Next]_vars PROVE LifeInv'
  OBVIOUS
<1>1. CASE Push \/ CloseSource \/ Thread \/ UNCHANGED vars
  BY <1>1 DEF LifeInv, Push, CloseSource, Thread, ThreadReceive, ThreadEmit, ThreadPaused,
              ThreadDisconnected, innerVars, taskVars, vars
<1>2. CASE Api
  BY <1>2 DEF LifeInv, Api, StartLive, PauseStream, ResetAfterFlush, FlushFails, ResumeStream,
              StopSignal, StopJoined, StopFinish, innerVars, taskVars, AtWork, Over, Streams
<1>3. CASE Task /\ api \notin Over
  BY <1>3, RunningTask DEF LifeInv, AtWork, Streams
<1>4. CASE Task /\ api \in Over
  BY <1>4, AbortedTask DEF LifeInv, AtWork, Over
<1>. QED
  BY <1>1, <1>2, <1>3, <1>4 DEF Next

\* What the task does is a move of the streamer.
LEMMA TaskMoves ==
  ASSUME TypeOK, LifeInv, QuietInv, Task
  PROVE  Seen' = Seen \/ Seen' \in Life!Moves(Seen)
<1>1. CASE api \notin Over
  <2>1. /\ task \in AtWork /\ state \in Streams /\ Seen = [state |-> state, task |-> "running"]
    BY <1>1, RunningTask DEF LifeInv, Seen, TaskOf, AtWork
  <2>2. /\ task' \in AtWork => Seen' = [state |-> state', task |-> "running"]
        /\ task' = "done" => Seen' = [state |-> state', task |-> "done"]
    BY <1>1, RunningTask DEF Seen, TaskOf, AtWork
  <2>3. /\ state = "Buffering" => Life!Plays(Seen) = {[state |-> "Streaming", task |-> "running"]}
        /\ state # "Buffering" => Life!Plays(Seen) = {[state |-> "Buffering", task |-> "running"]}
    BY <2>1 DEF Life!Plays, Streams
  <2>4. /\ [state |-> state, task |-> "done"] \in Life!Ends(Seen)
        /\ [state |-> "Error", task |-> "done"] \in Life!Ends(Seen)
        /\ state = "Buffering" => /\ [state |-> "Streaming", task |-> "done"] \in Life!Ends(Seen)
                                  /\ [state |-> "Stopped", task |-> "done"] \in Life!Ends(Seen)
        /\ state # "Buffering" => [state |-> "Buffering", task |-> "done"] \in Life!Ends(Seen)
    <3>1. Seen.state = state
      BY <2>1
    <3>2. /\ state = "Buffering" => "Streaming" \in {next.state : next \in Life!Plays(Seen)}
          /\ state # "Buffering" => "Buffering" \in {next.state : next \in Life!Plays(Seen)}
      BY <2>3
    <3> DEFINE End(t) == [state |-> t, task |-> "done"]
               ends   == Life!Ends(Seen)
               next   == {move.state : move \in Life!Plays(Seen)}
    <3>3. ends = {End(t) : t \in {Seen.state, "Error"} \cup next
                                   \cup IF Seen.state = "Buffering" THEN {"Stopped"} ELSE {}}
      BY DEF Life!Ends
    <3> HIDE DEF End, ends, next
    <3>4. \A t : t \in {state, "Error"} \cup next => End(t) \in ends
      BY <3>1, <3>3
    <3>5. state = "Buffering" => End("Stopped") \in ends
      BY <3>1, <3>3
    <3>6. /\ state = "Buffering" => "Streaming" \in next
          /\ state # "Buffering" => "Buffering" \in next
      BY <3>2 DEF next
    <3>7. /\ End(state) \in ends /\ End("Error") \in ends
          /\ state = "Buffering" => End("Streaming") \in ends /\ End("Stopped") \in ends
          /\ state # "Buffering" => End("Buffering") \in ends
      BY <3>4, <3>5, <3>6
    <3>. QED
      BY <3>7 DEF End, ends
  <2>5. Life!Moves(Seen) = Life!Plays(Seen) \cup Life!Ends(Seen)
    BY <2>1 DEF Life!Moves
  <2>. QED
    BY <1>1, <2>1, <2>2, <2>3, <2>4, <2>5, RunningTask
<1>2. CASE api \in Over
  <2>1. Seen = [state |-> state, task |-> "aborted"]
    BY <1>2, AbortedTask DEF Seen, TaskOf, AtWork
  <2>2. /\ task' \in AtWork => Seen' = [state |-> state', task |-> "aborted"]
        /\ task' = "done" => Seen' = [state |-> state', task |-> "done"]
    BY <1>2, AbortedTask DEF Seen, TaskOf, AtWork
  <2>3. Life!Moves(Seen) = Life!Leaves(Seen)
    BY <2>1 DEF Life!Moves
  <2>4. /\ [state |-> "Buffering", task |-> "aborted"] \in Life!Leaves(Seen)
        /\ \A t \in {state, "Buffering", "Error"} : [state |-> t, task |-> "done"] \in Life!Leaves(Seen)
    BY <2>1 DEF Life!Leaves
  <2>. QED
    BY <1>2, <2>1, <2>2, <2>3, <2>4, AbortedTask
<1>. QED
  BY <1>1, <1>2

\* What its owner does is a method called, or nothing that the state shows.
LEMMA ApiMoves ==
  ASSUME TypeOK, LifeInv, Api
  PROVE  \/ Seen' = Seen
         \/ Seen = Life!Fresh /\ Seen' = Life!Started(Seen)
         \/ Seen' = Life!PausedBy(Seen)
         \/ Seen' = Life!ResumedBy(Seen)
         \/ Seen' = Life!StoppedBy(Seen)
<1>1. CASE StartLive
  <2>1. Seen = [state |-> "Idle", task |-> "none"]
    BY <1>1 DEF StartLive, LifeInv, Seen, TaskOf
  <2>2. Seen' = [state |-> "Buffering", task |-> "running"]
    BY <1>1 DEF StartLive, Seen, TaskOf, Over
  <2>. QED
    BY <2>1, <2>2 DEF Life!Fresh, Life!Started
<1>2. CASE PauseStream
  <2>1. task' = task /\ api = "idle" /\ api' = "flush"
    BY <1>2 DEF PauseStream, taskVars
  <2>2. TaskOf(task, api)' = TaskOf(task, api)
    BY <2>1 DEF TaskOf, Over
  <2>3. state' = state \/ (state = "Streaming" /\ state' = "Paused")
    BY <1>2 DEF PauseStream
  <2>. QED
    BY <2>2, <2>3 DEF Seen, Life!PausedBy
<1>3. CASE ResumeStream
  <2>1. task' = task /\ api' = api /\ state = "Paused" /\ state' = "Streaming"
    BY <1>3 DEF ResumeStream, taskVars
  <2>2. TaskOf(task, api)' = TaskOf(task, api)
    BY <2>1 DEF TaskOf
  <2>. QED
    BY <2>1, <2>2 DEF Seen, Life!ResumedBy
<1>4. CASE ResetAfterFlush \/ FlushFails \/ StopSignal \/ StopJoined
  <2>1. task' = task /\ state' = state /\ (api \in Over <=> api' \in Over)
    BY <1>4 DEF ResetAfterFlush, FlushFails, StopSignal, StopJoined, innerVars, taskVars, Over
  <2>2. TaskOf(task, api)' = TaskOf(task, api)
    BY <2>1 DEF TaskOf
  <2>. QED
    BY <2>1, <2>2 DEF Seen
<1>5. CASE StopFinish
  <2>1. task' = task /\ state' = "Stopped" /\ task # "none" /\ api \notin Over /\ api' \in Over
    BY <1>5 DEF StopFinish, LifeInv, taskVars, Over
  <2>2. CASE task = "done"
    <3>1. Seen.task = "done" /\ Seen' = [state |-> "Stopped", task |-> "done"]
      BY <2>1, <2>2 DEF Seen, TaskOf
    <3>. QED
      BY <3>1 DEF Life!StoppedBy
  <2>3. CASE task # "done"
    <3>1. Seen.task = "running" /\ Seen' = [state |-> "Stopped", task |-> "aborted"]
      BY <2>1, <2>3 DEF Seen, TaskOf
    <3>. QED
      BY <3>1 DEF Life!StoppedBy
  <2>. QED
    BY <2>2, <2>3
<1>. QED
  BY <1>1, <1>2, <1>3, <1>4, <1>5 DEF Api

\* To its owner the whole audio path is one Streamer: it is started once, and nothing a
\* task still in a pass, or one that has just failed, does brings it back to Streaming
\* after stop.
THEOREM ImplementsStreamer == Spec => LivesAsStreamer
<1>1. Init => LifeInv /\ QuietInv /\ Life!Init
  BY DEF Init, LifeInv, QuietInv, AtWork, Life!Init, Life!Fresh
<1>2. TypeOK /\ LifeInv /\ QuietInv /\ [Next]_vars =>
        [Life!Next]_[state |-> state,
                     task  |-> IF task \in {"none", "done"} THEN task
                               ELSE IF api \in {"stopFlush", "stopped"} THEN "aborted"
                                    ELSE "running"]
  <2> SUFFICES ASSUME TypeOK, LifeInv, QuietInv, [Next]_vars
               PROVE  Life!Next \/ Seen' = Seen
    BY DEF Seen, TaskOf, Over
  <2>1. CASE Push \/ CloseSource \/ Thread \/ UNCHANGED vars
    <3>1. UNCHANGED <<state, task, api>>
      BY <2>1 DEF Push, CloseSource, Thread, ThreadReceive, ThreadEmit, ThreadPaused,
                  ThreadDisconnected, innerVars, taskVars, vars
    <3>. QED
      BY <3>1 DEF Seen, TaskOf
  <2>2. CASE Task
    BY <2>2, TaskMoves DEF Life!Next, Life!Move, Seen, TaskOf, Over
  <2>3. CASE Api
    BY <2>3, ApiMoves DEF Life!Next, Life!Start, Life!Pause, Life!Resume, Life!Stop,
                          Seen, TaskOf, Over
  <2>. QED
    BY <2>1, <2>2, <2>3 DEF Next
<1>. QED
  BY <1>1, <1>2, LifeStep, QuietStep, TypeCorrect, PTL DEF Spec, LivesAsStreamer, Life!Spec

-----------------------------------------------------------------------------
(* Messages and frames in a queue. *)

Ascends(s)   == \A i, j \in DOMAIN s :
                  i < j /\ IsPacket(s[i]) /\ IsPacket(s[j]) => s[i].frame < s[j].frame
Rises(s)     == \A i, j \in DOMAIN s : i < j => s[i] < s[j]
Below(A, B)  == \A a \in A, b \in B : a < b

\* Only packets have a frame, and it is one of the source's.
LEMMA PacketOrSignal ==
  ASSUME NEW m \in Messages
  PROVE  (IsPacket(m) <=> m \in Packets) /\ (IsPacket(m) => m.frame \in Frames)
BY DEF Messages, Packets, Pause, Resume, Stop, IsPacket

\* The types the contents of the places are reasoned about with.
LEMMA PlacesType ==
  ASSUME TypeOK
  PROVE  /\ wire \in Seq(Messages) /\ held \in Seq(Messages) /\ chan \in Seq(Messages)
         /\ pending \in Seq(Messages)
<1>1. /\ wire \in Seq(Packets) /\ held \in Seq(Packets) /\ chan \in Seq(Messages)
      /\ pending \in Seq(Packets) /\ Packets \subseteq Messages
  BY DEF TypeOK, ThreadOK, CallOK, TaskOK, Messages
<1>. QED
  BY <1>1

\* Taking the head of a queue off leaves later frames only.
LEMMA TailOrder ==
  ASSUME NEW s \in Seq(Messages), s # <<>>
  PROVE  /\ Tail(s) \in Seq(Messages) /\ Head(s) \in Messages
         /\ FramesIn(Tail(s)) \subseteq FramesIn(s)
         /\ IsPacket(Head(s)) => Head(s).frame \in FramesIn(s)
         /\ Ascends(s) => Ascends(Tail(s))
         /\ Ascends(s) /\ IsPacket(Head(s)) => Below({Head(s).frame}, FramesIn(Tail(s)))
<1>1. /\ Len(s) \in Nat \ {0} /\ DOMAIN s = 1 .. Len(s)
      /\ Tail(s) \in Seq(Messages) /\ Head(s) \in Messages
      /\ Head(s) = s[1] /\ DOMAIN Tail(s) = 1 .. Len(s) - 1
      /\ \A i \in DOMAIN Tail(s) : Tail(s)[i] = s[i + 1] /\ i + 1 \in DOMAIN s
  OBVIOUS
<1>2. FramesIn(Tail(s)) \subseteq FramesIn(s)
  BY <1>1 DEF FramesIn
<1>3. IsPacket(Head(s)) => Head(s).frame \in FramesIn(s)
  BY <1>1 DEF FramesIn
<1>4. Ascends(s) => Ascends(Tail(s))
  <2> SUFFICES ASSUME Ascends(s), NEW i \in DOMAIN Tail(s), NEW j \in DOMAIN Tail(s), i < j,
                      IsPacket(Tail(s)[i]), IsPacket(Tail(s)[j])
               PROVE  Tail(s)[i].frame < Tail(s)[j].frame
    BY DEF Ascends
  <2>1. i + 1 < j + 1
    BY <1>1
  <2>. QED
    BY <1>1, <2>1 DEF Ascends
<1>5. ASSUME Ascends(s), IsPacket(Head(s)) PROVE Below({Head(s).frame}, FramesIn(Tail(s)))
  <2> SUFFICES ASSUME NEW i \in DOMAIN Tail(s), IsPacket(Tail(s)[i])
               PROVE  s[1].frame < Tail(s)[i].frame
    BY <1>1 DEF Below, FramesIn
  <2>1. 1 < i + 1 /\ 1 \in DOMAIN s
    BY <1>1
  <2>. QED
    BY <1>1, <1>5, <2>1 DEF Ascends
<1>. QED
  BY <1>1, <1>2, <1>3, <1>4, <1>5

\* Appending adds no frame but the message's own, and keeps the order if that is latest.
LEMMA AppendOrder ==
  ASSUME NEW s \in Seq(Messages), NEW m \in Messages
  PROVE  /\ Append(s, m) \in Seq(Messages)
         /\ ~IsPacket(m) => FramesIn(Append(s, m)) \subseteq FramesIn(s)
         /\ FramesIn(Append(s, m)) \subseteq FramesIn(s) \cup {m.frame}
         /\ Ascends(s) /\ ~IsPacket(m) => Ascends(Append(s, m))
         /\ Ascends(s) /\ Below(FramesIn(s), {m.frame}) => Ascends(Append(s, m))
<1> DEFINE t == Append(s, m)
<1>1. /\ Len(s) \in Nat /\ DOMAIN s = 1 .. Len(s) /\ t \in Seq(Messages)
      /\ DOMAIN t = 1 .. Len(s) + 1 /\ t[Len(s) + 1] = m
      /\ \A i \in DOMAIN s : t[i] = s[i]
      /\ \A i \in DOMAIN t : i \in DOMAIN s \/ i = Len(s) + 1
  OBVIOUS
<1> HIDE DEF t
<1>2. ~IsPacket(m) => FramesIn(t) \subseteq FramesIn(s)
  BY <1>1 DEF FramesIn
<1>3. FramesIn(t) \subseteq FramesIn(s) \cup {m.frame}
  BY <1>1 DEF FramesIn
<1>4. ASSUME Ascends(s), ~IsPacket(m) \/ Below(FramesIn(s), {m.frame}) PROVE Ascends(t)
  <2> SUFFICES ASSUME NEW i \in DOMAIN t, NEW j \in DOMAIN t, i < j,
                      IsPacket(t[i]), IsPacket(t[j])
               PROVE  t[i].frame < t[j].frame
    BY DEF Ascends
  <2>1. i \in DOMAIN s
    BY <1>1
  <2>2. CASE j \in DOMAIN s
    BY <1>1, <1>4, <2>1, <2>2 DEF Ascends
  <2>3. CASE j = Len(s) + 1
    <3>1. t[i].frame \in FramesIn(s) /\ Below(FramesIn(s), {m.frame})
      BY <1>1, <1>4, <2>1, <2>3 DEF FramesIn
    <3>. QED
      BY <1>1, <2>3, <3>1 DEF Below
  <2>. QED
    BY <1>1, <2>2, <2>3
<1>. QED
  BY <1>1, <1>2, <1>3, <1>4 DEF t

\* A queue without messages has no frames; one of length one is in order.
LEMMA ShortOrder ==
  /\ FramesIn(<<>>) = {} /\ Ascends(<<>>)
  /\ \A m \in Messages : Ascends(<<m>>) /\ FramesIn(<<m>>) \subseteq {m.frame}
BY DEF FramesIn, Ascends

\* Taking the head of a queue of frames off leaves later frames only.
LEMMA TailRises ==
  ASSUME NEW s \in Seq(Frames), s # <<>>, Rises(s)
  PROVE  /\ Tail(s) \in Seq(Frames) /\ Rises(Tail(s))
         /\ Head(s) \in ToSet(s) /\ ToSet(Tail(s)) \subseteq ToSet(s)
         /\ Below({Head(s)}, ToSet(Tail(s)))
<1>1. /\ Len(s) \in Nat \ {0} /\ DOMAIN s = 1 .. Len(s) /\ Tail(s) \in Seq(Frames)
      /\ Head(s) = s[1] /\ 1 \in DOMAIN s /\ DOMAIN Tail(s) = 1 .. Len(s) - 1
      /\ \A i \in DOMAIN Tail(s) : Tail(s)[i] = s[i + 1] /\ i + 1 \in DOMAIN s /\ 1 < i + 1
  OBVIOUS
<1>2. Rises(Tail(s))
  <2> SUFFICES ASSUME NEW i \in DOMAIN Tail(s), NEW j \in DOMAIN Tail(s), i < j
               PROVE  Tail(s)[i] < Tail(s)[j]
    BY DEF Rises
  <2>1. i + 1 < j + 1
    BY <1>1
  <2>. QED
    BY <1>1, <2>1 DEF Rises
<1>3. Head(s) \in ToSet(s) /\ ToSet(Tail(s)) \subseteq ToSet(s)
  BY <1>1 DEF ToSet
<1>4. Below({Head(s)}, ToSet(Tail(s)))
  <2> SUFFICES ASSUME NEW i \in DOMAIN Tail(s) PROVE Head(s) < Tail(s)[i]
    BY DEF Below, ToSet
  <2>. QED
    BY <1>1 DEF Rises
<1>. QED
  BY <1>1, <1>2, <1>3, <1>4

\* Appending the latest frame keeps a queue of frames in order.
LEMMA AppendRises ==
  ASSUME NEW s \in Seq(Frames), NEW n \in Frames, Rises(s), Below(ToSet(s), {n})
  PROVE  Rises(Append(s, n)) /\ ToSet(Append(s, n)) \subseteq ToSet(s) \cup {n}
<1> DEFINE t == Append(s, n)
<1>1. /\ Len(s) \in Nat /\ DOMAIN s = 1 .. Len(s)
      /\ DOMAIN t = 1 .. Len(s) + 1 /\ t[Len(s) + 1] = n
      /\ \A i \in DOMAIN s : t[i] = s[i]
      /\ \A i \in DOMAIN t : i \in DOMAIN s \/ i = Len(s) + 1
  OBVIOUS
<1> HIDE DEF t
<1>2. ToSet(t) \subseteq ToSet(s) \cup {n}
  BY <1>1 DEF ToSet
<1>3. Rises(t)
  <2> SUFFICES ASSUME NEW i \in DOMAIN t, NEW j \in DOMAIN t, i < j PROVE t[i] < t[j]
    BY DEF Rises
  <2>1. i \in DOMAIN s
    BY <1>1
  <2>2. CASE j \in DOMAIN s
    BY <1>1, <2>1, <2>2 DEF Rises
  <2>3. CASE j = Len(s) + 1
    <3>1. s[i] \in ToSet(s)
      BY <2>1 DEF ToSet
    <3>. QED
      BY <1>1, <2>1, <2>3, <3>1 DEF Below
  <2>. QED
    BY <1>1, <2>2, <2>3
<1>. QED
  BY <1>2, <1>3 DEF t

\* One queue that follows another joins it in order, with the frames of both.
LEMMA ConcatRises ==
  ASSUME NEW s \in Seq(Frames), NEW t \in Seq(Frames), Rises(s), Rises(t),
         Below(ToSet(s), ToSet(t))
  PROVE  Rises(s \o t) /\ ToSet(s \o t) \subseteq ToSet(s) \cup ToSet(t)
<1> DEFINE u == s \o t
<1>1. /\ Len(s) \in Nat /\ DOMAIN s = 1 .. Len(s) /\ Len(t) \in Nat /\ DOMAIN t = 1 .. Len(t)
      /\ DOMAIN u = 1 .. Len(s) + Len(t)
      /\ \A i \in DOMAIN s : u[i] = s[i]
      /\ \A i \in DOMAIN u \ DOMAIN s : u[i] = t[i - Len(s)] /\ i - Len(s) \in DOMAIN t
  OBVIOUS
<1> HIDE DEF u
<1>2. ToSet(u) \subseteq ToSet(s) \cup ToSet(t)
  BY <1>1 DEF ToSet
<1>3. Rises(u)
  <2> SUFFICES ASSUME NEW i \in DOMAIN u, NEW j \in DOMAIN u, i < j PROVE u[i] < u[j]
    BY DEF Rises
  <2>1. CASE j \in DOMAIN s
    BY <1>1, <2>1 DEF Rises
  <2>2. CASE i \in DOMAIN s /\ j \notin DOMAIN s
    <3>1. u[i] \in ToSet(s) /\ u[j] \in ToSet(t)
      BY <1>1, <2>2 DEF ToSet
    <3>. QED
      BY <3>1 DEF Below
  <2>3. CASE i \notin DOMAIN s
    <3>1. i - Len(s) < j - Len(s) /\ j \notin DOMAIN s
      BY <1>1, <2>3
    <3>. QED
      BY <1>1, <2>3, <3>1 DEF Rises
  <2>. QED
    BY <2>1, <2>2, <2>3
<1>. QED
  BY <1>2, <1>3 DEF u

\* A queue cut in two, with or without losing frames at the cut, is two queues in order.
LEMMA CutRises ==
  ASSUME NEW s \in Seq(Frames), NEW k \in 0 .. Len(s), NEW l \in k .. Len(s), Rises(s)
  PROVE  LET front == SubSeq(s, 1, k)
             back  == SubSeq(s, l + 1, Len(s))
         IN /\ front \in Seq(Frames) /\ back \in Seq(Frames) /\ Rises(front) /\ Rises(back)
            /\ ToSet(front) \subseteq ToSet(s) /\ ToSet(back) \subseteq ToSet(s)
            /\ Below(ToSet(front), ToSet(back))
<1> DEFINE front == SubSeq(s, 1, k)
           back  == SubSeq(s, l + 1, Len(s))
<1>1. /\ Len(s) \in Nat /\ k \in Nat /\ l \in Nat /\ k <= l /\ l <= Len(s)
      /\ DOMAIN s = 1 .. Len(s) /\ front \in Seq(Frames) /\ back \in Seq(Frames)
  BY CutType
<1>2. /\ DOMAIN front = 1 .. k
      /\ \A i \in DOMAIN front : front[i] = s[i] /\ i \in DOMAIN s
  BY <1>1
<1>3. /\ DOMAIN back = 1 .. Len(s) - l
      /\ \A i \in DOMAIN back : back[i] = s[l + i] /\ l + i \in DOMAIN s
  BY <1>1
<1> HIDE DEF front, back
<1>4. Rises(front) /\ ToSet(front) \subseteq ToSet(s)
  BY <1>1, <1>2 DEF Rises, ToSet
<1>5. ToSet(back) \subseteq ToSet(s)
  BY <1>3 DEF ToSet
<1>6. Rises(back)
  <2> SUFFICES ASSUME NEW i \in DOMAIN back, NEW j \in DOMAIN back, i < j
               PROVE  back[i] < back[j]
    BY DEF Rises
  <2>1. l + i < l + j
    BY <1>1, <1>3
  <2>. QED
    BY <1>3, <2>1 DEF Rises
<1>7. Below(ToSet(front), ToSet(back))
  <2> SUFFICES ASSUME NEW i \in DOMAIN front, NEW j \in DOMAIN back
               PROVE  front[i] < back[j]
    BY DEF Below, ToSet
  <2>1. i < l + j
    BY <1>1, <1>2, <1>3
  <2>. QED
    BY <1>2, <1>3, <2>1 DEF Rises
<1>. QED
  BY <1>1, <1>4, <1>5, <1>6, <1>7 DEF front, back

-----------------------------------------------------------------------------
(* The order of frames. Each place a frame can be in holds its frames in order, and     *)
(* every frame of a place further from the source comes before every frame of a nearer  *)
(* one; both are kept by every step, and together they say InOrder.                     *)

\* The thread holds a packet in its burst buffer exactly while it waits to emit it, and
\* without a thread packets go to the sockets at once.
Shape ==
  /\ Len(held) <= 1 /\ (thread = "emit" <=> held # <<>>)
  /\ Len(pending) <= 1
  /\ ~threaded => chan = <<>> /\ held = <<>> /\ pending = <<>> /\ thread = "none" /\ ~txOpen
  /\ api = "new" => ~threaded

\* Places a to f from the sockets to the source, and the frame the source has next.
Layers(a, b, c, d, e, f, next) ==
  /\ Below(a, b) /\ Below(a, c) /\ Below(a, d) /\ Below(a, e) /\ Below(a, f) /\ Below(a, {next})
  /\ Below(b, c) /\ Below(b, d) /\ Below(b, e) /\ Below(b, f) /\ Below(b, {next})
  /\ Below(c, d) /\ Below(c, e) /\ Below(c, f) /\ Below(c, {next})
  /\ Below(d, e) /\ Below(d, f) /\ Below(d, {next})
  /\ Below(e, f) /\ Below(e, {next})
  /\ Below(f, {next})

OrderInv ==
  /\ Ascends(wire) /\ Ascends(chan) /\ Rises(buffer) /\ Rises(live)
  /\ Layers(FramesIn(wire), FramesIn(held), FramesIn(chan), FramesIn(pending),
            ToSet(buffer), ToSet(live), nextFrame)

\* Every step keeps the shape.
LEMMA ShapeStep == TypeOK /\ Shape /\ [Next]_vars => Shape'
<1> SUFFICES ASSUME TypeOK, Shape, [Next]_vars PROVE Shape'
  OBVIOUS
<1>0. /\ Len(<<>>) = 0
      /\ \A x : Len(<<x>>) = 1 /\ <<x>> # <<>>
      /\ pending \in Seq(Packets) /\ held \in Seq(Packets)
  BY DEF TypeOK, TaskOK, ThreadOK
<1>1. CASE Push \/ CloseSource \/ UNCHANGED vars
  BY <1>1 DEF Shape, Push, CloseSource, innerVars, taskVars, threadVars, vars
<1>2. CASE Api
  <2>1. CASE StartLive
    <3>1. ~threaded /\ held' = <<>> /\ chan' = <<>> /\ pending' = <<>> /\ api' = "idle"
      BY <2>1 DEF StartLive, Shape
    <3>2. thread' \in {"recv", "none"} /\ (~threaded' => thread' = "none" /\ ~txOpen')
      BY <2>1 DEF StartLive
    <3>. QED
      BY <1>0, <3>1, <3>2 DEF Shape
  <2>2. CASE PauseStream \/ ResumeStream \/ StopSignal
    <3>1. UNCHANGED <<pending, threaded, thread, held>> /\ (txOpen' => txOpen) /\ api' # "new"
      BY <2>2 DEF PauseStream, ResumeStream, StopSignal, taskVars, threadVars
    <3>2. ~txOpen => chan' = chan
      BY <2>2 DEF PauseStream, ResumeStream, StopSignal, Signal
    <3>. QED
      BY <3>1, <3>2 DEF Shape
  <2>3. CASE ResetAfterFlush \/ FlushFails \/ StopJoined \/ StopFinish
    BY <2>3 DEF ResetAfterFlush, FlushFails, StopJoined, StopFinish, Shape, taskVars, threadVars
  <2>. QED
    BY <1>2, <2>1, <2>2, <2>3 DEF Api
<1>3. CASE Task
  <2>1. UNCHANGED <<held, thread, threaded, txOpen, api>>
    BY <1>3 DEF Task, TaskCheck, TaskFill, TaskWait, TaskStopAtEof, TaskProduce,
                TaskUnderrun, TaskDecodeFails, TaskFail, TaskError, TaskSent, TaskSendFails,
                TaskCancelled, threadVars
  <2>2. Len(pending') <= 1 /\ (~threaded => pending' = <<>>)
    <3>1. CASE TaskProduce
      <4>1. CASE threaded
        <5>1. \E x : pending' = <<x>>
          BY <3>1, <4>1, Zenon DEF TaskProduce
        <5>. QED
          BY <1>0, <4>1, <5>1
      <4>2. CASE ~threaded
        BY <1>0, <3>1, <4>2 DEF TaskProduce, Shape
      <4>. QED
        BY <4>1, <4>2
    <3>2. CASE TaskCheck \/ TaskWait \/ TaskStopAtEof \/ TaskUnderrun \/ TaskDecodeFails \/ TaskFail
      BY <3>2 DEF TaskCheck, TaskWait, TaskStopAtEof, TaskUnderrun, TaskDecodeFails, TaskFail, Shape
    <3>3. CASE TaskSent \/ TaskSendFails \/ TaskCancelled
      BY <1>0, <3>3 DEF TaskSent, TaskSendFails, TaskCancelled
    <3>4. CASE TaskError
      BY <3>4 DEF TaskError, Shape
    <3>. QED
      BY <1>3, <3>1, <3>2, <3>3, <3>4 DEF Task
  <2>3. ~threaded => chan' = <<>>
    <3>1. ~threaded => task # "send"
      BY DEF Shape, TypeOK, TaskOK
    <3>. QED
      BY <1>3, <3>1
         DEF Task, TaskCheck, TaskWait, TaskStopAtEof, TaskProduce, TaskUnderrun,
             TaskDecodeFails, TaskFail, TaskError, TaskSent, TaskSendFails, TaskCancelled, Shape
  <2>. QED
    BY <2>1, <2>2, <2>3 DEF Shape
<1>4. CASE Thread
  <2>1. threaded /\ thread # "none" /\ UNCHANGED <<pending, threaded>>
    BY <1>4 DEF Thread, ThreadReceive, ThreadEmit, ThreadPaused, ThreadDisconnected, Shape, taskVars
  <2>2. CASE ThreadReceive
    <3>1. CASE Head(chan).kind = "Packet"
      <4>1. thread' = "emit" /\ held' = <<Head(chan)>> /\ api' = api
        BY <2>2, <3>1 DEF ThreadReceive
      <4>. QED
        BY <1>0, <2>1, <4>1 DEF Shape
    <3>2. CASE Head(chan).kind # "Packet"
      BY <1>0, <2>1, <2>2, <3>2 DEF ThreadReceive, ThreadExits, Shape
    <3>. QED
      BY <3>1, <3>2
  <2>3. CASE ThreadEmit \/ ThreadPaused \/ ThreadDisconnected
    BY <1>0, <2>1, <2>3 DEF ThreadEmit, ThreadPaused, ThreadDisconnected, ThreadExits, Shape
  <2>. QED
    BY <1>4, <2>2, <2>3 DEF Thread
<1>. QED
  BY <1>1, <1>2, <1>3, <1>4 DEF Next

\* A thread that emits holds one packet.
LEMMA HeldIsOne ==
  ASSUME TypeOK, Shape, thread = "emit"
  PROVE  /\ Len(held) = 1 /\ held[1] \in Packets /\ held = <<held[1]>>
         /\ wire \o held = Append(wire, held[1])
<1>1. held \in Seq(Packets) /\ wire \in Seq(Packets) /\ held # <<>> /\ Len(held) <= 1
  BY DEF TypeOK, ThreadOK, Shape
<1>2. Len(held) = 1
  <2>1. Len(held) \in Nat /\ Len(held) # 0
    BY <1>1, PlacesType, EmptySeq, LenProperties
  <2>2. \A n \in Nat : n # 0 /\ n <= 1 => n = 1
    OBVIOUS
  <2>. QED
    BY <1>1, <2>1, <2>2, Zenon
<1>3. held[1] \in Packets
  BY <1>1, <1>2
<1>4. held = <<held[1]>>
  <2> DEFINE one == <<held[1]>>
  <2>1. /\ one \in Seq(Packets) /\ Len(one) = Len(held)
        /\ \A i \in 1 .. Len(one) : one[i] = held[i]
    BY <1>2, <1>3
  <2> HIDE DEF one
  <2>2. held = one
    BY <1>1, <2>1, SeqEqual
  <2>. QED
    BY <2>2 DEF one
<1>5. wire \o <<held[1]>> = Append(wire, held[1])
  BY <1>1, <1>3
<1>. QED
  BY <1>2, <1>3, <1>4, <1>5

\* Frames that leave a place, without a new one entering any, leave the rest in order.
LEMMA OrderShrinks ==
  ASSUME OrderInv, nextFrame' = nextFrame,
         Ascends(wire'), Ascends(chan'), Rises(buffer'), Rises(live'),
         FramesIn(wire') \subseteq FramesIn(wire), FramesIn(held') \subseteq FramesIn(held),
         FramesIn(chan') \subseteq FramesIn(chan), FramesIn(pending') \subseteq FramesIn(pending),
         ToSet(buffer') \subseteq ToSet(buffer), ToSet(live') \subseteq ToSet(live)
  PROVE  OrderInv'
<1>1. \A A, B, C, D : Below(A, B) /\ C \subseteq A /\ D \subseteq B => Below(C, D)
  BY DEF Below
<1>2. Layers(FramesIn(wire'), FramesIn(held'), FramesIn(chan'), FramesIn(pending'),
             ToSet(buffer'), ToSet(live'), nextFrame)
  BY <1>1 DEF OrderInv, Layers
<1>. QED
  BY <1>2 DEF OrderInv

\* A refill moves frames from the front of the channel to the back of the buffer; the
\* order between the places is kept, also when a frame is lost at the cut.
LEMMA RefillOrder ==
  ASSUME TypeOK, OrderInv, NEW k \in 0 .. Len(live), NEW l \in k .. Len(live)
  PROVE  LET filled == buffer \o SubSeq(live, 1, k)
             rest   == SubSeq(live, l + 1, Len(live))
         IN /\ filled \in Seq(Frames) /\ rest \in Seq(Frames)
            /\ Rises(filled) /\ Rises(rest)
            /\ Layers(FramesIn(wire), FramesIn(held), FramesIn(chan), FramesIn(pending),
                      ToSet(filled), ToSet(rest), nextFrame)
<1> DEFINE front  == SubSeq(live, 1, k)
           filled == buffer \o front
           rest   == SubSeq(live, l + 1, Len(live))
<1>1. buffer \in Seq(Frames) /\ live \in Seq(Frames)
  BY DEF TypeOK, SourceOK, InnerOK
<1>2. /\ front \in Seq(Frames) /\ rest \in Seq(Frames) /\ Rises(front) /\ Rises(rest)
      /\ ToSet(front) \subseteq ToSet(live) /\ ToSet(rest) \subseteq ToSet(live)
      /\ Below(ToSet(front), ToSet(rest))
  BY <1>1, CutRises DEF OrderInv
<1> HIDE DEF front, rest
<1>3. filled \in Seq(Frames)
  BY <1>1, <1>2
<1>4. Below(ToSet(buffer), ToSet(front))
  BY <1>2 DEF OrderInv, Layers, Below
<1>5. Rises(filled) /\ ToSet(filled) \subseteq ToSet(buffer) \cup ToSet(front)
  BY <1>1, <1>2, <1>4, ConcatRises DEF OrderInv
<1> HIDE DEF filled
<1>6. \A A : /\ Below(A, ToSet(buffer)) /\ Below(A, ToSet(live)) =>
                  Below(A, ToSet(filled)) /\ Below(A, ToSet(rest))
             /\ Below(ToSet(buffer), A) /\ Below(ToSet(live), A) =>
                  Below(ToSet(filled), A) /\ Below(ToSet(rest), A)
  BY <1>2, <1>5 DEF Below
<1>7. Below(ToSet(filled), ToSet(rest))
  BY <1>2, <1>5 DEF OrderInv, Layers, Below
<1>8. Layers(FramesIn(wire), FramesIn(held), FramesIn(chan), FramesIn(pending),
             ToSet(filled), ToSet(rest), nextFrame)
  BY <1>6, <1>7 DEF OrderInv, Layers
<1>. QED
  BY <1>2, <1>3, <1>5, <1>8 DEF filled, front, rest

\* A signal brings no frame into the sender channel, whether it fits or not.
LEMMA SignalOrder ==
  ASSUME TypeOK, Ascends(chan), NEW m \in {Pause, Resume, Stop}, TrySend(m)
  PROVE  FramesIn(chan') \subseteq FramesIn(chan) /\ Ascends(chan')
<1>1. m \in Messages /\ ~IsPacket(m)
  BY DEF Messages, IsPacket, Pause, Resume, Stop
<1>2. chan \in Seq(Messages) /\ (chan' = chan \/ chan' = Append(chan, m))
  BY DEF TypeOK, CallOK, TrySend
<1>. QED
  BY <1>1, <1>2, AppendOrder

\* The queues are unchanged.
LEMMA OrderStutters ==
  ASSUME OrderInv, UNCHANGED <<wire, held, chan, pending, buffer, live, nextFrame>>
  PROVE  OrderInv'
BY DEF OrderInv

\* The calls of the API put signals in the channel or empty the buffer.
LEMMA OrderApi ==
  ASSUME TypeOK, OrderInv, Api
  PROVE  OrderInv'
<1>1. CASE StartLive \/ ResetAfterFlush \/ FlushFails \/ StopJoined
  BY <1>1, OrderStutters
     DEF StartLive, ResetAfterFlush, FlushFails, StopJoined, sourceVars, innerVars, taskVars, threadVars
<1>2. CASE PauseStream \/ ResumeStream \/ StopSignal
  <2>1. UNCHANGED <<wire, held, pending, buffer, live, nextFrame>>
    BY <1>2 DEF PauseStream, ResumeStream, StopSignal, sourceVars, innerVars, taskVars, threadVars
  <2>2. chan' = chan \/ \E m \in {Pause, Resume, Stop} : TrySend(m)
    BY <1>2 DEF PauseStream, ResumeStream, StopSignal, Signal
  <2>3. FramesIn(chan') \subseteq FramesIn(chan) /\ Ascends(chan')
    BY <2>2, SignalOrder DEF OrderInv
  <2>. QED
    BY <2>1, <2>3, OrderShrinks DEF OrderInv
<1>3. CASE StopFinish
  <2>1. /\ UNCHANGED <<wire, held, chan, pending, nextFrame>>
        /\ buffer' = <<>> /\ live' = <<>>
    BY <1>3 DEF StopFinish, taskVars, threadVars
  <2>2. Rises(<<>>) /\ ToSet(<<>>) = {}
    BY DEF Rises, ToSet
  <2>. QED
    BY <2>1, <2>2, OrderShrinks DEF OrderInv
<1>. QED
  BY <1>1, <1>2, <1>3 DEF Api

\* The thread takes from the front of the channel and puts at the back of the wire.
LEMMA OrderThread ==
  ASSUME TypeOK, Shape, OrderInv, Thread
  PROVE  OrderInv'
<1>1. /\ chan \in Seq(Messages) /\ wire \in Seq(Messages) /\ held \in Seq(Messages)
      /\ UNCHANGED <<pending, buffer, live, nextFrame>>
  <2>1. Packets \subseteq Messages
    BY DEF Messages
  <2>2. chan \in Seq(Messages) /\ wire \in Seq(Packets) /\ held \in Seq(Packets)
    BY DEF TypeOK, CallOK, ThreadOK
  <2>3. UNCHANGED <<pending, buffer, live, nextFrame>>
    BY DEF Thread, ThreadReceive, ThreadEmit, ThreadPaused, ThreadDisconnected,
           sourceVars, innerVars, taskVars
  <2>. QED
    BY <2>1, <2>2, <2>3
<1>2. ASSUME wire' = wire, held' = held,
             chan' = <<>> \/ (chan # <<>> /\ chan' = Tail(chan))
      PROVE  OrderInv'
  <2>1. FramesIn(chan') \subseteq FramesIn(chan) /\ Ascends(chan')
    BY <1>1, <1>2, TailOrder, ShortOrder DEF OrderInv
  <2>. QED
    BY <1>1, <1>2, <2>1, OrderShrinks DEF OrderInv
<1>3. CASE ThreadReceive /\ IsPacket(Head(chan))
  <2>1. /\ chan # <<>> /\ wire' = wire /\ held' = <<Head(chan)>> /\ chan' = Tail(chan)
    BY <1>3 DEF ThreadReceive, IsPacket
  <2>2. /\ FramesIn(Tail(chan)) \subseteq FramesIn(chan) /\ Head(chan).frame \in FramesIn(chan)
        /\ Ascends(Tail(chan)) /\ Below({Head(chan).frame}, FramesIn(Tail(chan)))
        /\ FramesIn(held') \subseteq {Head(chan).frame}
    BY <1>1, <1>3, <2>1, TailOrder, ShortOrder DEF OrderInv
  <2>3. Layers(FramesIn(wire), FramesIn(held'), FramesIn(chan'), FramesIn(pending),
               ToSet(buffer), ToSet(live), nextFrame)
    BY <2>1, <2>2 DEF OrderInv, Layers, Below
  <2>. QED
    BY <1>1, <2>1, <2>2, <2>3 DEF OrderInv
<1>4. CASE ThreadReceive /\ ~IsPacket(Head(chan))
  <2>1. /\ chan # <<>> /\ wire' = wire /\ held' = held
        /\ chan' = <<>> \/ chan' = Tail(chan)
    BY <1>4 DEF ThreadReceive, ThreadExits, IsPacket
  <2>. QED
    BY <1>2, <2>1
<1>5. CASE ThreadPaused \/ ThreadDisconnected
  BY <1>2, <1>5 DEF ThreadPaused, ThreadDisconnected, ThreadExits
<1>6. CASE ThreadEmit
  <2>1. chan' = chan /\ held' = <<>> /\ wire' = wire \o held
    BY <1>6 DEF ThreadEmit
  <2>2. Len(held) = 1 /\ held[1] \in Packets
    BY <1>6, HeldIsOne DEF ThreadEmit
  <2>3. wire' = Append(wire, held[1]) /\ held[1] \in Messages
    BY <1>6, <2>1, <2>2, HeldIsOne DEF ThreadEmit, Messages
  <2>4. held[1].frame \in FramesIn(held)
    <3>1. held[1] \in Packets /\ 1 \in DOMAIN held
      <4>1. held \in Seq(Packets)
        BY DEF TypeOK, ThreadOK
      <4>. QED
        BY <2>2, <4>1, LenProperties, ElementOfSeq
    <3>. QED
      BY <3>1 DEF FramesIn, IsPacket, Packets
  <2>5. Below(FramesIn(wire), {held[1].frame})
    BY <2>4 DEF OrderInv, Layers, Below
  <2>6. /\ FramesIn(wire') \subseteq FramesIn(wire) \cup {held[1].frame} /\ Ascends(wire')
        /\ FramesIn(held') = {}
    BY <1>1, <2>1, <2>3, <2>5, AppendOrder, ShortOrder DEF OrderInv
  <2>7. Layers(FramesIn(wire'), FramesIn(held'), FramesIn(chan), FramesIn(pending),
               ToSet(buffer), ToSet(live), nextFrame)
    BY <2>4, <2>6 DEF OrderInv, Layers, Below
  <2>. QED
    BY <1>1, <2>1, <2>6, <2>7 DEF OrderInv
<1>. QED
  BY <1>3, <1>4, <1>5, <1>6 DEF Thread

\* A frame enters the live channel behind all others.
LEMMA OrderSource ==
  ASSUME TypeOK, OrderInv, Push \/ CloseSource
  PROVE  OrderInv'
<1>1. CASE CloseSource
  BY <1>1, OrderStutters DEF CloseSource, innerVars, taskVars, threadVars
<1>2. CASE Push
  <2>1. /\ UNCHANGED <<wire, held, chan, pending, buffer>>
        /\ live' = Append(live, nextFrame) /\ nextFrame' = nextFrame + 1
        /\ live \in Seq(Frames) /\ nextFrame \in Frames
    BY <1>2, ConstantsAssumption
       DEF Push, innerVars, taskVars, threadVars, TypeOK, SourceOK, Frames
  <2>2. Rises(live') /\ ToSet(live') \subseteq ToSet(live) \cup {nextFrame}
    BY <2>1, AppendRises DEF OrderInv, Layers
  <2>3. \A A : A \subseteq Nat /\ Below(A, {nextFrame}) => Below(A, {nextFrame'})
    BY <2>1, ConstantsAssumption DEF Below, Frames
  <2>4. /\ FramesIn(wire) \subseteq Nat /\ FramesIn(held) \subseteq Nat
        /\ FramesIn(chan) \subseteq Nat /\ FramesIn(pending) \subseteq Nat
        /\ ToSet(buffer) \subseteq Nat /\ ToSet(live) \subseteq Nat
    <3>1. Frames \subseteq Nat
      BY ConstantsAssumption DEF Frames
    <3>2. /\ ToSet(buffer) \subseteq Nat /\ ToSet(live) \subseteq Nat
      <4>1. \A s \in Seq(Frames) : \A i \in DOMAIN s : s[i] \in Frames
        BY ElementOfSeq, LenProperties
      <4>2. buffer \in Seq(Frames) /\ live \in Seq(Frames)
        BY DEF TypeOK, SourceOK, InnerOK
      <4>. QED
        BY <3>1, <4>1, <4>2 DEF ToSet
    <3>3. FramesIn(chan) \subseteq Nat
      <4>1. \A s \in Seq(Messages) : \A i \in DOMAIN s : s[i] \in Messages
        BY ElementOfSeq, LenProperties
      <4>2. \A m \in Messages : IsPacket(m) => m.frame \in Nat
        BY <3>1, PacketOrSignal
      <4>3. chan \in Seq(Messages)
        BY DEF TypeOK, CallOK
      <4>. QED
        BY <4>1, <4>2, <4>3 DEF FramesIn
    <3>4. FramesIn(wire) \subseteq Nat /\ FramesIn(held) \subseteq Nat /\ FramesIn(pending) \subseteq Nat
      <4>1. wire \in Seq(Packets) /\ held \in Seq(Packets) /\ pending \in Seq(Packets)
        BY DEF TypeOK, ThreadOK, TaskOK
      <4>2. \A p \in Packets : p.frame \in Frames
        BY DEF Packets
      <4>3. \A s \in Seq(Packets) : \A i \in DOMAIN s : s[i] \in Packets
        BY ElementOfSeq, LenProperties
      <4>. QED
        BY <3>1, <4>1, <4>2, <4>3 DEF FramesIn
    <3>. QED
      BY <3>2, <3>3, <3>4
  <2>5. nextFrame < nextFrame'
    BY <2>1, ConstantsAssumption DEF Frames
  <2>6. Layers(FramesIn(wire), FramesIn(held), FramesIn(chan), FramesIn(pending),
               ToSet(buffer), ToSet(live'), nextFrame')
    <3>1. Below(ToSet(live'), {nextFrame'})
      BY <2>2, <2>3, <2>4, <2>5 DEF OrderInv, Layers, Below
    <3>2. \A A : Below(A, ToSet(live)) /\ Below(A, {nextFrame}) => Below(A, ToSet(live'))
      BY <2>2 DEF Below
    <3>. QED
      BY <2>3, <2>4, <3>1, <3>2 DEF OrderInv, Layers
  <2>. QED
    BY <2>1, <2>2, <2>6 DEF OrderInv
<1>. QED
  BY <1>1, <1>2

\* The back of the live channel after a refill, and what the refill leaves in order.
LEMMA AfterRefill ==
  ASSUME TypeOK, OrderInv, Refill
  PROVE  /\ Refilled \in Seq(Frames) /\ Rises(Refilled) /\ live' \in Seq(Frames) /\ Rises(live')
         /\ Layers(FramesIn(wire), FramesIn(held), FramesIn(chan), FramesIn(pending),
                   ToSet(Refilled), ToSet(live'), nextFrame)
<1>1. BatchSize \in 0 .. Len(live) /\ BatchSize \in BatchSize .. Len(live)
  BY BatchBounds
<1>. QED
  BY <1>1, RefillOrder DEF Refilled, Refill

\* A new packet for the oldest frame that is left goes behind all packets made before.
LEMMA OrderProduce ==
  ASSUME TypeOK, Shape, OrderInv, TaskProduce
  PROVE  OrderInv'
<1> DEFINE frame  == Head(Refilled)
           packet == [kind |-> "Packet", frame |-> frame, sync |-> PreparesSync]
<1>1. /\ Refilled \in Seq(Frames) /\ Refilled # <<>> /\ Rises(Refilled) /\ Rises(live')
      /\ buffer' = Tail(Refilled)
      /\ Layers(FramesIn(wire), FramesIn(held), FramesIn(chan), FramesIn(pending),
                ToSet(Refilled), ToSet(live'), nextFrame)
      /\ UNCHANGED <<held, chan, nextFrame>>
  BY AfterRefill DEF TaskProduce, TaskFill
<1>2. /\ Rises(buffer') /\ frame \in ToSet(Refilled) /\ ToSet(buffer') \subseteq ToSet(Refilled)
      /\ Below({frame}, ToSet(buffer'))
  BY <1>1, TailRises
<1>3. packet \in Messages /\ packet.frame = frame
  <2>1. frame \in Frames
    BY <1>1
  <2>2. PreparesSync \in BOOLEAN
    BY DEF PreparesSync
  <2>. QED
    BY <2>1, <2>2 DEF Messages, Packets
<1>4. /\ IF threaded THEN pending' = <<packet>> /\ wire' = wire
                     ELSE wire' = Append(wire, packet) /\ pending' = pending
      /\ pending = <<>>
  BY DEF TaskProduce, TaskFill, TypeOK, TaskOK
<1> HIDE DEF packet, frame
<1>5. CASE threaded
  <2>1. FramesIn(pending') \subseteq {frame} /\ wire' = wire
    BY <1>3, <1>4, <1>5, ShortOrder
  <2>2. Layers(FramesIn(wire), FramesIn(held), FramesIn(chan), FramesIn(pending'),
               ToSet(buffer'), ToSet(live'), nextFrame)
    BY <1>1, <1>2, <2>1 DEF Layers, Below
  <2>. QED
    BY <1>1, <1>2, <2>1, <2>2 DEF OrderInv
<1>6. CASE ~threaded
  <2>1. /\ FramesIn(held) = {} /\ FramesIn(chan) = {} /\ FramesIn(pending') = {}
        /\ wire' = Append(wire, packet) /\ wire \in Seq(Messages)
    <3>1. held = <<>> /\ chan = <<>> /\ pending' = <<>> /\ wire' = Append(wire, packet)
      BY <1>4, <1>6 DEF Shape
    <3>2. wire \in Seq(Messages)
      <4>1. wire \in Seq(Packets) /\ Packets \subseteq Messages
        BY DEF TypeOK, ThreadOK, Messages
      <4>. QED
        BY <4>1
    <3>. QED
      BY <3>1, <3>2, ShortOrder
  <2>2. Below(FramesIn(wire), {frame})
    BY <1>1, <1>2 DEF Layers, Below
  <2>3. FramesIn(wire') \subseteq FramesIn(wire) \cup {frame} /\ Ascends(wire')
    BY <1>3, <2>1, <2>2, AppendOrder DEF OrderInv
  <2>4. Layers(FramesIn(wire'), FramesIn(held), FramesIn(chan), FramesIn(pending'),
               ToSet(buffer'), ToSet(live'), nextFrame)
    BY <1>1, <1>2, <2>1, <2>3 DEF Layers, Below
  <2>. QED
    BY <1>1, <1>2, <2>3, <2>4 DEF OrderInv
<1>. QED
  BY <1>5, <1>6

\* The other passes drop frames, hand packets on, or leave them where they are.
LEMMA OrderTask ==
  ASSUME TypeOK, Shape, OrderInv, Task
  PROVE  OrderInv'
<1>1. CASE TaskCheck
  <2>1. UNCHANGED <<wire, held, pending, buffer, live, nextFrame>>
    BY <1>1 DEF TaskCheck, sourceVars, innerVars, threadVars
  <2>2. chan' = chan \/ TrySend(Stop)
    BY <1>1 DEF TaskCheck
  <2>3. FramesIn(chan') \subseteq FramesIn(chan) /\ Ascends(chan')
    BY <2>2, SignalOrder DEF OrderInv
  <2>. QED
    BY <2>1, <2>3, OrderShrinks DEF OrderInv
<1>2. CASE TaskWait \/ TaskStopAtEof \/ TaskUnderrun \/ TaskFail
  <2>1. /\ Refill /\ UNCHANGED <<wire, held, pending, nextFrame>>
        /\ buffer' = Refilled \/ (Refilled # <<>> /\ buffer' = Tail(Refilled))
        /\ chan' = chan \/ TrySend(Stop)
    BY <1>2 DEF TaskWait, TaskStopAtEof, TaskUnderrun, TaskFail, TaskFill
  <2>2. FramesIn(chan') \subseteq FramesIn(chan) /\ Ascends(chan')
    BY <2>1, SignalOrder DEF OrderInv
  <2>3. Rises(buffer') /\ ToSet(buffer') \subseteq ToSet(Refilled) /\ Rises(live')
    BY <2>1, AfterRefill, TailRises
  <2>4. Layers(FramesIn(wire), FramesIn(held), FramesIn(chan'), FramesIn(pending),
               ToSet(buffer'), ToSet(live'), nextFrame)
    BY <2>1, <2>2, <2>3, AfterRefill DEF Layers, Below
  <2>. QED
    BY <2>1, <2>2, <2>3, <2>4 DEF OrderInv
<1>3. CASE TaskDecodeFails
  <2>1. PICK n \in 1 .. BatchSize : /\ live' = SubSeq(live, n + 1, Len(live))
                                    /\ buffer' = buffer \o SubSeq(live, 1, n - 1)
    BY <1>3 DEF TaskDecodeFails
  <2>2. n - 1 \in 0 .. Len(live) /\ n \in n - 1 .. Len(live)
    BY BatchBounds, LenProperties DEF TypeOK, SourceOK
  <2>3. UNCHANGED <<wire, held, chan, pending, nextFrame>>
    BY <1>3 DEF TaskDecodeFails, threadVars
  <2>. QED
    BY <2>1, <2>2, <2>3, RefillOrder DEF OrderInv
<1>4. CASE TaskSent
  <2>1. /\ UNCHANGED <<wire, held, buffer, live, nextFrame>>
        /\ chan' = Append(chan, Head(pending)) /\ pending' = <<>>
        /\ pending \in Seq(Packets) /\ pending # <<>> /\ chan \in Seq(Messages)
    BY <1>4 DEF TaskSent, sourceVars, innerVars, threadVars, TypeOK, TaskOK, CallOK
  <2>2. /\ Head(pending) \in Messages /\ Head(pending).frame \in FramesIn(pending)
        /\ FramesIn(pending') = {}
    <3>1. Packets \subseteq Messages
      BY DEF Messages
    <3>2. pending \in Seq(Messages) /\ Head(pending) \in Packets
      BY <2>1, <3>1, HeadTailProperties
    <3>3. IsPacket(Head(pending))
      BY <3>2 DEF IsPacket, Packets
    <3>. QED
      BY <2>1, <3>1, <3>2, <3>3, TailOrder, ShortOrder
  <2>3. Below(FramesIn(chan), {Head(pending).frame})
    BY <2>2 DEF OrderInv, Layers, Below
  <2>4. /\ FramesIn(chan') \subseteq FramesIn(chan) \cup {Head(pending).frame} /\ Ascends(chan')
    BY <2>1, <2>2, <2>3, AppendOrder DEF OrderInv
  <2>5. Layers(FramesIn(wire), FramesIn(held), FramesIn(chan'), FramesIn(pending'),
               ToSet(buffer), ToSet(live), nextFrame)
    BY <2>2, <2>4 DEF OrderInv, Layers, Below
  <2>. QED
    BY <2>1, <2>4, <2>5 DEF OrderInv
<1>5. CASE TaskError \/ TaskSendFails \/ TaskCancelled
  <2>1. /\ UNCHANGED <<wire, held, chan, buffer, live, nextFrame>>
        /\ FramesIn(pending') \subseteq FramesIn(pending)
    BY <1>5, ShortOrder
       DEF TaskError, TaskSendFails, TaskCancelled, sourceVars, innerVars, threadVars
  <2>. QED
    BY <2>1, OrderShrinks DEF OrderInv
<1>. QED
  BY <1>1, <1>2, <1>3, <1>4, <1>5, OrderProduce DEF Task

\* Every step keeps the order.
LEMMA OrderStep == TypeOK /\ Shape /\ OrderInv /\ [Next]_vars => OrderInv'
<1>1. ASSUME OrderInv, UNCHANGED vars PROVE OrderInv'
  BY <1>1, OrderStutters DEF vars, sourceVars, innerVars, taskVars, threadVars
<1>. QED
  BY <1>1, OrderApi, OrderThread, OrderTask, OrderSource DEF Next

\* At first all places are empty.
LEMMA OrderInit == Init => Shape /\ OrderInv
<1> SUFFICES ASSUME Init PROVE Shape /\ OrderInv
  OBVIOUS
<1>1. FramesIn(<<>>) = {} /\ Ascends(<<>>) /\ Rises(<<>>) /\ ToSet(<<>>) = {} /\ Len(<<>>) = 0
  BY ShortOrder DEF Rises, ToSet
<1>2. Shape
  BY <1>1 DEF Init, Shape
<1>3. OrderInv
  BY <1>1 DEF Init, OrderInv, Layers, Below
<1>. QED
  BY <1>2, <1>3

\* Two queues of messages in order, one behind the other, are one queue in order.
LEMMA ConcatOrder ==
  ASSUME NEW s \in Seq(Messages), NEW t \in Seq(Messages), Ascends(s), Ascends(t),
         Below(FramesIn(s), FramesIn(t))
  PROVE  /\ s \o t \in Seq(Messages) /\ Ascends(s \o t)
         /\ FramesIn(s \o t) \subseteq FramesIn(s) \cup FramesIn(t)
         /\ ToSet(s \o t) = ToSet(s) \cup ToSet(t)
<1> DEFINE u == s \o t
<1>1. /\ Len(s) \in Nat /\ DOMAIN s = 1 .. Len(s) /\ Len(t) \in Nat /\ DOMAIN t = 1 .. Len(t)
      /\ u \in Seq(Messages) /\ DOMAIN u = 1 .. Len(s) + Len(t)
      /\ \A i \in DOMAIN s : u[i] = s[i] /\ i \in DOMAIN u
      /\ \A i \in DOMAIN t : u[Len(s) + i] = t[i] /\ Len(s) + i \in DOMAIN u
      /\ \A i \in DOMAIN u \ DOMAIN s : u[i] = t[i - Len(s)] /\ i - Len(s) \in DOMAIN t
  OBVIOUS
<1> HIDE DEF u
<1>2. FramesIn(u) \subseteq FramesIn(s) \cup FramesIn(t)
  BY <1>1 DEF FramesIn
<1>3. Ascends(u)
  <2> SUFFICES ASSUME NEW i \in DOMAIN u, NEW j \in DOMAIN u, i < j, IsPacket(u[i]), IsPacket(u[j])
               PROVE  u[i].frame < u[j].frame
    BY DEF Ascends
  <2>1. CASE j \in DOMAIN s
    <3>1. i \in DOMAIN s
      BY <1>1, <2>1
    <3>. QED
      BY <1>1, <2>1, <3>1 DEF Ascends
  <2>2. CASE i \in DOMAIN s /\ j \notin DOMAIN s
    <3>1. u[i].frame \in FramesIn(s) /\ u[j].frame \in FramesIn(t)
      BY <1>1, <2>2 DEF FramesIn
    <3>. QED
      BY <3>1 DEF Below
  <2>3. CASE i \notin DOMAIN s
    <3>1. i - Len(s) < j - Len(s) /\ j \notin DOMAIN s
      BY <1>1, <2>3
    <3>. QED
      BY <1>1, <2>3, <3>1 DEF Ascends
  <2>. QED
    BY <2>1, <2>2, <2>3
<1>4. ToSet(u) = ToSet(s) \cup ToSet(t)
  <2>1. ToSet(u) \subseteq ToSet(s) \cup ToSet(t)
    BY <1>1 DEF ToSet
  <2>2. ToSet(s) \subseteq ToSet(u)
    BY <1>1 DEF ToSet
  <2>3. ToSet(t) \subseteq ToSet(u)
    BY <1>1 DEF ToSet
  <2>. QED
    BY <2>1, <2>2, <2>3
<1>. QED
  BY <1>1, <1>2, <1>3, <1>4 DEF u

\* A queue of at most one message is in order.
LEMMA OneIsOrdered ==
  ASSUME NEW s \in Seq(Packets), Len(s) <= 1
  PROVE  Ascends(s)
BY DEF Ascends

\* What the places hold, taken together.
LEMMA MadeOrder ==
  ASSUME TypeOK, Shape, OrderInv
  PROVE  /\ Made \in Seq(Messages) /\ Ascends(Made)
         /\ FramesIn(Made) \subseteq FramesIn(wire) \cup FramesIn(held)
                                       \cup FramesIn(chan) \cup FramesIn(pending)
         /\ ToSet(Made) = ToSet(wire) \cup ToSet(held) \cup ToSet(chan) \cup ToSet(pending)
<1>1. /\ wire \in Seq(Packets) /\ held \in Seq(Packets) /\ pending \in Seq(Packets)
      /\ chan \in Seq(Messages) /\ Packets \subseteq Messages
  BY DEF TypeOK, ThreadOK, TaskOK, CallOK, Messages
<1>2. wire \in Seq(Messages) /\ held \in Seq(Messages) /\ pending \in Seq(Messages)
  BY <1>1
<1>3. Ascends(held) /\ Ascends(pending)
  BY <1>1, OneIsOrdered DEF Shape
<1> DEFINE s == wire \o held
           t == s \o chan
<1>4. /\ s \in Seq(Messages) /\ Ascends(s) /\ FramesIn(s) \subseteq FramesIn(wire) \cup FramesIn(held)
      /\ ToSet(s) = ToSet(wire) \cup ToSet(held)
  BY <1>2, <1>3, ConcatOrder DEF OrderInv, Layers
<1> HIDE DEF s
<1>5. Below(FramesIn(s), FramesIn(chan)) /\ Below(FramesIn(s), FramesIn(pending))
  BY <1>4 DEF OrderInv, Layers, Below
<1>6. /\ t \in Seq(Messages) /\ Ascends(t) /\ FramesIn(t) \subseteq FramesIn(s) \cup FramesIn(chan)
      /\ ToSet(t) = ToSet(s) \cup ToSet(chan)
  BY <1>1, <1>4, <1>5, ConcatOrder DEF OrderInv
<1> HIDE DEF t
<1>7. Below(FramesIn(t), FramesIn(pending))
  BY <1>5, <1>6 DEF OrderInv, Layers, Below
<1>8. /\ t \o pending \in Seq(Messages) /\ Ascends(t \o pending)
      /\ FramesIn(t \o pending) \subseteq FramesIn(t) \cup FramesIn(pending)
      /\ ToSet(t \o pending) = ToSet(t) \cup ToSet(pending)
  BY <1>2, <1>3, <1>6, <1>7, ConcatOrder
<1>9. Made = t \o pending
  BY DEF Made, t, s
<1>. QED
  BY <1>4, <1>6, <1>8, <1>9

\* The order within and between the places is the order of the whole path.
LEMMA OrderSuffices == TypeOK /\ Shape /\ OrderInv => InOrder
<1> SUFFICES ASSUME TypeOK, Shape, OrderInv PROVE InOrder
  OBVIOUS
<1>1. /\ buffer \in Seq(Frames) /\ live \in Seq(Frames)
      /\ Rises(Unmade) /\ ToSet(Unmade) \subseteq ToSet(buffer) \cup ToSet(live)
  BY ConcatRises DEF TypeOK, SourceOK, InnerOK, OrderInv, Layers, Unmade
<1>2. Ascends(Made) /\ Below(FramesIn(Made), ToSet(Unmade))
  BY <1>1, MadeOrder DEF OrderInv, Layers, Below
<1>3. ASSUME NEW i \in DOMAIN Made, NEW j \in DOMAIN Unmade, IsPacket(Made[i])
      PROVE  Made[i].frame < Unmade[j]
  <2>1. Made[i].frame \in FramesIn(Made) /\ Unmade[j] \in ToSet(Unmade)
    BY <1>3 DEF FramesIn, ToSet
  <2>. QED
    BY <1>2, <2>1 DEF Below
<1>. QED
  BY <1>1, <1>2, <1>3 DEF InOrder, Ascends, Rises

\* No frame is ever duplicated or overtaken between the source and the sockets, for every
\* capacity of the channels and the buffer and every interleaving of the four actors.
THEOREM FramesStayInOrder == Spec => []InOrder
<1>. QED
  BY TypeInit, TypeStep, OrderInit, ShapeStep, OrderStep, OrderSuffices, PTL DEF Spec

-----------------------------------------------------------------------------
(* Sync packets. While the task runs, the frames before it are numbered on from its      *)
(* timestamp, so that the packet with frame f was made at timestamp f - 1. The last of   *)
(* them with a sync is always near, by less than the space of RTP timestamps, so that    *)
(* the wrapping difference is the true one; every packet without a sync takes it for     *)
(* its witness.                                                                          *)

\* What is anywhere on its way, or out, and the packets among it.
Contents    == ToSet(wire) \cup ToSet(held) \cup ToSet(chan) \cup ToSet(pending)
PacketsMade == {p \in Contents : IsPacket(p)}

Contiguous ==
  /\ \A i \in DOMAIN buffer : buffer[i] = ts + i
  /\ \A i \in DOMAIN live : live[i] = ts + Len(buffer) + i
  /\ nextFrame = ts + Len(buffer) + Len(live) + 1

Numbered ==
  /\ (hasDecoder \/ api = "new") /\ ~Returned => Contiguous
  /\ ~hasDecoder /\ api # "new" => buffer = <<>> /\ live = <<>>

\* Less than sample_rate samples from the packet with frame f to that with frame g.
Near(f, g) == (g - f) * PacketSamples < SampleRate

IsSynced(f) == SyncPort => \A q \in PacketsMade : q.frame = f => q.sync

LastSynced ==
  lastSync # 0 =>
    \E f \in 1..ts : /\ lastSync = ((f - 1) * PacketSamples) % TimestampSpace
                     /\ Near(f, ts)
                     /\ IsSynced(f)

Spaced ==
  SyncPort => \A p \in PacketsMade : ~p.sync =>
    \E f \in Frames : f < p.frame /\ Near(f, p.frame) /\ IsSynced(f)

SyncInv == Numbered /\ LastSynced /\ Spaced

\* What a queue holds after its head is taken off, or a message appended.
LEMMA QueueContents ==
  ASSUME NEW s \in Seq(Messages)
  PROVE  /\ s # <<>> => /\ Head(s) \in ToSet(s)
                        /\ ToSet(Tail(s)) \subseteq ToSet(s)
                        /\ ToSet(s) \subseteq {Head(s)} \cup ToSet(Tail(s))
         /\ \A m \in Messages : ToSet(Append(s, m)) = ToSet(s) \cup {m}
<1>1. Len(s) \in Nat /\ DOMAIN s = 1 .. Len(s)
  OBVIOUS
<1>2. ASSUME s # <<>>
      PROVE  /\ Head(s) \in ToSet(s)
             /\ ToSet(Tail(s)) \subseteq ToSet(s)
             /\ ToSet(s) \subseteq {Head(s)} \cup ToSet(Tail(s))
  <2>1. /\ 1 \in DOMAIN s /\ Head(s) = s[1] /\ DOMAIN Tail(s) = 1 .. Len(s) - 1
        /\ \A i \in DOMAIN Tail(s) : Tail(s)[i] = s[i + 1] /\ i + 1 \in DOMAIN s
    BY <1>1, <1>2
  <2>2. \A i \in DOMAIN s : i = 1 \/ (i - 1 \in DOMAIN Tail(s) /\ Tail(s)[i - 1] = s[i])
    BY <1>1, <1>2
  <2>3. ToSet(s) \subseteq {Head(s)} \cup ToSet(Tail(s))
    BY <2>1, <2>2 DEF ToSet
  <2>. QED
    BY <2>1, <2>3 DEF ToSet
<1>3. ASSUME NEW m \in Messages PROVE ToSet(Append(s, m)) = ToSet(s) \cup {m}
  <2> DEFINE t == Append(s, m)
  <2>1. /\ DOMAIN t = 1 .. Len(s) + 1 /\ t[Len(s) + 1] = m
        /\ Len(s) + 1 \in DOMAIN t
        /\ \A i \in DOMAIN s : t[i] = s[i] /\ i \in DOMAIN t
        /\ \A i \in DOMAIN t : i \in DOMAIN s \/ i = Len(s) + 1
    BY <1>1
  <2> HIDE DEF t
  <2>2. ToSet(t) \subseteq ToSet(s) \cup {m}
    BY <2>1 DEF ToSet
  <2>3. ToSet(s) \subseteq ToSet(t)
    BY <2>1 DEF ToSet
  <2>4. m \in ToSet(t)
    BY <2>1 DEF ToSet
  <2>5. ToSet(t) = ToSet(s) \cup {m}
    BY <2>2, <2>3, <2>4
  <2>. QED
    BY <2>5 DEF t
<1>. QED
  BY <1>2, <1>3

LEMMA ShortContents == ToSet(<<>>) = {} /\ \A m : ToSet(<<m>>) = {m}
BY DEF ToSet

\* A signal sent adds only itself to what the channel holds.
LEMMA SignalContents ==
  ASSUME TypeOK, NEW m \in {Pause, Resume, Stop}, TrySend(m)
  PROVE  ToSet(chan') \subseteq ToSet(chan) \cup {Pause, Resume, Stop}
<1>1. m \in Messages /\ chan \in Seq(Messages)
  BY SignalsAreMessages, PlacesType
<1>2. ToSet(Append(chan, m)) = ToSet(chan) \cup {m}
  BY <1>1, QueueContents
<1>3. chan' = chan \/ chan' = Append(chan, m)
  BY DEF TrySend
<1>. QED
  BY <1>2, <1>3

\* Only TaskProduce makes packets.
LEMMA NothingElseMakes ==
  ASSUME TypeOK, Shape, [Next]_vars, ~TaskProduce
  PROVE  PacketsMade' \subseteq PacketsMade
<1> DEFINE Signals == {Pause, Resume, Stop}
<1>1. \A m \in Signals : ~IsPacket(m)
  BY DEF IsPacket, Pause, Resume, Stop
<1>2. SUFFICES Contents' \subseteq Contents \cup Signals
  BY <1>1 DEF PacketsMade
<1> HIDE DEF Signals
<1>3. ASSUME UNCHANGED <<wire, held, pending>>, ToSet(chan') \subseteq ToSet(chan) \cup Signals
      PROVE  Contents' \subseteq Contents \cup Signals
  BY <1>3 DEF Contents
<1>4. CASE Push \/ CloseSource \/ Api \/ UNCHANGED vars
  <2>1. UNCHANGED <<wire, held, pending>>
    BY <1>4 DEF Push, CloseSource, Api, StartLive, PauseStream, ResetAfterFlush, FlushFails,
                ResumeStream, StopSignal, StopJoined, StopFinish, taskVars, threadVars, vars
  <2>2. chan' = chan \/ \E m \in {Pause, Resume, Stop} : TrySend(m)
    BY <1>4 DEF Push, CloseSource, Api, StartLive, PauseStream, ResetAfterFlush, FlushFails,
                ResumeStream, StopSignal, StopJoined, StopFinish, Signal, vars
  <2>. QED
    BY <1>3, <2>1, <2>2, SignalContents DEF Signals
<1>5. CASE TaskCheck \/ TaskWait \/ TaskStopAtEof \/ TaskUnderrun \/ TaskDecodeFails \/ TaskFail
  <2>1. UNCHANGED <<wire, held, pending>>
    BY <1>5 DEF TaskCheck, TaskFill, TaskWait, TaskStopAtEof, TaskUnderrun, TaskDecodeFails,
                TaskFail, threadVars
  <2>2. chan' = chan \/ TrySend(Stop)
    BY <1>5 DEF TaskCheck, TaskWait, TaskStopAtEof, TaskUnderrun, TaskDecodeFails, TaskFail
  <2>. QED
    BY <1>3, <2>1, <2>2, SignalContents DEF Signals
<1>6. CASE TaskSent
  <2>1. /\ UNCHANGED <<wire, held>> /\ pending # <<>>
        /\ chan' = Append(chan, Head(pending)) /\ pending' = <<>>
    BY <1>6 DEF TaskSent, threadVars, TypeOK, TaskOK
  <2>2. Head(pending) \in ToSet(pending) /\ Head(pending) \in Messages
    BY <2>1, PlacesType, QueueContents
  <2>3. ToSet(chan') = ToSet(chan) \cup {Head(pending)}
    BY <2>1, <2>2, PlacesType, QueueContents
  <2>. QED
    BY <2>1, <2>2, <2>3, ShortContents DEF Contents
<1>7. CASE TaskError \/ TaskSendFails \/ TaskCancelled
  <2>1. UNCHANGED <<wire, held, chan>> /\ pending' \in {pending, <<>>}
    BY <1>7 DEF TaskError, TaskSendFails, TaskCancelled, threadVars
  <2>. QED
    BY <2>1, ShortContents DEF Contents
<1>8. CASE ThreadEmit
  <2>1. wire' = wire \o held /\ held' = <<>> /\ UNCHANGED <<chan, pending>>
    BY <1>8 DEF ThreadEmit, taskVars
  <2>2. ToSet(wire \o held) \subseteq ToSet(wire) \cup ToSet(held)
    <3>1. wire \in Seq(Messages) /\ held \in Seq(Messages)
      BY PlacesType
    <3>2. ASSUME NEW s \in Seq(Messages), NEW t \in Seq(Messages)
          PROVE  ToSet(s \o t) \subseteq ToSet(s) \cup ToSet(t)
      <4>1. /\ DOMAIN s = 1 .. Len(s) /\ DOMAIN t = 1 .. Len(t)
            /\ DOMAIN (s \o t) = 1 .. Len(s) + Len(t) /\ Len(s) \in Nat /\ Len(t) \in Nat
            /\ \A i \in DOMAIN s : (s \o t)[i] = s[i]
            /\ \A i \in DOMAIN (s \o t) \ DOMAIN s :
                 (s \o t)[i] = t[i - Len(s)] /\ i - Len(s) \in DOMAIN t
        OBVIOUS
      <4>. QED
        BY <4>1 DEF ToSet
    <3>. QED
      BY <3>1, <3>2
  <2>. QED
    BY <2>1, <2>2, ShortContents DEF Contents
<1>9. CASE ThreadReceive \/ ThreadPaused \/ ThreadDisconnected
  <2>1. /\ UNCHANGED <<wire, pending>>
        /\ chan' = <<>> \/ (chan # <<>> /\ chan' = Tail(chan))
        /\ held' = held \/ (chan # <<>> /\ held' = <<Head(chan)>>)
    BY <1>9 DEF ThreadReceive, ThreadPaused, ThreadDisconnected, ThreadExits, taskVars
  <2>2. ToSet(chan') \subseteq ToSet(chan)
    BY <2>1, PlacesType, QueueContents, ShortContents
  <2>3. ToSet(held') \subseteq ToSet(held) \cup ToSet(chan)
    BY <2>1, PlacesType, QueueContents, ShortContents
  <2>. QED
    BY <2>1, <2>2, <2>3 DEF Contents
<1>. QED
  BY <1>4, <1>5, <1>6, <1>7, <1>8, <1>9 DEF Next, Task, Thread

\* What a refill leaves is numbered on as it was before.
LEMMA RefillNumbers ==
  ASSUME TypeOK, Contiguous, Refill
  PROVE  /\ Refilled \in Seq(Frames) /\ live' \in Seq(Frames)
         /\ \A i \in DOMAIN Refilled : Refilled[i] = ts + i
         /\ \A i \in DOMAIN live' : live'[i] = ts + Len(Refilled) + i
         /\ nextFrame = ts + Len(Refilled) + Len(live') + 1
<1> DEFINE n == BatchSize
<1>1. /\ buffer \in Seq(Frames) /\ live \in Seq(Frames) /\ ts \in Nat
      /\ n \in 0 .. Len(live) /\ live' = SubSeq(live, n + 1, Len(live))
      /\ Refilled = buffer \o SubSeq(live, 1, n)
  BY BatchBounds DEF TypeOK, SourceOK, InnerOK, Refill, Refilled
<1> HIDE DEF n
<1>2. /\ SubSeq(live, 1, n) \in Seq(Frames) /\ live' \in Seq(Frames)
  BY <1>1, CutType
<1>3. /\ Len(SubSeq(live, 1, n)) = n /\ Len(live') = Len(live) - n
      /\ Len(live) \in Nat /\ Len(buffer) \in Nat /\ n \in Nat
  BY <1>1
<1>4. /\ Len(Refilled) = Len(buffer) + n /\ Refilled \in Seq(Frames)
  BY <1>1, <1>2, <1>3
<1>0. /\ ts \in Nat /\ n \in Nat /\ Len(buffer) \in Nat /\ Len(live) \in Nat
      /\ Len(Refilled) = Len(buffer) + n /\ Len(live') = Len(live) - n
  BY <1>1, <1>3, <1>4
<1>5. \A i \in DOMAIN Refilled : Refilled[i] = ts + i
  <2> SUFFICES ASSUME NEW i \in 1 .. Len(buffer) + n PROVE Refilled[i] = ts + i
    BY <1>4
  <2>1. CASE i <= Len(buffer)
    <3>1. i \in DOMAIN buffer /\ Refilled[i] = buffer[i]
      BY <1>1, <1>2, <1>3, <2>1
    <3>. QED
      BY <3>1 DEF Contiguous
  <2>2. CASE i > Len(buffer)
    <3>1. i - Len(buffer) \in DOMAIN live /\ Refilled[i] = live[i - Len(buffer)]
      BY <1>1, <1>2, <1>3, <2>2
    <3>2. live[i - Len(buffer)] = ts + Len(buffer) + (i - Len(buffer))
      BY <3>1 DEF Contiguous
    <3>. QED
      BY <1>1, <1>3, <3>1, <3>2
  <2>. QED
    BY <1>3, <2>1, <2>2
<1>6. \A i \in DOMAIN live' : live'[i] = ts + Len(Refilled) + i
  <2> SUFFICES ASSUME NEW i \in 1 .. Len(live) - n PROVE live'[i] = ts + Len(Refilled) + i
    BY <1>2, <1>3
  <2>1. i \in Nat /\ n + i \in DOMAIN live
    BY <1>1, <1>3
  <2>2. SubSeq(live, n + 1, Len(live))[i] = live[n + i]
    BY <1>1, <1>3, <2>1
  <2>3. live[n + i] = ts + Len(buffer) + (n + i)
    BY <2>1 DEF Contiguous
  <2>4. ts + Len(buffer) + (n + i) = ts + Len(Refilled) + i
    BY <1>0, <2>1
  <2>. QED
    BY <1>1, <2>2, <2>3, <2>4
<1>7. nextFrame = ts + Len(Refilled) + Len(live') + 1
  <2>1. nextFrame = ts + Len(buffer) + Len(live) + 1
    BY DEF Contiguous
  <2>. QED
    BY <1>0, <2>1
<1>. QED
  BY <1>2, <1>4, <1>5, <1>6, <1>7

\* Without a decoder a refill finds nothing and leaves nothing.
LEMMA EmptyRefill ==
  ASSUME TypeOK, ~hasDecoder, buffer = <<>>, live = <<>>, Refill
  PROVE  Refilled = <<>> /\ live' = <<>>
<1>1. BatchSize = 0
  BY DEF BatchSize
<1>2. SubSeq(live, 1, 0) = <<>> /\ SubSeq(live, 0 + 1, Len(live)) = <<>>
  OBVIOUS
<1>3. buffer \o SubSeq(live, 1, 0) = <<>>
  BY <1>2
<1>. QED
  BY <1>1, <1>2, <1>3 DEF Refill, Refilled

\* Every step keeps the frames numbered on from the timestamp, while the task runs.
LEMMA NumberedStep == TypeOK /\ Numbered /\ [Next]_vars => Numbered'
<1> SUFFICES ASSUME TypeOK, Numbered, [Next]_vars PROVE Numbered'
  OBVIOUS
<1>0. task \in {"fill", "send", "check", "failing", "done"} => api # "new"
  BY DEF TypeOK, NotStarted
<1>1. ASSUME UNCHANGED <<buffer, live, ts, nextFrame, hasDecoder>>,
             api' = "new" => api = "new", ~Returned' => ~Returned,
             ~hasDecoder => (api' # "new" => api # "new")
      PROVE  Numbered'
  BY <1>1 DEF Numbered, Contiguous
<1>2. CASE Push
  <2>1. /\ live' = Append(live, nextFrame) /\ nextFrame' = nextFrame + 1
        /\ UNCHANGED <<buffer, ts, hasDecoder, api, task>> /\ (hasDecoder \/ api = "new")
    BY <1>2 DEF Push, innerVars, taskVars
  <2>2. live \in Seq(Frames) /\ Len(live) \in Nat /\ Len(buffer) \in Nat /\ ts \in Nat
    BY LenProperties DEF TypeOK, SourceOK, InnerOK
  <2>3. CASE ~Returned
    <3>1. Contiguous
      BY <2>1, <2>3 DEF Numbered
    <3>2. /\ Len(live') = Len(live) + 1 /\ DOMAIN live' = 1 .. Len(live) + 1
          /\ DOMAIN live = 1 .. Len(live)
          /\ \A i \in DOMAIN live : live'[i] = live[i]
          /\ live'[Len(live) + 1] = nextFrame
      BY <2>1, <2>2
    <3>3. \A i \in DOMAIN live' : i \in DOMAIN live \/ i = Len(live) + 1
      BY <2>2, <3>2
    <3>4. nextFrame = ts + Len(buffer) + (Len(live) + 1)
      BY <2>2, <3>1 DEF Contiguous
    <3>5. nextFrame' = ts + Len(buffer) + (Len(live) + 1) + 1
      BY <2>1, <3>4
    <3>6. Contiguous'
      BY <2>1, <3>1, <3>2, <3>3, <3>4, <3>5 DEF Contiguous
    <3>. QED
      BY <2>1, <3>6 DEF Numbered
  <2>4. Returned' <=> Returned
    BY <2>1 DEF Returned
  <2>. QED
    BY <2>1, <2>3, <2>4 DEF Numbered
<1>3. CASE CloseSource \/ UNCHANGED vars \/ Thread
  <2>1. UNCHANGED <<buffer, live, ts, nextFrame, hasDecoder, api, task>>
    BY <1>3 DEF CloseSource, Thread, ThreadReceive, ThreadEmit, ThreadPaused, ThreadDisconnected,
                vars, sourceVars, innerVars, taskVars
  <2>. QED
    BY <1>1, <2>1 DEF Returned
<1>4. CASE StartLive
  <2>1. /\ UNCHANGED <<buffer, live, ts, nextFrame>> /\ hasDecoder' = TRUE
        /\ api = "new" /\ ~Returned
    BY <1>4 DEF StartLive, sourceVars, TypeOK, NotStarted, Returned
  <2>. QED
    BY <2>1 DEF Numbered, Contiguous
<1>5. CASE PauseStream \/ ResetAfterFlush \/ FlushFails \/ ResumeStream \/ StopSignal \/ StopJoined
  <2>1. /\ UNCHANGED <<buffer, live, ts, nextFrame, hasDecoder, task>>
        /\ api # "new" /\ api' # "new"
    BY <1>5 DEF PauseStream, ResetAfterFlush, FlushFails, ResumeStream, StopSignal, StopJoined,
                sourceVars, innerVars, taskVars
  <2>. QED
    BY <1>1, <2>1 DEF Returned
<1>6. CASE StopFinish
  BY <1>6 DEF StopFinish, Numbered
<1>7. CASE TaskCheck \/ TaskError \/ TaskSent \/ TaskSendFails \/ TaskCancelled
  <2>1. /\ UNCHANGED <<buffer, live, ts, nextFrame, hasDecoder, api>>
        /\ ~Returned' => ~Returned
    BY <1>7 DEF TaskCheck, TaskError, TaskSent, TaskSendFails, TaskCancelled, sourceVars,
                innerVars, Returned
  <2>. QED
    BY <1>1, <2>1
<1>8. ASSUME TaskFill, ~hasDecoder PROVE Refilled = <<>> /\ live' = <<>>
  <2>1. buffer = <<>> /\ live = <<>> /\ Refill
    BY <1>0, <1>8 DEF TaskFill, Numbered
  <2>. QED
    BY <1>8, <2>1, EmptyRefill
<1>9. ASSUME TaskFill, hasDecoder
      PROVE  /\ Refilled \in Seq(Frames) /\ live' \in Seq(Frames)
             /\ \A i \in DOMAIN Refilled : Refilled[i] = ts + i
             /\ \A i \in DOMAIN live' : live'[i] = ts + Len(Refilled) + i
             /\ nextFrame = ts + Len(Refilled) + Len(live') + 1
  BY <1>9, RefillNumbers DEF TaskFill, Numbered, Returned
<1>10. CASE TaskWait \/ TaskUnderrun
  <2>1. /\ TaskFill /\ buffer' = Refilled /\ ts' = ts
        /\ UNCHANGED <<nextFrame, hasDecoder, api>>
    BY <1>10 DEF TaskWait, TaskUnderrun, TaskFill
  <2>2. CASE hasDecoder
    BY <1>9, <2>1, <2>2 DEF Numbered, Contiguous
  <2>3. CASE ~hasDecoder
    BY <1>0, <1>8, <2>1, <2>3 DEF Numbered, TaskFill
  <2>. QED
    BY <2>2, <2>3
<1>11. CASE TaskProduce
  <2>1. /\ TaskFill /\ buffer' = Tail(Refilled) /\ ts' = ts + 1 /\ Refilled # <<>>
        /\ UNCHANGED <<nextFrame, hasDecoder, api>>
    BY <1>11 DEF TaskProduce, TaskFill
  <2>2. hasDecoder
    BY <1>8, <2>1
  <2>3. /\ Refilled \in Seq(Frames) /\ Len(Refilled) \in Nat \ {0} /\ live' \in Seq(Frames)
        /\ Len(live') \in Nat /\ ts \in Nat
    BY <1>9, <2>1, <2>2, LenProperties, EmptySeq DEF TypeOK, InnerOK
  <2>4. /\ Len(buffer') = Len(Refilled) - 1 /\ DOMAIN buffer' = 1 .. Len(Refilled) - 1
        /\ \A i \in DOMAIN buffer' : i \in Nat /\ buffer'[i] = Refilled[i + 1] /\ i + 1 \in DOMAIN Refilled
    BY <2>1, <2>3
  <2>5. \A i \in DOMAIN buffer' : buffer'[i] = (ts + 1) + i
    <3> SUFFICES ASSUME NEW i \in DOMAIN buffer' PROVE buffer'[i] = (ts + 1) + i
      OBVIOUS
    <3>1. buffer'[i] = ts + (i + 1) /\ i \in Nat
      BY <1>9, <2>1, <2>2, <2>4
    <3>. QED
      BY <2>3, <3>1
  <2>6. \A i \in DOMAIN live' : live'[i] = (ts + 1) + Len(buffer') + i
    <3> SUFFICES ASSUME NEW i \in 1 .. Len(live') PROVE live'[i] = (ts + 1) + Len(buffer') + i
      BY <2>3
    <3>1. live'[i] = ts + Len(Refilled) + i /\ i \in Nat
      BY <1>9, <2>1, <2>2, <2>3
    <3>2. ts + Len(Refilled) + i = (ts + 1) + (Len(Refilled) - 1) + i
      BY <2>3, <3>1
    <3>. QED
      BY <2>4, <3>1, <3>2
  <2>7. nextFrame = (ts + 1) + Len(buffer') + Len(live') + 1
    <3>1. nextFrame = ts + Len(Refilled) + Len(live') + 1
      BY <1>9, <2>1, <2>2
    <3>2. ts + Len(Refilled) + Len(live') + 1 = (ts + 1) + (Len(Refilled) - 1) + Len(live') + 1
      BY <2>3
    <3>. QED
      BY <2>4, <3>1, <3>2
  <2>8. Contiguous'
    BY <2>1, <2>5, <2>6, <2>7 DEF Contiguous
  <2>. QED
    BY <2>1, <2>2, <2>8 DEF Numbered
<1>12. CASE TaskStopAtEof \/ TaskFail
  <2>1. Returned' /\ UNCHANGED hasDecoder /\ TaskFill
    BY <1>12 DEF TaskStopAtEof, TaskFail, TaskFill, Returned
  <2>2. hasDecoder
    BY <1>8, <1>12, <2>1 DEF TaskStopAtEof, TaskFail, StopAtEof
  <2>. QED
    BY <2>1, <2>2 DEF Numbered
<1>13. CASE TaskDecodeFails
  <2>1. PICK n \in 1 .. BatchSize : live' = SubSeq(live, n + 1, Len(live))
    BY <1>13 DEF TaskDecodeFails
  <2>2. BatchSize # 0
    BY <2>1
  <2>. QED
    BY <1>13, <2>2 DEF TaskDecodeFails, BatchSize, Numbered, Returned
<1>. QED
  BY <1>2, <1>3, <1>4, <1>5, <1>6, <1>7, <1>10, <1>11, <1>12, <1>13 DEF Next, Api, Task

\* A packet made from the oldest frame left: its number, and those of the ones before it.
LEMMA NewPacket ==
  ASSUME TypeOK, Shape, OrderInv, Numbered, TaskProduce
  PROVE  LET packet == [kind |-> "Packet", frame |-> Head(Refilled), sync |-> PreparesSync]
         IN /\ packet.frame = ts + 1 /\ packet.frame \in Frames /\ packet.sync = PreparesSync
            /\ PacketsMade' \subseteq PacketsMade \cup {packet}
            /\ \A q \in PacketsMade : q.frame \in Frames /\ q.frame < ts + 1
<1> DEFINE packet == [kind |-> "Packet", frame |-> Head(Refilled), sync |-> PreparesSync]
<1>1. TaskFill /\ Refilled # <<>> /\ UNCHANGED <<held, chan>> /\ task = "fill"
  BY DEF TaskProduce, TaskFill
<1>2. hasDecoder
  <2>1. ~hasDecoder => buffer = <<>> /\ live = <<>>
    BY <1>1 DEF Numbered, TypeOK, NotStarted
  <2>. QED
    BY <1>1, <2>1, EmptyRefill DEF TaskFill
<1>3. /\ Refilled \in Seq(Frames)
      /\ \A i \in DOMAIN Refilled : Refilled[i] = ts + i
      /\ Layers(FramesIn(wire), FramesIn(held), FramesIn(chan), FramesIn(pending),
                ToSet(Refilled), ToSet(live'), nextFrame)
  <2>1. Contiguous
    BY <1>1, <1>2 DEF Numbered, Returned
  <2>. QED
    BY <1>1, <2>1, RefillNumbers, AfterRefill DEF TaskFill
<1>4. /\ Head(Refilled) = Refilled[1] /\ 1 \in DOMAIN Refilled /\ Head(Refilled) \in Frames
  BY <1>1, <1>3
<1>5. Head(Refilled) = ts + 1
  BY <1>3, <1>4
<1>6. Head(Refilled) \in ToSet(Refilled)
  BY <1>4 DEF ToSet
<1>7. \A q \in PacketsMade : q.frame \in Frames /\ q.frame < ts + 1
  <2> SUFFICES ASSUME NEW q \in PacketsMade PROVE q.frame \in Frames /\ q.frame < ts + 1
    OBVIOUS
  <2>1. q \in Messages /\ IsPacket(q)
    <3>1. \A s \in Seq(Messages) : ToSet(s) \subseteq Messages
      BY DEF ToSet
    <3>. QED
      BY <3>1, PlacesType DEF PacketsMade, Contents
  <2>2. q.frame \in FramesIn(wire) \cup FramesIn(held) \cup FramesIn(chan) \cup FramesIn(pending)
    BY DEF PacketsMade, Contents, ToSet, FramesIn
  <2>. QED
    BY <1>3, <1>5, <1>6, <2>1, <2>2, PacketOrSignal DEF Layers, Below
<1>8. packet \in Messages
  <2>1. PreparesSync \in BOOLEAN
    BY DEF PreparesSync
  <2>. QED
    BY <1>4, <2>1 DEF Messages, Packets
<1>9. /\ IF threaded THEN pending' = <<packet>> /\ wire' = wire
                     ELSE wire' = Append(wire, packet) /\ pending' = pending
  BY DEF TaskProduce
<1>10. packet.frame = ts + 1 /\ packet.frame \in Frames /\ packet.sync = PreparesSync
  BY <1>4, <1>5
<1> HIDE DEF packet
<1>11. Contents' \subseteq Contents \cup {packet}
  <2>1. CASE threaded
    BY <1>1, <1>9, <2>1, ShortContents DEF Contents
  <2>2. CASE ~threaded
    <3>1. ToSet(wire') = ToSet(wire) \cup {packet}
      BY <1>8, <1>9, <2>2, PlacesType, QueueContents
    <3>. QED
      BY <1>1, <1>9, <2>2, <3>1 DEF Contents
  <2>. QED
    BY <2>1, <2>2
<1>12. PacketsMade' \subseteq PacketsMade \cup {packet}
  BY <1>11 DEF PacketsMade
<1>. QED
  BY <1>7, <1>10, <1>12 DEF packet

\* Quotient and remainder of a division are the only ones.
LEMMA OneRemainder ==
  ASSUME NEW m \in Nat \ {0}, NEW q \in Int, NEW r \in 0 .. m - 1
  PROVE  (m * q + r) % m = r
<1> DEFINE n == m * q + r
           d == (n \div m) - q
           s == n % m
<1>1. n \in Int /\ d \in Int /\ s \in 0 .. m - 1 /\ m * d = r - s
  OBVIOUS
<1>2. \A k \in Nat : k >= 1 => m * k >= m
  OBVIOUS
<1>3. d >= 1 => m * d >= m
  BY <1>1, <1>2
<1>4. -d >= 1 => m * (-d) >= m
  BY <1>1, <1>2
<1>5. m * (-d) = s - r
  BY <1>1
<1>6. d = 0
  BY <1>1, <1>3, <1>4, <1>5
<1>7. m * d = 0
  BY <1>6
<1>. QED
  BY <1>1, <1>7

\* The wrapping difference of two numbers that wrapped is their difference, as long as
\* that is less than the space they wrap in.
LEMMA WrappedDifference ==
  ASSUME NEW x \in Nat, NEW y \in Nat, y <= x, x - y < TimestampSpace
  PROVE  WrappingSub(x % TimestampSpace, y % TimestampSpace) = x - y
<1> DEFINE m == TimestampSpace
           p == x \div m
           q == y \div m
<1>1. m \in Nat \ {0}
  BY ConstantsAssumption
<1>2. /\ p \in Int /\ q \in Int /\ x % m \in Int /\ y % m \in Int
      /\ x = m * p + (x % m) /\ y = m * q + (y % m)
  BY <1>1
<1>3. x - y \in 0 .. m - 1
  BY <1>1
<1>4. m * (1 - p + q) = m - m * p + m * q
  BY <1>1, <1>2
<1>5. (x % m) + m - (y % m) = m * (1 - p + q) + (x - y)
  <2> DEFINE mp == m * p
             mq == m * q
             mc == m * (1 - p + q)
  <2>1. mp \in Int /\ mq \in Int /\ mc = m - mp + mq /\ x = mp + (x % m) /\ y = mq + (y % m)
    BY <1>1, <1>2, <1>4
  <2> HIDE DEF mp, mq, mc
  <2>2. (x % m) + m - (y % m) = mc + (x - y)
    BY <1>1, <1>2, <2>1
  <2>. QED
    BY <2>2 DEF mc
<1>6. (m * (1 - p + q) + (x - y)) % m = x - y
  <2>1. 1 - p + q \in Int
    BY <1>2
  <2>. QED
    BY <1>1, <1>3, <2>1, OneRemainder
<1>. QED
  BY <1>5, <1>6 DEF WrappingSub

\* If no sync is due, the packet about to be made is near the last one that had one.
LEMMA SyncIsNear ==
  ASSUME TypeOK, LastSynced, ~NeedSync
  PROVE  \E f \in 1..ts : /\ lastSync = ((f - 1) * PacketSamples) % TimestampSpace
                          /\ Near(f, ts + 1)
                          /\ IsSynced(f)
<1>1. lastSync # 0 /\ ~(WrappingSub(RtpTs, lastSync) >= SampleRate)
  BY DEF NeedSync
<1>2. PICK f \in 1..ts : /\ lastSync = ((f - 1) * PacketSamples) % TimestampSpace
                         /\ Near(f, ts)
                         /\ IsSynced(f)
  BY <1>1 DEF LastSynced
<1> DEFINE x == ts * PacketSamples
           y == (f - 1) * PacketSamples
<1>3. /\ ts \in Nat /\ f \in Nat /\ f >= 1 /\ f <= ts
      /\ PacketSamples \in Nat \ {0} /\ SampleRate \in Nat /\ TimestampSpace \in Nat
      /\ SampleRate + PacketSamples <= TimestampSpace
  BY ConstantsAssumption DEF TypeOK, InnerOK
<1>4. x \in Nat /\ y \in Nat
  <2>1. \A a, b \in Nat : a * b \in Nat
    OBVIOUS
  <2>2. f - 1 \in Nat
    BY <1>3
  <2>. QED
    BY <1>3, <2>1, <2>2
<1>5. ((ts + 1) - f) * PacketSamples = x - y
  BY <1>3
<1>6. (ts - f) * PacketSamples = x - y - PacketSamples
  BY <1>3
<1>7. (ts - f) * PacketSamples \in Nat
  <2>1. \A a, b \in Nat : a * b \in Nat
    OBVIOUS
  <2>2. ts - f \in Nat
    BY <1>3
  <2>. QED
    BY <1>3, <2>1, <2>2
<1>8. (ts - f) * PacketSamples < SampleRate
  BY <1>2 DEF Near
<1> HIDE DEF x, y
<1>9. y <= x /\ x - y < TimestampSpace
  BY <1>3, <1>4, <1>6, <1>7, <1>8
<1>10. WrappingSub(RtpTs, lastSync) = x - y
  <2>1. RtpTs = x % TimestampSpace /\ lastSync = y % TimestampSpace
    BY <1>2 DEF RtpTs, x, y
  <2>. QED
    BY <1>4, <1>9, <2>1, WrappedDifference
<1>11. x - y < SampleRate
  BY <1>1, <1>3, <1>4, <1>10
<1>12. Near(f, ts + 1)
  <2>1. ((ts + 1) - f) * PacketSamples < SampleRate
    BY <1>5, <1>11
  <2>. QED
    BY <2>1 DEF Near
<1>. QED
  BY <1>2, <1>12

\* Every step keeps the sync packets where they are needed.
LEMMA SyncStep == TypeOK /\ Shape /\ OrderInv /\ SyncInv /\ [Next]_vars => LastSynced' /\ Spaced'
<1> SUFFICES ASSUME TypeOK, Shape, OrderInv, SyncInv, [Next]_vars PROVE LastSynced' /\ Spaced'
  OBVIOUS
<1>1. CASE ~TaskProduce
  <2>1. UNCHANGED <<ts, lastSync>>
    BY <1>1 DEF Next, Push, CloseSource, Api, StartLive, PauseStream, ResetAfterFlush, FlushFails,
                ResumeStream, StopSignal, StopJoined, StopFinish, Task, TaskCheck, TaskWait,
                TaskStopAtEof, TaskUnderrun, TaskDecodeFails, TaskFail, TaskError, TaskSent,
                TaskSendFails, TaskCancelled, Thread, ThreadReceive, ThreadEmit, ThreadPaused,
                ThreadDisconnected, innerVars, vars
  <2>2. PacketsMade' \subseteq PacketsMade
    BY <1>1, NothingElseMakes
  <2>3. \A f : IsSynced(f) => IsSynced(f)'
    BY <2>2 DEF IsSynced
  <2>4. LastSynced'
    BY <2>1, <2>3 DEF SyncInv, LastSynced, Near
  <2>5. Spaced'
    BY <2>2, <2>3 DEF SyncInv, Spaced, Near
  <2>. QED
    BY <2>4, <2>5
<1>2. CASE TaskProduce
  <2> DEFINE packet == [kind |-> "Packet", frame |-> Head(Refilled), sync |-> PreparesSync]
  <2>1. /\ packet.frame = ts + 1 /\ packet.frame \in Frames /\ packet.sync = PreparesSync
        /\ PacketsMade' \subseteq PacketsMade \cup {packet}
        /\ \A q \in PacketsMade : q.frame \in Frames /\ q.frame < ts + 1
    BY <1>2, NewPacket DEF SyncInv
  <2> HIDE DEF packet
  <2>2. /\ ts' = ts + 1 /\ lastSync' = (IF NeedSync THEN RtpTs ELSE lastSync)
        /\ ts \in Nat /\ MaxFrames \in Nat /\ SampleRate \in Nat \ {0} /\ PacketSamples \in Nat
    BY <1>2, ConstantsAssumption DEF TaskProduce, TypeOK, InnerOK
  <2>3. \A q \in PacketsMade' : q.frame = ts + 1 => q = packet
    BY <2>1, <2>2 DEF Frames
  <2>4. \A f \in Nat : f < ts + 1 /\ IsSynced(f) => IsSynced(f)'
    <3>1. \A q \in PacketsMade' : q.frame # ts + 1 => q \in PacketsMade
      BY <2>1
    <3>. QED
      BY <2>2, <3>1 DEF IsSynced
  <2>5. ASSUME NeedSync PROVE LastSynced' /\ (SyncPort => packet.sync)
    <3>1. SyncPort => packet.sync
      BY <2>1, <2>5 DEF PreparesSync
    <3> PICK f \in 1..ts' : f = ts + 1
      BY <2>2
    <3>2. IsSynced(f)'
      BY <2>3, <3>1 DEF IsSynced
    <3>3. Near(f, ts')
      <4>1. ts' - f = 0
        BY <2>2
      <4>2. 0 * PacketSamples < SampleRate
        BY <2>2
      <4>. QED
        BY <4>1, <4>2 DEF Near
    <3>4. lastSync' = ((f - 1) * PacketSamples) % TimestampSpace
      <4>1. f - 1 = ts
        BY <2>2
      <4>. QED
        BY <2>2, <2>5, <4>1 DEF RtpTs
    <3>5. LastSynced'
      BY <3>2, <3>3, <3>4 DEF LastSynced, Near
    <3>. QED
      BY <3>1, <3>5
  <2>6. ASSUME ~NeedSync
        PROVE  LastSynced' /\ \E f \in Frames : f < ts + 1 /\ Near(f, ts + 1) /\ IsSynced(f)'
    <3>1. PICK f \in 1..ts : /\ lastSync = ((f - 1) * PacketSamples) % TimestampSpace
                             /\ Near(f, ts + 1)
                             /\ IsSynced(f)
      BY <2>6, SyncIsNear DEF SyncInv
    <3>2. f \in Nat /\ f < ts + 1 /\ f \in 1..ts' /\ f \in Frames
      BY <2>1, <2>2 DEF Frames
    <3>3. IsSynced(f)'
      BY <2>4, <3>1, <3>2
    <3>4. LastSynced'
      BY <2>2, <2>6, <3>1, <3>2, <3>3 DEF LastSynced, Near
    <3>. QED
      BY <3>1, <3>2, <3>3, <3>4
  <2>7. Spaced'
    <3> SUFFICES ASSUME SyncPort, NEW p \in PacketsMade', ~p.sync
                 PROVE  \E f \in Frames : f < p.frame /\ Near(f, p.frame) /\ IsSynced(f)'
      BY DEF Spaced, Near
    <3>1. CASE p = packet
      BY <2>1, <2>5, <2>6, <3>1
    <3>2. CASE p \in PacketsMade
      <4>1. PICK f \in Frames : f < p.frame /\ Near(f, p.frame) /\ IsSynced(f)
        BY <3>2 DEF SyncInv, Spaced
      <4>2. f \in Nat /\ f < ts + 1
        BY <2>1, <2>2, <3>2, <4>1 DEF Frames
      <4>. QED
        BY <2>4, <4>1, <4>2
    <3>. QED
      BY <2>1, <3>1, <3>2
  <2>. QED
    BY <2>5, <2>6, <2>7
<1>. QED
  BY <1>1, <1>2

\* The spacing of what is on its way is the spacing the receiver sees.
LEMMA SyncSuffices == TypeOK /\ Shape /\ OrderInv /\ SyncInv => SyncSpacing
<1> SUFFICES ASSUME TypeOK, Shape, OrderInv, SyncInv PROVE SyncSpacing
  OBVIOUS
<1>1. ToSet(Made) = Contents
  BY MadeOrder DEF Contents
<1>. QED
  BY <1>1 DEF SyncInv, Spaced, SyncSpacing, PacketsMade, Near, IsSynced

\* At first nothing is made, and the source begins with the first frame.
LEMMA SyncInit == Init => SyncInv
<1> SUFFICES ASSUME Init PROVE SyncInv
  OBVIOUS
<1>1. /\ ToSet(<<>>) = {} /\ Len(<<>>) = 0 /\ DOMAIN <<>> = {}
  BY ShortContents
<1>2. Numbered
  BY <1>1 DEF Init, Numbered, Contiguous
<1>3. PacketsMade = {}
  BY <1>1 DEF Init, PacketsMade, Contents
<1>. QED
  BY <1>2, <1>3 DEF Init, SyncInv, LastSynced, Spaced

\* A packet without a sync packet always has one less than SampleRate samples before it,
\* whatever is paused, resumed, flushed, refused or lost in between, and however often the
\* RTP timestamps wrap, for every packet length and sample rate that their space can hold.
THEOREM SyncsStaySpaced == Spec => []SyncSpacing
<1>1. TypeOK /\ Shape /\ OrderInv /\ SyncInv /\ [Next]_vars => SyncInv'
  BY NumberedStep, SyncStep DEF SyncInv
<1>. QED
  BY <1>1, TypeInit, TypeStep, OrderInit, ShapeStep, OrderStep, SyncInit, SyncSuffices,
     PTL DEF Spec

-----------------------------------------------------------------------------
(* Pause and resume. The last of the two signals still in the channel, or else what the  *)
(* thread is doing, decides what the thread will be doing.                               *)

Will(c, paused) ==
  \/ \E i \in DOMAIN c : c[i] = Pause /\ \A j \in DOMAIN c : j > i => c[j] # Resume
  \/ paused /\ \A j \in DOMAIN c : c[j] # Resume

LEMMA SignalsDiffer == Pause # Resume /\ Stop # Pause /\ Stop # Resume
                       /\ \A p \in Packets : p # Pause /\ p # Resume
BY DEF Pause, Resume, Stop, Packets

\* What appending a message changes about that.
LEMMA WillAfterAppend ==
  ASSUME NEW c \in Seq(Messages), NEW m \in Messages, NEW paused \in BOOLEAN
  PROVE  /\ m \notin {Pause, Resume} => (Will(Append(c, m), paused) <=> Will(c, paused))
         /\ m = Pause => Will(Append(c, m), paused)
         /\ m = Resume => ~Will(Append(c, m), paused)
<1> DEFINE d == Append(c, m)
           last == Len(c) + 1
<1>1. /\ Len(c) \in Nat /\ DOMAIN c = 1 .. Len(c) /\ DOMAIN d = 1 .. last
      /\ d[last] = m /\ last \in DOMAIN d
      /\ \A i \in DOMAIN c : d[i] = c[i] /\ i \in DOMAIN d /\ i < last
      /\ \A i \in DOMAIN d : i \in DOMAIN c \/ i = last
      /\ \A i \in DOMAIN d : ~(i > last)
  OBVIOUS
<1> HIDE DEF d, last
<1>2. ASSUME m = Pause PROVE Will(d, paused)
  BY <1>1, <1>2 DEF Will
<1>3. ASSUME m = Resume PROVE ~Will(d, paused)
  <2>1. \A i \in DOMAIN d : d[i] = Pause => last > i
    BY <1>1, <1>3, SignalsDiffer
  <2>. QED
    BY <1>1, <1>3, <2>1 DEF Will
<1>4. ASSUME m \notin {Pause, Resume} PROVE Will(d, paused) <=> Will(c, paused)
  <2>1. \A i \in DOMAIN d : d[i] \in {Pause, Resume} => i \in DOMAIN c /\ c[i] = d[i]
    BY <1>1, <1>4
  <2>2. \A i \in DOMAIN c : i \in DOMAIN d /\ d[i] = c[i]
    BY <1>1
  <2>. QED
    BY <2>1, <2>2 DEF Will
<1>. QED
  BY <1>2, <1>3, <1>4 DEF d

\* What reading the first message changes about that: nothing, if the thread obeys it.
LEMMA WillAfterTail ==
  ASSUME NEW c \in Seq(Messages), c # <<>>, NEW paused \in BOOLEAN
  PROVE  /\ Head(c) = Pause => (Will(Tail(c), TRUE) <=> Will(c, paused))
         /\ Head(c) = Resume => (Will(Tail(c), FALSE) <=> Will(c, paused))
         /\ Head(c) \notin {Pause, Resume} => (Will(Tail(c), paused) <=> Will(c, paused))
<1> DEFINE d == Tail(c)
<1>1. /\ Len(c) \in Nat \ {0} /\ DOMAIN c = 1 .. Len(c) /\ DOMAIN d = 1 .. Len(c) - 1
      /\ Head(c) = c[1] /\ 1 \in DOMAIN c
  OBVIOUS
<1>2. /\ \A i \in DOMAIN d : i + 1 \in DOMAIN c /\ c[i + 1] = d[i] /\ i + 1 > 1
      /\ \A i \in DOMAIN c : i = 1 \/ (i - 1 \in DOMAIN d /\ d[i - 1] = c[i])
      /\ \A i, j \in DOMAIN d : (i > j) <=> (i + 1 > j + 1)
      /\ \A i, j \in DOMAIN c : i # 1 /\ j # 1 => ((i > j) <=> (i - 1 > j - 1))
      /\ \A i \in DOMAIN c : ~(1 > i)
  BY <1>1
<1> HIDE DEF d
<1> DEFINE Quiet(s) == \A j \in DOMAIN s : s[j] # Resume
           Ends(s)  == \E i \in DOMAIN s : s[i] = Pause /\ \A j \in DOMAIN s : j > i => s[j] # Resume
<1>3. Quiet(c) <=> (Quiet(d) /\ Head(c) # Resume)
  <2>1. Quiet(c) => Quiet(d) /\ Head(c) # Resume
    BY <1>1, <1>2
  <2>2. Quiet(d) /\ Head(c) # Resume => Quiet(c)
    BY <1>1, <1>2
  <2>. QED
    BY <2>1, <2>2
<1>4. Ends(d) => Ends(c)
  <2> SUFFICES ASSUME NEW i \in DOMAIN d, d[i] = Pause, \A j \in DOMAIN d : j > i => d[j] # Resume
               PROVE  Ends(c)
    OBVIOUS
  <2>1. i + 1 \in DOMAIN c /\ c[i + 1] = Pause
    BY <1>2
  <2>2. ASSUME NEW j \in DOMAIN c, j > i + 1 PROVE c[j] # Resume
    <3>1. i \in Nat /\ j \in Nat /\ j # 1 /\ j - 1 > i
      BY <1>1, <2>2
    <3>. QED
      BY <1>2, <2>2, <3>1
  <2>. QED
    BY <2>1, <2>2
<1>5. Ends(c) => Ends(d) \/ (Head(c) = Pause /\ Quiet(d))
  <2> SUFFICES ASSUME NEW i \in DOMAIN c, c[i] = Pause, \A j \in DOMAIN c : j > i => c[j] # Resume
               PROVE  Ends(d) \/ (Head(c) = Pause /\ Quiet(d))
    OBVIOUS
  <2>1. CASE i = 1
    BY <1>1, <1>2, <2>1
  <2>2. CASE i # 1
    <3>1. i - 1 \in DOMAIN d /\ d[i - 1] = Pause
      BY <1>2, <2>2
    <3>2. ASSUME NEW j \in DOMAIN d, j > i - 1 PROVE d[j] # Resume
      <4>1. j + 1 > i /\ j + 1 \in DOMAIN c /\ c[j + 1] = d[j]
        BY <1>1, <1>2, <3>2
      <4>. QED
        BY <4>1
    <3>. QED
      BY <3>1, <3>2
  <2>. QED
    BY <2>1, <2>2
<1>6. Head(c) = Pause /\ Quiet(d) => Ends(c)
  <2> SUFFICES ASSUME Head(c) = Pause, Quiet(d) PROVE Ends(c)
    OBVIOUS
  <2>1. \A j \in DOMAIN c : j > 1 => c[j] # Resume
    BY <1>2
  <2>. QED
    BY <1>1, <2>1
<1>7. \A s, b : Will(s, b) <=> Ends(s) \/ (b /\ Quiet(s))
  BY DEF Will
<1> HIDE DEF Ends, Quiet
<1>8. Will(d, TRUE) <=> Ends(d) \/ Quiet(d)
  BY <1>7
<1>9. Will(d, FALSE) <=> Ends(d)
  BY <1>7
<1>. QED
  BY <1>3, <1>4, <1>5, <1>6, <1>7, <1>8, <1>9, SignalsDiffer DEF d

WiringInv ==
  /\ threaded <=> thread # "none"
  /\ threaded /\ api \in {"idle", "flush"} => txOpen

\* The sender thread is there from start_live on, and the streamer's end of its channel
\* until stop.
LEMMA WiringStep == TypeOK /\ Shape /\ WiringInv /\ [Next]_vars => WiringInv'
<1> SUFFICES ASSUME TypeOK, Shape, WiringInv, [Next]_vars PROVE WiringInv'
  OBVIOUS
<1>1. CASE Push \/ CloseSource \/ UNCHANGED vars
  BY <1>1 DEF WiringInv, Push, CloseSource, threadVars, vars
<1>2. CASE StartLive
  BY <1>2 DEF StartLive, WiringInv
<1>3. CASE PauseStream \/ ResetAfterFlush \/ FlushFails \/ ResumeStream \/ StopSignal
             \/ StopJoined \/ StopFinish
  BY <1>3 DEF WiringInv, PauseStream, ResetAfterFlush, FlushFails, ResumeStream, StopSignal,
              StopJoined, StopFinish, threadVars
<1>4. CASE Task
  BY <1>4 DEF WiringInv, Task, TaskCheck, TaskFill, TaskWait, TaskStopAtEof, TaskProduce,
              TaskUnderrun, TaskDecodeFails, TaskFail, TaskError, TaskSent, TaskSendFails, TaskCancelled,
              threadVars
<1>5. CASE Thread
  BY <1>5 DEF WiringInv, Thread, ThreadReceive, ThreadEmit, ThreadPaused, ThreadDisconnected,
              ThreadExits
<1>. QED
  BY <1>1, <1>2, <1>3, <1>4, <1>5 DEF Next, Api

Muted == Will(chan, thread = "paused")

Compared == threaded /\ desync = {} /\ thread # "exited" /\ state \in Streams

\* What a message accepted or refused leaves of the agreement.
LEMMA SendKeepsWill ==
  ASSUME TypeOK, NEW m \in Messages, m \notin {Pause, Resume}, thread' = thread,
         chan' = chan \/ chan' = Append(chan, m)
  PROVE  Muted' <=> Muted
<1>1. chan \in Seq(Messages) /\ (thread = "paused") \in BOOLEAN
  BY DEF TypeOK, CallOK
<1>2. Will(Append(chan, m), thread = "paused") <=> Will(chan, thread = "paused")
  BY <1>1, WillAfterAppend
<1>3. Muted' <=> Will(chan', thread' = "paused")
  BY DEF Muted, Will
<1>. QED
  BY <1>2, <1>3 DEF Muted

\* The thread obeys the signals in the order they were sent.
LEMMA ThreadKeepsWill ==
  ASSUME TypeOK, Thread, thread' # "exited"
  PROVE  thread # "exited" /\ (Muted' <=> Muted)
<1>1. chan \in Seq(Messages) /\ (thread = "paused") \in BOOLEAN
  BY DEF TypeOK, CallOK
<1>2. Muted' <=> Will(chan', thread' = "paused")
  BY DEF Muted, Will
<1>3. CASE ThreadEmit
  BY <1>2, <1>3 DEF ThreadEmit, Muted
<1>4. CASE ThreadReceive
  <2>1. chan # <<>> /\ Head(chan) \in Messages /\ chan' = Tail(chan) /\ thread = "recv"
    BY <1>1, <1>4 DEF ThreadReceive, ThreadExits
  <2>2. \/ Head(chan) \notin {Pause, Resume} /\ thread' = "emit"
        \/ Head(chan) = Pause /\ thread' = "paused"
        \/ Head(chan) = Resume /\ thread' = "recv"
    BY <1>4, <2>1 DEF ThreadReceive, ThreadExits, Messages, Packets, Pause, Resume, Stop
  <2>. QED
    BY <1>1, <1>2, <2>1, <2>2, WillAfterTail DEF Muted
<1>5. CASE ThreadPaused
  <2>1. chan # <<>> /\ chan' = Tail(chan) /\ thread = "paused"
    BY <1>5 DEF ThreadPaused, ThreadExits
  <2>2. \/ Head(chan) = Resume /\ thread' = "recv"
        \/ Head(chan) # Resume /\ thread' = "paused"
    BY <1>5, <2>1 DEF ThreadPaused, ThreadExits
  <2>. QED
    BY <1>1, <1>2, <2>1, <2>2, WillAfterTail DEF Muted
<1>6. CASE ThreadDisconnected
  BY <1>6 DEF ThreadDisconnected, ThreadExits
<1>. QED
  BY <1>3, <1>4, <1>5, <1>6 DEF Thread

\* Thread and state keep agreeing, as long as nothing is recorded that excuses them.
LEMMA SignalsStep ==
  TypeOK /\ Shape /\ QuietInv /\ LifeInv /\ WiringInv /\ SignalsAgree /\ [Next]_vars => SignalsAgree'
<1> SUFFICES ASSUME TypeOK, Shape, QuietInv, LifeInv, WiringInv, SignalsAgree, [Next]_vars,
                    Compared'
             PROVE  Muted' <=> state' = "Paused"
  BY DEF SignalsAgree, WillBePaused, Muted, Will, Compared, Streams
<1>1. Compared => (Muted <=> state = "Paused")
  BY DEF SignalsAgree, WillBePaused, Muted, Will, Compared, Streams
<1>2. chan \in Seq(Messages) /\ (thread = "paused") \in BOOLEAN /\ desync \subseteq {"refused", "underrun"}
      /\ Stop \in Messages /\ Pause \in Messages /\ Resume \in Messages
  BY SignalsAreMessages DEF TypeOK, CallOK
<1>3. ASSUME UNCHANGED <<state, threaded, thread, desync>>,
             chan' = chan \/ TrySend(Stop)
      PROVE  Muted' <=> state' = "Paused"
  <2>1. Muted' <=> Muted
    BY <1>2, <1>3, SendKeepsWill, SignalsDiffer DEF TrySend
  <2>. QED
    BY <1>1, <1>3, <2>1 DEF Compared
<1>4. CASE Push \/ CloseSource \/ UNCHANGED vars
  BY <1>3, <1>4 DEF Push, CloseSource, innerVars, threadVars, vars
<1>5. CASE StartLive
  <2>1. chan' = <<>> /\ thread' # "paused" /\ state' = "Buffering"
    BY <1>5 DEF StartLive, Shape
  <2>2. Muted' <=> Will(<<>>, FALSE)
    BY <2>1 DEF Muted, Will
  <2>. QED
    BY <2>1, <2>2 DEF Will
<1>6. CASE PauseStream /\ state = "Streaming"
  <2>1. Signal(Pause) /\ state' = "Paused" /\ UNCHANGED <<threaded, thread>> /\ txOpen
    BY <1>6 DEF PauseStream, threadVars, Compared, WiringInv
  <2>2. chan' = Append(chan, Pause)
    BY <2>1 DEF Signal, TrySend, Compared
  <2>3. Will(chan', thread = "paused")
    BY <1>2, <2>2, WillAfterAppend
  <2>. QED
    BY <2>1, <2>3 DEF Muted, Will
<1>7. CASE ResumeStream
  <2>1. Signal(Resume) /\ state' = "Streaming" /\ UNCHANGED <<threaded, thread>> /\ txOpen
    BY <1>7 DEF ResumeStream, threadVars, Compared, WiringInv
  <2>2. chan' = Append(chan, Resume)
    BY <2>1 DEF Signal, TrySend, Compared
  <2>3. ~Will(chan', thread = "paused")
    BY <1>2, <2>2, WillAfterAppend
  <2>. QED
    BY <2>1, <2>3 DEF Muted, Will
<1>8. CASE (PauseStream /\ state # "Streaming") \/ ResetAfterFlush \/ FlushFails \/ StopSignal
             \/ StopJoined
  BY <1>3, <1>8 DEF PauseStream, ResetAfterFlush, FlushFails, StopSignal, StopJoined,
                    innerVars, threadVars
<1>9. CASE StopFinish
  BY <1>9 DEF StopFinish, Compared, Streams
<1>10. CASE Thread
  <2>1. UNCHANGED <<state, threaded, desync>>
    BY <1>10 DEF Thread, ThreadReceive, ThreadEmit, ThreadPaused, ThreadDisconnected, innerVars
  <2>. QED
    BY <1>1, <1>10, <2>1, ThreadKeepsWill DEF Compared
<1>11. CASE Task
  <2>1. /\ UNCHANGED <<threaded, thread, api>> /\ task \in AtWork
        /\ desync' = {} => desync = {}
    BY <1>11, <1>2 DEF Task, TaskCheck, TaskFill, TaskWait, TaskStopAtEof, TaskProduce,
                 TaskUnderrun, TaskDecodeFails, TaskFail, TaskError, TaskSent, TaskSendFails, TaskCancelled,
                 threadVars, AtWork
  <2>2. api \notin Over
    BY <2>1 DEF QuietInv, WiringInv, Compared, Over
  <2>3. Compared
    BY <2>1, <2>2 DEF Compared, LifeInv
  <2>4. CASE TaskCheck \/ TaskWait \/ TaskSendFails \/ TaskCancelled
    BY <1>3, <2>4 DEF TaskCheck, TaskWait, TaskFill, TaskSendFails, TaskCancelled, innerVars, threadVars
  <2>5. CASE TaskStopAtEof
    BY <2>5 DEF TaskStopAtEof, Compared, Streams
  <2>6. CASE TaskProduce \/ TaskFail \/ TaskDecodeFails
    <3>1. chan' = chan /\ (state' = "Paused" <=> state = "Paused")
      BY <2>6 DEF TaskProduce, TaskFail, TaskDecodeFails, ReadyState, Compared, Streams
    <3>2. Muted' <=> Muted
      BY <2>1, <3>1 DEF Muted
    <3>. QED
      BY <1>1, <2>3, <3>1, <3>2
  <2>7. CASE TaskUnderrun
    <3>1. chan' = chan /\ state' # "Paused" /\ state # "Paused"
      BY <1>2, <2>7 DEF TaskUnderrun, Compared
    <3>2. Muted' <=> Muted
      BY <2>1, <3>1 DEF Muted
    <3>. QED
      BY <1>1, <2>3, <3>1, <3>2
  <2>8. CASE TaskSent
    <3>1. chan' = Append(chan, Head(pending)) /\ state' = state /\ pending # <<>>
      BY <2>8 DEF TaskSent, innerVars, TypeOK, TaskOK
    <3>2. Head(pending) \in Packets
      BY <3>1, HeadTailProperties DEF TypeOK, TaskOK
    <3>3. Head(pending) \in Messages /\ Head(pending) \notin {Pause, Resume}
      BY <3>2, SignalsDiffer DEF Messages
    <3>4. Muted' <=> Muted
      BY <2>1, <3>1, <3>3, SendKeepsWill
    <3>. QED
      BY <1>1, <2>3, <3>1, <3>4
  <2>9. CASE TaskError
    <3>1. chan' = chan /\ state' = state
      BY <1>2, <2>9 DEF TaskError, Compared, Streams
    <3>2. Muted' <=> Muted
      BY <2>1, <3>1 DEF Muted
    <3>. QED
      BY <1>1, <2>3, <3>1, <3>2
  <2>. QED
    BY <1>11, <2>4, <2>5, <2>6, <2>7, <2>8, <2>9 DEF Task
<1>. QED
  BY <1>4, <1>5, <1>6, <1>7, <1>8, <1>9, <1>10, <1>11 DEF Next, Api

\* Thread and state disagree on a pause only after a refused signal or an underrun that
\* overwrote Paused, for every capacity of the channel and however long it is.
THEOREM PauseIsAgreed == Spec => []SignalsAgree
<1>1. Init => WiringInv /\ SignalsAgree /\ LifeInv /\ QuietInv
  BY DEF Init, WiringInv, SignalsAgree, LifeInv, QuietInv, AtWork
<1>. QED
  BY <1>1, TypeInit, TypeStep, OrderInit, ShapeStep, QuietStep, LifeStep, WiringStep,
     SignalsStep, PTL DEF Spec

-----------------------------------------------------------------------------
(* The whole path is one Playout. Only ThreadEmit, and a task without a thread, play; the *)
(* order of the places makes what they play the first of what waits. Every other step     *)
(* moves frames from one place to another, or loses them where Playout may.               *)

\* Which frames a queue holds after its head is taken off, or a message appended.
LEMMA FramesInQueue ==
  ASSUME NEW s \in Seq(Messages)
  PROVE  /\ s # <<>> => FramesIn(s) = FramesIn(Tail(s)) \cup FramesIn(<<Head(s)>>)
         /\ \A m \in Messages : FramesIn(Append(s, m)) = FramesIn(s) \cup FramesIn(<<m>>)
<1>0. ASSUME NEW m PROVE FramesIn(<<m>>) = IF IsPacket(m) THEN {m.frame} ELSE {}
  BY DEF FramesIn
<1>1. ASSUME NEW q PROVE FramesIn(q) = {p.frame : p \in {r \in ToSet(q) : IsPacket(r)}}
  BY DEF FramesIn, ToSet
<1>2. ASSUME s # <<>> PROVE FramesIn(s) = FramesIn(Tail(s)) \cup FramesIn(<<Head(s)>>)
  <2>1. ToSet(s) = ToSet(Tail(s)) \cup {Head(s)}
    BY <1>2, QueueContents
  <2>2. ToSet(<<Head(s)>>) = {Head(s)}
    BY ShortContents
  <2>. QED
    BY <1>1, <2>1, <2>2
<1>3. ASSUME NEW m \in Messages PROVE FramesIn(Append(s, m)) = FramesIn(s) \cup FramesIn(<<m>>)
  <2>1. ToSet(Append(s, m)) = ToSet(s) \cup {m}
    BY QueueContents
  <2>2. ToSet(<<m>>) = {m}
    BY ShortContents
  <2>. QED
    BY <1>1, <2>1, <2>2
<1>. QED
  BY <1>2, <1>3

\* A queue of none and of one.
LEMMA FramesInShort ==
  FramesIn(<<>>) = {} /\ \A m : FramesIn(<<m>>) = IF IsPacket(m) THEN {m.frame} ELSE {}
BY DEF FramesIn

\* A signal sent changes no frame.
LEMMA SignalFrames ==
  ASSUME TypeOK, NEW m \in {Pause, Resume, Stop}, TrySend(m)
  PROVE  FramesIn(chan') = FramesIn(chan)
<1>1. m \in Messages /\ ~IsPacket(m) /\ chan \in Seq(Messages)
  BY SignalsAreMessages, PlacesType DEF IsPacket, Pause, Resume, Stop
<1>2. FramesIn(Append(chan, m)) = FramesIn(chan)
  <2>1. FramesIn(<<m>>) = {}
    BY <1>1, FramesInShort
  <2>2. FramesIn(Append(chan, m)) = FramesIn(chan) \cup FramesIn(<<m>>)
    BY <1>1, FramesInQueue
  <2>. QED
    BY <2>1, <2>2
<1>. QED
  BY <1>2 DEF TrySend

\* The frames of a queue cut in two, with or without the one at the cut, and put together.
LEMMA CutContents ==
  ASSUME NEW s \in Seq(Frames), NEW t \in Seq(Frames), NEW k \in 0 .. Len(s)
  PROVE  /\ ToSet(t \o SubSeq(s, 1, k)) \cup ToSet(SubSeq(s, k + 1, Len(s))) = ToSet(t) \cup ToSet(s)
<1> DEFINE a == SubSeq(s, 1, k)
           b == SubSeq(s, k + 1, Len(s))
           u == t \o a
<1>1. /\ Len(s) \in Nat /\ Len(t) \in Nat /\ k \in Nat /\ k <= Len(s)
      /\ DOMAIN s = 1 .. Len(s) /\ DOMAIN t = 1 .. Len(t)
  OBVIOUS
<1>2. /\ a \in Seq(Frames) /\ Len(a) = k /\ \A i \in 1 .. k : a[i] = s[i]
  BY <1>1
<1>3. /\ DOMAIN b = 1 .. Len(s) - k /\ \A i \in 1 .. Len(s) - k : b[i] = s[k + i]
  BY <1>1
<1> HIDE DEF a, b
<1>4. /\ DOMAIN u = 1 .. Len(t) + k
      /\ \A i \in 1 .. Len(t) : u[i] = t[i]
      /\ \A i \in Len(t) + 1 .. Len(t) + k : u[i] = a[i - Len(t)]
  BY <1>1, <1>2
<1> HIDE DEF u
<1>5. ToSet(u) = ToSet(t) \cup {s[i] : i \in 1 .. k}
  <2>1. \A i \in DOMAIN u : u[i] \in ToSet(t) \cup {s[j] : j \in 1 .. k}
    <3>1. \A i \in DOMAIN u : i \in 1 .. Len(t) \/ (i \in Len(t) + 1 .. Len(t) + k /\ i - Len(t) \in 1 .. k)
      BY <1>1, <1>4
    <3>. QED
      BY <1>1, <1>2, <1>4, <3>1 DEF ToSet
  <2>2. \A i \in DOMAIN t : t[i] \in ToSet(u)
    <3>1. \A i \in DOMAIN t : i \in DOMAIN u /\ u[i] = t[i]
      BY <1>1, <1>4
    <3>. QED
      BY <3>1 DEF ToSet
  <2>3. \A i \in 1 .. k : s[i] \in ToSet(u)
    <3>1. \A i \in 1 .. k : Len(t) + i \in DOMAIN u /\ u[Len(t) + i] = s[i]
      <4>1. ASSUME NEW i \in 1 .. k
            PROVE  Len(t) + i \in DOMAIN u /\ u[Len(t) + i] = s[i]
        <5>1. Len(t) + i \in Len(t) + 1 .. Len(t) + k /\ (Len(t) + i) - Len(t) = i /\ Len(t) + i \in DOMAIN u
          BY <1>1, <1>4
        <5>2. u[Len(t) + i] = a[(Len(t) + i) - Len(t)]
          BY <1>4, <5>1
        <5>. QED
          BY <1>2, <5>1, <5>2
      <4>. QED
        BY <4>1
    <3>. QED
      BY <3>1 DEF ToSet
  <2>. QED
    BY <2>1, <2>2, <2>3 DEF ToSet
<1>6. ToSet(b) = {s[i] : i \in k + 1 .. Len(s)}
  <2>1. \A i \in DOMAIN b : k + i \in k + 1 .. Len(s)
    BY <1>1, <1>3
  <2>2. \A i \in k + 1 .. Len(s) : i - k \in DOMAIN b /\ k + (i - k) = i
    BY <1>1, <1>3
  <2>3. \A i \in k + 1 .. Len(s) : b[i - k] = s[i]
    BY <1>3, <2>2
  <2>. QED
    BY <1>3, <2>1, <2>2, <2>3 DEF ToSet
<1>7. ToSet(s) = {s[i] : i \in 1 .. k} \cup {s[i] : i \in k + 1 .. Len(s)}
  <2>1. \A i \in DOMAIN s : i \in 1 .. k \/ i \in k + 1 .. Len(s)
    BY <1>1
  <2>2. \A i \in (1 .. k) \cup (k + 1 .. Len(s)) : i \in DOMAIN s
    BY <1>1
  <2>. QED
    BY <2>1, <2>2 DEF ToSet
<1>. QED
  BY <1>5, <1>6, <1>7 DEF u, a, b

\* A refill moves frames and loses none.
LEMMA RefillContents ==
  ASSUME TypeOK, Refill
  PROVE  ToSet(Refilled) \cup ToSet(live') = ToSet(buffer) \cup ToSet(live)
<1>1. BatchSize \in 0 .. Len(live) /\ live \in Seq(Frames) /\ buffer \in Seq(Frames)
  BY BatchBounds DEF TypeOK, SourceOK, InnerOK
<1>. QED
  BY <1>1, CutContents DEF Refill, Refilled

\* Head and rest.
LEMMA HeadContents ==
  ASSUME NEW s \in Seq(Frames), s # <<>>
  PROVE  ToSet(s) = {Head(s)} \cup ToSet(Tail(s)) /\ Head(s) \in Frames /\ Tail(s) \in Seq(Frames)
<1>1. /\ Len(s) \in Nat /\ Len(s) > 0 /\ DOMAIN s = 1 .. Len(s) /\ 1 \in DOMAIN s /\ Head(s) = s[1]
      /\ DOMAIN Tail(s) = 1 .. Len(s) - 1
      /\ \A i \in DOMAIN Tail(s) : Tail(s)[i] = s[i + 1] /\ i + 1 \in DOMAIN s
      /\ \A i \in DOMAIN s : i = 1 \/ (i - 1 \in DOMAIN Tail(s) /\ Tail(s)[i - 1] = s[i])
  OBVIOUS
<1>2. Head(s) \in Frames /\ Tail(s) \in Seq(Frames)
  OBVIOUS
<1>. QED
  BY <1>1, <1>2 DEF ToSet

\* A task that returned stays so: as a value, Returned is unchanged or becomes TRUE.
LEMMA ReturnedGrows ==
  ASSUME Returned => Returned'
  PROVE  Returned' \in {Returned, TRUE}
<1>1. Returned \in BOOLEAN /\ Returned' \in BOOLEAN
  BY SMT DEF Returned
<1>2. \A p, q \in BOOLEAN : (p => q) => q \in {p, TRUE}
  OBVIOUS
<1>. QED
  BY Zenon, <1>1, <1>2

\* A step that keeps what waits, or loses some of it where it may be lost, is a Switch.
LEMMA Switches ==
  ASSUME Waiting' \subseteq Waiting, UNCHANGED <<wire, nextFrame>>,
         Returned => Returned', api \in Over => api' \in Over,
         Waiting' = Waiting \/ Output' # "on" \/ (~Returned /\ Returned')
  PROVE  Abstract!Switch
<1>1. Output' \in IF Output = "stopped" THEN {"stopped"} ELSE {"on", "muted", "stopped"}
  BY DEF Output, Over
<1>2. Returned' \in {Returned, TRUE}
  BY ReturnedGrows
<1>3. Waiting' # Waiting => Output' # "on" \/ (Returned' /\ ~Returned)
  OBVIOUS
<1>. QED
  BY <1>1, <1>2, <1>3 DEF Abstract!Switch

\* Nothing starts the task again, and nothing undoes a stop.
LEMMA EndsStay ==
  ASSUME TypeOK, Next
  PROVE  (Returned => Returned') /\ (api \in Over => api' \in Over)
<1>1. CASE Push \/ CloseSource \/ Thread
  BY <1>1 DEF Push, CloseSource, Thread, ThreadReceive, ThreadEmit, ThreadPaused,
              ThreadDisconnected, taskVars, Returned
<1>2. CASE Api
  BY <1>2 DEF Api, StartLive, PauseStream, ResetAfterFlush, FlushFails, ResumeStream, StopSignal,
              StopJoined, StopFinish, taskVars, TypeOK, NotStarted, Over, Returned
<1>3. CASE Task
  <2>1. (Returned => Returned') /\ api' = api
    BY <1>3 DEF Task, TaskCheck, TaskFill, TaskWait, TaskStopAtEof, TaskProduce, TaskUnderrun,
                TaskDecodeFails, TaskFail, TaskError, TaskSent, TaskSendFails, TaskCancelled,
                Returned
  <2>. QED
    BY <2>1
<1>. QED
  BY <1>1, <1>2, <1>3 DEF Next

\* The source.
LEMMA SourcePlays ==
  ASSUME TypeOK, Push \/ CloseSource
  PROVE  Abstract!Next \/ UNCHANGED Abstract!playoutVars
<1>1. CASE CloseSource
  <2>1. UNCHANGED <<wire, nextFrame, task, api, thread, held, chan, pending, buffer, live>>
    BY <1>1 DEF CloseSource, innerVars, taskVars, threadVars
  <2>. QED
    BY <2>1 DEF Abstract!playoutVars, Waiting, Output, Returned
<1>2. CASE Push
  <2>1. UNCHANGED <<wire, task, api, thread, held, chan, pending, buffer>>
    BY <1>2 DEF Push, innerVars, taskVars, threadVars
  <2>2. /\ live' = Append(live, nextFrame) /\ nextFrame' = nextFrame + 1 /\ live \in Seq(Frames)
        /\ nextFrame \in Nat /\ nextFrame > 0 /\ nextFrame <= MaxFrames /\ MaxFrames \in Nat
    BY <1>2, ConstantsAssumption DEF Push, TypeOK, SourceOK
  <2>3. ToSet(live') = ToSet(live) \cup {nextFrame}
    <3>1. /\ Len(live) \in Nat /\ DOMAIN live = 1 .. Len(live) /\ DOMAIN live' = 1 .. Len(live) + 1
          /\ live'[Len(live) + 1] = nextFrame /\ \A i \in DOMAIN live : live'[i] = live[i]
      BY <2>2
    <3>2. Len(live) + 1 \in DOMAIN live' /\ \A i \in DOMAIN live : i \in DOMAIN live'
      BY <3>1
    <3>3. \A i \in DOMAIN live' : i \in DOMAIN live \/ i = Len(live) + 1
      BY <3>1
    <3>. QED
      BY <3>1, <3>2, <3>3 DEF ToSet
  <2>4. Waiting' = Waiting \cup {nextFrame' - 1}
    BY <2>1, <2>2, <2>3 DEF Waiting
  <2>5. nextFrame - 1 < MaxFrames /\ nextFrame' - 1 = (nextFrame - 1) + 1
    BY <2>2
  <2>6. Output' = Output /\ FramesOf(wire)' = FramesOf(wire) /\ Returned' = Returned
    BY <2>1 DEF Output, Returned
  <2>. QED
    BY <2>4, <2>5, <2>6 DEF Abstract!Next, Abstract!Accept
<1>. QED
  BY <1>1, <1>2

\* The calls of the API: only stop loses frames.
LEMMA ApiPlays ==
  ASSUME TypeOK, Api
  PROVE  Abstract!Switch
<1>1. /\ UNCHANGED <<wire, nextFrame, held, pending>>
      /\ Returned => Returned'
      /\ api \in Over => api' \in Over
  <2>1. UNCHANGED <<wire, nextFrame, held, pending>>
    BY DEF Api, StartLive, PauseStream, ResetAfterFlush, FlushFails, ResumeStream, StopSignal,
           StopJoined, StopFinish, sourceVars, taskVars, threadVars
  <2>. QED
    BY <2>1, EndsStay DEF Next
<1>2. FramesIn(chan') = FramesIn(chan)
  <2>1. chan' = chan \/ \E m \in {Pause, Resume, Stop} : TrySend(m)
    BY DEF Api, StartLive, PauseStream, ResetAfterFlush, FlushFails, ResumeStream, StopSignal,
           StopJoined, StopFinish, Signal
  <2>. QED
    BY <2>1, SignalFrames
<1>3. CASE ~StopFinish
  <2>1. UNCHANGED <<buffer, live>>
    BY <1>3 DEF Api, StartLive, PauseStream, ResetAfterFlush, FlushFails, ResumeStream, StopSignal,
                StopJoined, sourceVars, innerVars
  <2>2. Waiting' = Waiting
    BY <1>1, <1>2, <2>1 DEF Waiting
  <2>. QED
    BY <1>1, <2>2, Switches
<1>4. CASE StopFinish
  <2>1. buffer' = <<>> /\ live' = <<>> /\ api' = "stopFlush"
    BY <1>4 DEF StopFinish
  <2>2. Output' # "on"
    BY <2>1 DEF Output
  <2>3. Waiting' \subseteq Waiting
    BY <1>1, <1>2, <2>1, ShortContents DEF Waiting
  <2>. QED
    BY <1>1, <2>2, <2>3, Switches
<1>. QED
  BY <1>3, <1>4

\* What is played is the first of what waits, and is put behind all that was.
LEMMA PlaysFirst ==
  ASSUME Output = "on", Output' = Output, nextFrame' = nextFrame, Returned => Returned',
         NEW f, f \in Waiting, \A g \in Waiting : f <= g, Waiting' = Waiting \ {f},
         FramesOf(wire)' = Append(FramesOf(wire), f)
  PROVE  Abstract!Play
<1>1. Returned' \in {Returned, TRUE}
  BY ReturnedGrows
<1>. QED
  BY <1>1 DEF Abstract!Play

LEMMA FramesOfAppend ==
  ASSUME NEW s \in Seq(Packets), NEW p \in Packets
  PROVE  FramesOf(Append(s, p)) = Append(FramesOf(s), p.frame)
<1> DEFINE t == Append(s, p)
           u == Append(FramesOf(s), p.frame)
<1>1. /\ Len(s) \in Nat /\ DOMAIN s = 1 .. Len(s) /\ DOMAIN t = 1 .. Len(s) + 1
      /\ \A i \in 1 .. Len(s) : t[i] = s[i]
      /\ t[Len(s) + 1] = p
  OBVIOUS
<1>2. /\ FramesOf(s) \in Seq(Frames) /\ Len(FramesOf(s)) = Len(s) /\ p.frame \in Frames
      /\ \A i \in 1 .. Len(s) : FramesOf(s)[i] = s[i].frame
  <2>1. \A i \in 1 .. Len(s) : s[i] \in Packets
    BY <1>1
  <2>2. \A q \in Packets : q.frame \in Frames
    BY DEF Packets
  <2>. QED
    BY <1>1, <2>1, <2>2 DEF FramesOf
<1> HIDE DEF t
<1>3. u \in Seq(Frames) /\ Len(u) = Len(s) + 1
  BY <1>1, <1>2
<1>4. /\ u[Len(s) + 1] = p.frame
      /\ \A i \in 1 .. Len(s) : u[i] = s[i].frame
  BY <1>1, <1>2
<1> HIDE DEF u
<1>5. u = [i \in 1 .. Len(s) + 1 |-> u[i]]
  BY <1>3
<1>6. \A i \in 1 .. Len(s) + 1 : u[i] = t[i].frame
  <2>1. \A i \in 1 .. Len(s) + 1 : i \in 1 .. Len(s) \/ i = Len(s) + 1
    BY <1>1
  <2>. QED
    BY <1>1, <1>4, <2>1
<1>7. FramesOf(t) = [i \in 1 .. Len(s) + 1 |-> t[i].frame]
  BY <1>1 DEF FramesOf
<1>8. FramesOf(t) = u
  BY <1>5, <1>6, <1>7
<1>. QED
  BY <1>8 DEF t, u

\* The frame at the front of all places is the first of what waits, and is in no other.
LEMMA FrontIsFirst ==
  ASSUME NEW A \in SUBSET Nat, NEW f \in Nat, Below({f}, A)
  PROVE  (\A g \in {f} \cup A : f <= g) /\ ({f} \cup A) \ {f} = A
BY DEF Below

\* What waits are numbers.
LEMMA WaitingNumbers ==
  ASSUME TypeOK
  PROVE  /\ FramesIn(held) \subseteq Nat /\ FramesIn(chan) \subseteq Nat
         /\ FramesIn(pending) \subseteq Nat /\ ToSet(buffer) \subseteq Nat /\ ToSet(live) \subseteq Nat
<1>1. Frames \subseteq Nat
  BY ConstantsAssumption DEF Frames
<1>2. ToSet(buffer) \subseteq Nat /\ ToSet(live) \subseteq Nat
  <2>1. \A s \in Seq(Frames) : \A i \in DOMAIN s : s[i] \in Frames
    BY ElementOfSeq, LenProperties
  <2>2. buffer \in Seq(Frames) /\ live \in Seq(Frames)
    BY DEF TypeOK, SourceOK, InnerOK
  <2>. QED
    BY <1>1, <2>1, <2>2 DEF ToSet
<1>3. \A s \in Seq(Messages) : FramesIn(s) \subseteq Nat
  <2>1. \A s \in Seq(Messages) : \A i \in DOMAIN s : s[i] \in Messages
    BY ElementOfSeq, LenProperties
  <2>2. \A m \in Messages : IsPacket(m) => m.frame \in Nat
    BY <1>1, PacketOrSignal
  <2>. QED
    BY <2>1, <2>2 DEF FramesIn
<1>. QED
  BY <1>2, <1>3, PlacesType

\* The thread plays what it holds, takes the next, or throws away while it is paused.
LEMMA ThreadPlays ==
  ASSUME TypeOK, Shape, OrderInv, QuietInv, Thread
  PROVE  Abstract!Next
<1>1. /\ UNCHANGED <<pending, buffer, live, nextFrame, task, api>>
  BY DEF Thread, ThreadReceive, ThreadEmit, ThreadPaused, ThreadDisconnected,
         sourceVars, innerVars, taskVars
<1>2. chan \in Seq(Messages) /\ FramesIn(<<>>) = {}
  BY PlacesType, FramesInShort
<1>3. chan # <<>> => /\ FramesIn(chan) = FramesIn(Tail(chan)) \cup FramesIn(<<Head(chan)>>)
                     /\ Head(chan) \in Messages
  BY <1>2, FramesInQueue
<1>0. Returned' = Returned
  BY <1>1 DEF Returned
<1>4. ASSUME wire' = wire, Waiting' \subseteq Waiting, Waiting' = Waiting \/ Output' # "on"
      PROVE  Abstract!Next
  BY <1>0, <1>1, <1>4, Switches DEF Abstract!Next
<1>5. CASE ThreadReceive
  <2>1. chan # <<>> /\ wire' = wire /\ thread = "recv"
    BY <1>5 DEF ThreadReceive
  <2>2. CASE IsPacket(Head(chan))
    <3>1. held' = <<Head(chan)>> /\ chan' = Tail(chan)
      BY <1>5, <2>2 DEF ThreadReceive, IsPacket
    <3>2. FramesIn(held) = {}
      BY <1>2, <2>1 DEF Shape
    <3>3. Waiting' = Waiting
      BY <1>1, <1>3, <2>1, <3>1, <3>2 DEF Waiting
    <3>. QED
      BY <1>4, <2>1, <3>3
  <2>3. CASE ~IsPacket(Head(chan))
    <3>1. /\ held' = held
          /\ chan' = Tail(chan) \/ (chan' = <<>> /\ thread' = "exited")
      BY <1>5, <2>3 DEF ThreadReceive, ThreadExits, IsPacket
    <3>2. FramesIn(chan) = FramesIn(Tail(chan))
      BY <1>3, <2>1, <2>3, FramesInShort
    <3>3. CASE chan' = Tail(chan)
      <4>1. Waiting' = Waiting
        BY <1>1, <3>1, <3>2, <3>3 DEF Waiting
      <4>. QED
        BY <1>4, <2>1, <4>1
    <3>4. CASE chan' = <<>> /\ thread' = "exited"
      <4>1. Waiting' \subseteq Waiting
        BY <1>1, <1>2, <3>1, <3>4 DEF Waiting
      <4>2. Output' # "on"
        BY <3>4 DEF Output
      <4>. QED
        BY <1>4, <2>1, <4>1, <4>2
    <3>. QED
      BY <3>1, <3>3, <3>4
  <2>. QED
    BY <2>2, <2>3
<1>6. CASE ThreadPaused
  <2>1. chan # <<>> /\ wire' = wire /\ held' = held
    BY <1>6 DEF ThreadPaused
  <2>2. CASE Head(chan) = Resume /\ chan' = Tail(chan)
    <3>1. FramesIn(chan') = FramesIn(chan)
      BY <1>3, <2>1, <2>2, FramesInShort DEF IsPacket, Resume
    <3>2. Waiting' = Waiting
      BY <1>1, <2>1, <3>1 DEF Waiting
    <3>. QED
      BY <1>4, <2>1, <3>2
  <2>3. CASE thread' \in {"paused", "exited"} /\ (chan' = Tail(chan) \/ chan' = <<>>)
    <3>1. FramesIn(chan') \subseteq FramesIn(chan)
      BY <1>2, <1>3, <2>1, <2>3
    <3>2. Waiting' \subseteq Waiting
      BY <1>1, <2>1, <3>1 DEF Waiting
    <3>3. Output' # "on"
      BY <2>3 DEF Output
    <3>. QED
      BY <1>4, <2>1, <3>2, <3>3
  <2>. QED
    BY <1>6, <2>2, <2>3 DEF ThreadPaused, ThreadExits
<1>7. CASE ThreadDisconnected
  <2>1. chan = <<>> /\ chan' = <<>> /\ wire' = wire /\ held' = held
    BY <1>7 DEF ThreadDisconnected, ThreadExits
  <2>2. Waiting' = Waiting
    BY <1>1, <2>1 DEF Waiting
  <2>. QED
    BY <1>4, <2>1, <2>2
<1>8. CASE ThreadEmit
  <2>1. /\ thread = "emit" /\ thread' = "recv" /\ held' = <<>> /\ wire' = wire \o held /\ chan' = chan
    BY <1>8 DEF ThreadEmit
  <2> DEFINE p == held[1]
             A == FramesIn(chan) \cup FramesIn(pending) \cup ToSet(buffer) \cup ToSet(live)
  <2>2. p \in Packets /\ held = <<p>> /\ wire' = Append(wire, p)
    BY <2>1, HeldIsOne
  <2>3. FramesIn(held) = {p.frame} /\ p.frame \in Nat
    <3>1. IsPacket(p) /\ p.frame \in Frames /\ Frames \subseteq Nat
      BY <2>2, ConstantsAssumption DEF IsPacket, Packets, Frames
    <3> HIDE DEF p
    <3>. QED
      BY <2>2, <3>1, FramesInShort
  <2>4. Waiting = {p.frame} \cup A /\ Waiting' = A
    BY <1>1, <1>2, <2>1, <2>3 DEF Waiting
  <2>5. A \in SUBSET Nat /\ Below({p.frame}, A)
    BY <2>3, WaitingNumbers DEF OrderInv, Layers, Below
  <2>6. FramesOf(wire') = Append(FramesOf(wire), p.frame)
    BY <2>2, FramesOfAppend DEF TypeOK, ThreadOK
  <2>7. Output = "on" /\ Output' = "on"
    BY <1>1, <2>1 DEF Output, QuietInv
  <2> HIDE DEF p, A
  <2>8. /\ p.frame \in Waiting /\ \A g \in Waiting : p.frame <= g
        /\ Waiting' = Waiting \ {p.frame}
    BY <2>3, <2>4, <2>5, FrontIsFirst
  <2>9. Abstract!Play
    BY <1>0, <1>1, <2>6, <2>7, <2>8, PlaysFirst
  <2>. QED
    BY <2>9 DEF Abstract!Next
<1>. QED
  BY <1>5, <1>6, <1>7, <1>8 DEF Thread

\* The task moves frames towards the channel, loses them only when it ends, and without a
\* thread plays them itself.
LEMMA TaskPlays ==
  ASSUME TypeOK, Shape, OrderInv, QuietInv, Task
  PROVE  Abstract!Next
<1>1. /\ UNCHANGED <<nextFrame, api, thread, held>>
      /\ Returned => Returned'
      /\ ~TaskError => ~Returned
  BY DEF Task, TaskCheck, TaskFill, TaskWait, TaskStopAtEof, TaskProduce, TaskUnderrun,
         TaskDecodeFails, TaskFail, TaskError, TaskSent, TaskSendFails, TaskCancelled,
         sourceVars, threadVars, Returned
<1>2. ASSUME wire' = wire, Waiting' \subseteq Waiting,
             Waiting' = Waiting \/ (~Returned /\ Returned')
      PROVE  Abstract!Next
  BY <1>1, <1>2, Switches DEF Abstract!Next
<1>3. FramesIn(<<>>) = {} /\ ToSet(<<>>) = {}
  BY FramesInShort, ShortContents
<1>4. CASE TaskCheck
  <2>1. UNCHANGED <<wire, pending, buffer, live>> /\ (chan' = chan \/ TrySend(Stop))
    BY <1>4 DEF TaskCheck, sourceVars, innerVars, threadVars
  <2>2. FramesIn(chan') = FramesIn(chan)
    BY <2>1, SignalFrames
  <2>3. Waiting' = Waiting
    BY <1>1, <2>1, <2>2 DEF Waiting
  <2>. QED
    BY <1>2, <2>1, <2>3
<1>5. CASE TaskWait \/ TaskStopAtEof \/ TaskUnderrun
  <2>1. /\ UNCHANGED <<wire, pending>> /\ (chan' = chan \/ TrySend(Stop))
        /\ Refill /\ buffer' = Refilled
    BY <1>5 DEF TaskWait, TaskStopAtEof, TaskUnderrun, TaskFill
  <2>2. FramesIn(chan') = FramesIn(chan)
    BY <2>1, SignalFrames
  <2>3. ToSet(buffer') \cup ToSet(live') = ToSet(buffer) \cup ToSet(live)
    BY <2>1, RefillContents
  <2>4. Waiting' = Waiting
    BY <1>1, <2>1, <2>2, <2>3 DEF Waiting
  <2>. QED
    BY <1>2, <2>1, <2>4
<1>6. CASE TaskFail
  <2>1. /\ UNCHANGED <<wire, pending, chan>> /\ ~Returned /\ Returned'
        /\ Refill /\ Refilled # <<>> /\ buffer' = Tail(Refilled)
    BY <1>6 DEF TaskFail, TaskFill, Returned
  <2>2. ToSet(buffer') \subseteq ToSet(Refilled)
    BY <2>1, AfterRefill, HeadContents
  <2>3. ToSet(Refilled) \cup ToSet(live') = ToSet(buffer) \cup ToSet(live)
    BY <2>1, RefillContents
  <2>4. Waiting' \subseteq Waiting
    BY <1>1, <2>1, <2>2, <2>3 DEF Waiting
  <2>. QED
    BY <1>2, <2>1, <2>4
<1>7. CASE TaskDecodeFails
  <2>1. PICK n \in 1 .. BatchSize : /\ live' = SubSeq(live, n + 1, Len(live))
                                    /\ buffer' = buffer \o SubSeq(live, 1, n - 1)
    BY <1>7 DEF TaskDecodeFails
  <2>2. /\ UNCHANGED <<wire, pending, chan>> /\ ~Returned /\ Returned'
    BY <1>7 DEF TaskDecodeFails, threadVars, Returned
  <2>3. /\ n - 1 \in 0 .. Len(live) /\ n \in 0 .. Len(live) /\ n \in n - 1 .. Len(live)
        /\ live \in Seq(Frames) /\ buffer \in Seq(Frames)
    BY BatchBounds, LenProperties DEF TypeOK, SourceOK, InnerOK
  <2>4. ToSet(buffer') \subseteq ToSet(buffer) \cup ToSet(live)
    BY <2>1, <2>3, CutContents
  <2>5. ToSet(live') \subseteq ToSet(live)
    BY <2>1, <2>3, CutRises DEF OrderInv
  <2>6. Waiting' \subseteq Waiting
    BY <1>1, <2>2, <2>4, <2>5 DEF Waiting
  <2>. QED
    BY <1>2, <2>2, <2>6
<1>8. CASE TaskSent
  <2>1. /\ UNCHANGED <<wire, buffer, live>> /\ pending # <<>> /\ Len(pending) <= 1
        /\ chan' = Append(chan, Head(pending)) /\ pending' = <<>>
    BY <1>8 DEF TaskSent, sourceVars, innerVars, threadVars, TypeOK, TaskOK, Shape
  <2>2. /\ FramesIn(pending) = FramesIn(Tail(pending)) \cup FramesIn(<<Head(pending)>>)
        /\ Head(pending) \in Messages
    BY <2>1, PlacesType, FramesInQueue
  <2>3. FramesIn(chan') = FramesIn(chan) \cup FramesIn(<<Head(pending)>>)
    BY <2>1, <2>2, PlacesType, FramesInQueue
  <2>4. Tail(pending) = <<>>
    <3>1. pending \in Seq(Messages) /\ Len(pending) \in Nat /\ Len(pending) # 0
      BY <2>1, PlacesType, EmptySeq, LenProperties
    <3>2. Len(pending) = 1
      <4>1. \A n \in Nat : n # 0 /\ n <= 1 => n = 1
        OBVIOUS
      <4>. QED
        BY <2>1, <3>1, <4>1, Zenon
    <3>3. Tail(pending) \in Seq(Messages) /\ Len(Tail(pending)) = 0
      BY <3>1, <3>2
    <3>. QED
      BY <3>3, EmptySeq
  <2>5. Waiting' = Waiting
    BY <1>1, <1>3, <2>1, <2>2, <2>3, <2>4 DEF Waiting
  <2>. QED
    BY <1>2, <2>1, <2>5
<1>9. CASE TaskSendFails \/ TaskCancelled
  <2>1. /\ UNCHANGED <<wire, chan, buffer, live>> /\ pending' = <<>>
        /\ ~Returned /\ Returned'
    BY <1>9 DEF TaskSendFails, TaskCancelled, sourceVars, innerVars, threadVars, Returned
  <2>2. Waiting' \subseteq Waiting
    BY <1>1, <1>3, <2>1 DEF Waiting
  <2>. QED
    BY <1>2, <2>1, <2>2
<1>10. CASE TaskProduce
  <2> DEFINE f      == Head(Refilled)
             packet == [kind |-> "Packet", frame |-> f, sync |-> PreparesSync]
             A      == ToSet(buffer') \cup ToSet(live')
  <2>1. /\ Refill /\ Refilled # <<>> /\ buffer' = Tail(Refilled) /\ chan' = chan /\ pending = <<>>
        /\ IF threaded THEN pending' = <<packet>> /\ wire' = wire
                       ELSE wire' = Append(wire, packet) /\ pending' = pending
    BY <1>10 DEF TaskProduce, TaskFill, TypeOK, TaskOK
  <2>2. Refilled \in Seq(Frames) /\ f \in Frames /\ ToSet(Refilled) = {f} \cup ToSet(buffer')
    BY <2>1, AfterRefill, HeadContents
  <2>3. ToSet(buffer) \cup ToSet(live) = {f} \cup A
    <3>1. ToSet(Refilled) \cup ToSet(live') = ToSet(buffer) \cup ToSet(live)
      BY <2>1, RefillContents
    <3>. QED
      BY <2>2, <3>1
  <2>4. packet \in Packets /\ IsPacket(packet) /\ packet.frame = f
    <3>1. PreparesSync \in BOOLEAN
      BY DEF PreparesSync
    <3>. QED
      BY <2>2, <3>1 DEF Packets, IsPacket
  <2> HIDE DEF packet
  <2>5. CASE threaded
    <3>1. FramesIn(pending') = {f} /\ FramesIn(pending) = {} /\ wire' = wire
      BY <1>3, <2>1, <2>4, <2>5, FramesInShort
    <3>2. Waiting' = Waiting
      BY <1>1, <2>1, <2>3, <3>1 DEF Waiting
    <3>. QED
      BY <1>2, <3>1, <3>2
  <2>6. CASE ~threaded
    <3>1. /\ held = <<>> /\ chan = <<>> /\ pending' = <<>> /\ thread = "none"
          /\ wire' = Append(wire, packet)
      BY <2>1, <2>6 DEF Shape
    <3>2. Waiting = {f} \cup A /\ Waiting' = A
      BY <1>1, <1>3, <2>1, <2>3, <3>1 DEF Waiting
    <3>3. f \in Nat /\ A \in SUBSET Nat /\ Below({f}, A)
      <4>1. f \in Nat
        BY <2>2, ConstantsAssumption DEF Frames
      <4>2. A \in SUBSET Nat
        BY <2>3, WaitingNumbers
      <4>3. Below({f}, ToSet(buffer'))
        BY <2>1, AfterRefill, TailRises
      <4>4. Below({f}, ToSet(live'))
        BY <2>1, <2>2, AfterRefill DEF Layers, Below
      <4>. QED
        BY <4>1, <4>2, <4>3, <4>4 DEF Below
    <3>4. FramesOf(wire') = Append(FramesOf(wire), f)
      BY <2>4, <3>1, FramesOfAppend DEF TypeOK, ThreadOK
    <3>5. Output = "on" /\ Output' = "on"
      <4>1. api \notin {"stopFlush", "stopped"}
        BY <2>1, NothingToRefill DEF QuietInv
      <4>. QED
        BY <1>1, <3>1, <4>1 DEF Output
    <3> HIDE DEF f, A
    <3>6. f \in Waiting /\ (\A g \in Waiting : f <= g) /\ Waiting' = Waiting \ {f}
      BY <3>2, <3>3, FrontIsFirst
    <3>7. Abstract!Play
      BY <1>1, <3>4, <3>5, <3>6, PlaysFirst
    <3>. QED
      BY <3>7 DEF Abstract!Next
  <2>. QED
    BY <2>5, <2>6
<1>11. CASE TaskError
  <2>1. UNCHANGED <<wire, chan, buffer, live, pending>>
    BY <1>11 DEF TaskError, sourceVars, threadVars
  <2>2. Waiting' = Waiting
    BY <1>1, <2>1 DEF Waiting
  <2>. QED
    BY <1>2, <2>1, <2>2
<1>. QED
  BY <1>4, <1>5, <1>6, <1>7, <1>8, <1>9, <1>10, <1>11 DEF Task

\* Every step of the path is one of Playout, or none.
LEMMA PlayStep ==
  TypeOK /\ Shape /\ OrderInv /\ QuietInv /\ [Next]_vars => [Abstract!Next]_(Abstract!playoutVars)
<1> SUFFICES ASSUME TypeOK, Shape, OrderInv, QuietInv, [Next]_vars
             PROVE  Abstract!Next \/ UNCHANGED Abstract!playoutVars
  OBVIOUS
<1>1. CASE UNCHANGED vars
  <2>1. UNCHANGED <<wire, nextFrame, task, api, thread, held, chan, pending, buffer, live>>
    BY <1>1 DEF vars, sourceVars, innerVars, taskVars, threadVars
  <2>. QED
    BY <2>1 DEF Abstract!playoutVars, Waiting, Output, Returned
<1>2. CASE Push \/ CloseSource
  BY <1>2, SourcePlays
<1>3. CASE Api
  BY <1>3, ApiPlays DEF Abstract!Next
<1>4. CASE Task
  BY <1>4, TaskPlays
<1>5. CASE Thread
  BY <1>5, ThreadPlays
<1>. QED
  BY <1>1, <1>2, <1>3, <1>4, <1>5 DEF Next

LEMMA PlayInit == Init => Abstract!Init
<1> SUFFICES ASSUME Init PROVE Abstract!Init
  OBVIOUS
<1>1. Waiting = {}
  BY FramesInShort, ShortContents DEF Init, Waiting
<1>2. FramesOf(wire) = <<>>
  BY DEF Init, FramesOf
<1>3. nextFrame - 1 = 0 /\ Output = "on" /\ Returned = FALSE
  BY DEF Init, Output, Returned
<1>. QED
  BY <1>1, <1>2, <1>3 DEF Abstract!Init

\* The whole path, whatever its capacities, is one queue that plays in order, and loses
\* frames only to a paused or finished thread, to a task that ends, or to stop.
THEOREM ImplementsPlay == Spec => ImplementsPlayout
<1>1. Init => QuietInv
  BY DEF Init, QuietInv
<1>. QED
  BY <1>1, TypeInit, TypeStep, OrderInit, ShapeStep, OrderStep, QuietStep, PlayInit, PlayStep, PTL
     DEF Spec, ImplementsPlayout, Abstract!Spec
=============================================================================
