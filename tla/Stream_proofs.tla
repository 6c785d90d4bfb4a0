---------------------------- MODULE Stream_proofs ----------------------------
(***************************************************************************)
(* Proofs about the two ends of a stream: GroupWire, who of a group hears  *)
(* what, for every number of receivers, every size of ring and channel,    *)
(* and every set of sockets that could be cloned; and LiveDecoder, how the *)
(* samples of the application become packets, for every packet size, mix   *)
(* of frame sizes and capacity of the channel.                             *)
(*                                                                         *)
(* One fact carries both theorems about GroupWire: packets leave the task, *)
(* the channel and the thread in the order in which they were prepared     *)
(* (InLine), so what was emitted or thrown away is everything up to some   *)
(* number. The rest is about two constants of a stream, who is which       *)
(* target, and about the packet `base', the first that was prepared since  *)
(* a flush.                                                                *)
(*                                                                         *)
(* LiveDecoder needs of FlattenSeq, a recursive function over the frames,  *)
(* how it grows at the back and shrinks at the front. That is by induction *)
(* on the least counterexample.                                            *)
(***************************************************************************)
EXTENDS GroupWire, LiveDecoder, FiniteSetTheorems, FunctionTheorems, SequenceTheorems,
        WellFoundedInduction, TLAPS

-----------------------------------------------------------------------------
(* The group: types. *)

Packets  == [kind : {"Packet"}, number : Nat, marker : BOOLEAN, restart : BOOLEAN]
Messages == {Pause, Resume} \cup Packets

\* Every variable has its type; the task holds a packet exactly while it sends it, the
\* thread exactly while it emits it.
TypeOK ==
  /\ targets \in Seq(Receivers) /\ listening \subseteq Receivers /\ syncing \in BOOLEAN
  /\ state \in {"Buffering", "Streaming", "Paused"}
  /\ firstSent \in BOOLEAN /\ flagSent \in BOOLEAN
  /\ task \in {"check", "fill", "send"}
  /\ pending \in Seq(Packets) /\ Len(pending) = IF task = "send" THEN 1 ELSE 0
  /\ prepared \in Nat
  /\ chan \in Seq(Messages)
  /\ thread \in {"recv", "emit", "paused"}
  /\ held \in Seq(Packets) /\ Len(held) = IF thread = "emit" THEN 1 ELSE 0
  /\ api \in {"idle", "flush"} /\ base \in Nat
  /\ emitted \subseteq Packets /\ thrown \subseteq Nat

\* What a message is.
LEMMA Kinds ==
  /\ Pause # Resume
  /\ \A m \in Messages :
       /\ m.kind = "Packet" <=> m \in Packets
       /\ m \in Packets => m # Pause /\ m # Resume
  /\ \A p \in Packets : p.number \in Nat
  <1>1. Pause.kind = "Pause" /\ Resume.kind = "Resume"
    BY DEF Pause, Resume
  <1>2. \A p \in Packets : p.kind = "Packet" /\ p.number \in Nat
    BY DEF Packets
  <1> QED
    BY <1>1, <1>2 DEF Messages

\* A sequence without its head.
LEMMA Rest ==
  ASSUME NEW S, NEW s \in Seq(S), s # <<>>
  PROVE  /\ Tail(s) \in Seq(S)
         /\ Len(s) \in Nat /\ Len(s) > 0
         /\ Len(Tail(s)) = Len(s) - 1
         /\ \A i \in 1 .. Len(s) - 1 : Tail(s)[i] = s[i + 1]
         /\ Head(s) = s[1] /\ Head(s) \in S
  OBVIOUS

\* What is in a sequence.
LEMMA Elements ==
  ASSUME NEW S, NEW s \in Seq(S)
  PROVE  DOMAIN s = 1 .. Len(s) /\ Len(s) \in Nat /\ \A i \in DOMAIN s : s[i] \in S
  OBVIOUS

-----------------------------------------------------------------------------
(* Targets. *)

\* Among finitely many receivers there is one with any number of others before it.
LEMMA Ranks ==
  ASSUME NEW S \in SUBSET Receivers
  PROVE  /\ IsFiniteSet(S) /\ Cardinality(S) \in Nat
         /\ \A i \in 1 .. Cardinality(S) : \E r \in S : Cardinality({q \in S : q < r}) = i - 1
  <1> DEFINE n == Cardinality(S)
             Before(r) == {q \in S : q < r}
             Rank == [r \in S |-> Cardinality(Before(r))]
  <1>1. Members \in Nat /\ S \subseteq Nat
    BY GroupAssumption DEF Receivers
  <1>2. IsFiniteSet(S) /\ n \in Nat
    <2>1. IsFiniteSet(0 .. Members)
      BY <1>1, FS_Interval
    <2> QED
      BY <2>1, FS_Subset, FS_CardinalityType DEF Receivers
  <1>3. ASSUME NEW r \in S
        PROVE  IsFiniteSet(Before(r)) /\ Cardinality(Before(r)) \in 0 .. n - 1
    <2>1. Before(r) \subseteq S \ {r}
      BY <1>1
    <2>2. IsFiniteSet(S \ {r}) /\ Cardinality(S \ {r}) = n - 1
      BY <1>2, FS_RemoveElement
    <2>3. IsFiniteSet(Before(r)) /\ Cardinality(Before(r)) <= n - 1
      BY <2>1, <2>2, FS_Subset
    <2>4. Cardinality(Before(r)) \in Nat
      BY <2>3, FS_CardinalityType
    <2> HIDE DEF Before, n
    <2> QED
      BY <1>2, <2>3, <2>4
  <1>4. ASSUME NEW r \in S, NEW s \in S, r < s
        PROVE  Cardinality(Before(r)) < Cardinality(Before(s))
    <2>1. r \notin Before(r) /\ Before(r) \cup {r} \subseteq Before(s)
      <3>1. r \in Nat /\ s \in Nat /\ \A q \in S : q \in Nat
        BY <1>1
      <3>2. ~(r < r) /\ \A q \in S : q < r => q < s
        BY <1>4, <3>1
      <3> QED
        BY <1>4, <3>2
    <2>2. IsFiniteSet(Before(r) \cup {r}) /\ Cardinality(Before(r) \cup {r}) = Cardinality(Before(r)) + 1
      BY <1>3, <2>1, FS_AddElement
    <2>3. Cardinality(Before(r) \cup {r}) <= Cardinality(Before(s))
      BY <1>3, <2>1, FS_Subset
    <2>4. Cardinality(Before(r)) \in Nat /\ Cardinality(Before(s)) \in Nat
      BY <1>3, FS_CardinalityType
    <2> HIDE DEF Before
    <2> QED
      BY <2>2, <2>3, <2>4
  <1>5. Rank \in Injection(S, 0 .. n - 1)
    <2>1. Rank \in [S -> 0 .. n - 1]
      BY <1>3
    <2>2. ASSUME NEW r \in S, NEW s \in S, Rank[r] = Rank[s]
          PROVE  r = s
      <3> HIDE DEF Before
      <3>1. Cardinality(Before(r)) = Cardinality(Before(s)) /\ Cardinality(Before(r)) \in Nat
        BY <1>2, <1>3, <2>2
      <3>2. ~(r < s) /\ ~(s < r)
        BY <1>4, <3>1
      <3> QED
        BY <1>1, <3>2
    <2> HIDE DEF Rank
    <2> QED
      BY <2>1, <2>2 DEF Injection, IsInjective
  <1>6. /\ IsFiniteSet(0 .. n - 1) /\ Cardinality(0 .. n - 1) = n
    BY <1>2, FS_Interval
  <1>7. Rank \in Surjection(S, 0 .. n - 1)
    <2> HIDE DEF Rank, n
    <2>1. Cardinality(S) = Cardinality(0 .. n - 1)
      BY <1>6 DEF n
    <2> QED
      BY <1>5, <1>6, <2>1, FS_Injection
  <1>8. ASSUME NEW i \in 1 .. n
        PROVE  \E r \in S : Cardinality(Before(r)) = i - 1
    <2>1. i - 1 \in 0 .. n - 1
      BY <1>2
    <2>2. PICK r \in S : Rank[r] = i - 1
      BY <1>7, <2>1 DEF Surjection
    <2> QED
      BY <2>2
  <1> QED
    BY <1>2, <1>8

\* The packets are given to the targets in order: a target that gets another receiver's
\* packet has a receiver before it that is no target.
TargetsOK ==
  \A i \in DOMAIN targets :
    WirePacket(i) = targets[i] \/ \E q \in Receivers \ Targets : q < targets[i]

\* That is so of the targets of a stream that starts.
LEMMA TargetsInit == Init => targets \in Seq(Receivers) /\ TargetsOK
  <1> SUFFICES ASSUME Init PROVE targets \in Seq(Receivers) /\ TargetsOK
    OBVIOUS
  <1>1. PICK S \in SUBSET Receivers \ {{}} :
          targets = [i \in 1 .. Cardinality(S) |->
                       CHOOSE r \in S : Cardinality({q \in S : q < r}) = i - 1]
    BY DEF Init
  <1> DEFINE Rank(r) == Cardinality({q \in S : q < r})
             n == Cardinality(S)
  <1>2. n \in Nat /\ DOMAIN targets = 1 .. n
    BY <1>1, Ranks
  <1>r. \A i \in 1 .. n : \E r \in S : Rank(r) = i - 1
    BY Ranks
  <1>3. ASSUME NEW i \in 1 .. n
        PROVE  targets[i] \in S /\ Rank(targets[i]) = i - 1
    <2>1. targets[i] = CHOOSE r \in S : Rank(r) = i - 1
      BY <1>1, <1>3
    <2>2. \E r \in S : Rank(r) = i - 1
      BY <1>3, <1>r
    <2> HIDE DEF Rank
    <2> QED
      BY <2>1, <2>2
  <1>4. targets \in Seq(Receivers)
    <2>1. targets \in [1 .. n -> Receivers]
      BY <1>1, <1>2, <1>3
    <2> QED
      BY <1>2, <2>1
  <1>5. Targets \subseteq S
    BY <1>2, <1>3 DEF Targets
  <1>6. ASSUME NEW i \in 1 .. n, ~\E q \in Receivers \ Targets : q < targets[i]
        PROVE  WirePacket(i) = targets[i]
    <2>0. targets[i] \in S /\ Rank(targets[i]) = i - 1
      BY <1>3, <1>6
    <2> DEFINE r == targets[i]
    <2> HIDE DEF r
    <2>1. /\ r \in S /\ r \in Nat /\ r <= Members /\ Members \in Nat
          /\ \A q \in S : q \in Nat
      <3>1. S \subseteq 0 .. Members /\ Members \in Nat
        BY GroupAssumption DEF Receivers
      <3>2. r \in S
        BY <2>0 DEF r
      <3> QED
        BY <3>1, <3>2
    <2>2. \A q \in 0 .. r - 1 : q \in S
      BY <1>5, <1>6, <2>1 DEF Receivers, r
    <2>3. {q \in S : q < r} = 0 .. r - 1
      <3>1. \A q \in S : q < r <=> q \in 0 .. r - 1
        BY <2>1
      <3> QED
        BY <2>2, <3>1
    <2>4. Cardinality(0 .. r - 1) = r
      <3>1. 0 \in Int /\ r - 1 \in Int /\ (0 > r - 1 => r = 0) /\ (r - 1) - 0 + 1 = r
        BY <2>1
      <3> QED
        BY <3>1, FS_Interval
    <2>5. r = i - 1
      BY <2>0, <2>3, <2>4 DEF r
    <2> QED
      BY <2>5 DEF WirePacket, r
  <1> QED
    BY <1>2, <1>4, <1>6 DEF TargetsOK
-----------------------------------------------------------------------------
(* Types, continued. *)

\* A stream that starts has its types.
LEMMA TypeInit == Init => TypeOK
  <1> SUFFICES ASSUME Init PROVE TypeOK
    OBVIOUS
  <1>1. targets \in Seq(Receivers)
    BY TargetsInit
  <1>2. Len(pending) = 0 /\ Len(held) = 0
    BY DEF Init
  <1>3. pending \in Seq(Packets) /\ held \in Seq(Packets) /\ chan \in Seq(Messages)
    BY DEF Init
  <1> QED
    BY <1>1, <1>2, <1>3 DEF Init, TypeOK

\* What a signal leaves of the channel, accepted or refused.
LEMMA TrySendType ==
  ASSUME TypeOK, NEW m \in Messages, TrySend(m)
  PROVE  chan' \in Seq(Messages)
  BY DEF TrySend, TypeOK

\* What the task prepares: the next packet, marked if it is the first since a reset, and
\* then with a sync packet that tells the receivers to start over.
LEMMA PrepareIs ==
  ASSUME TypeOK, TaskPrepare
  PROVE  /\ task = "fill" /\ task' = "send"
         /\ \E p \in Packets :
              /\ pending' = <<p>> /\ p.number = prepared /\ p.marker = ~firstSent
              /\ ~firstSent /\ ~flagSent /\ syncing => p.restart
         /\ flagSent' \in BOOLEAN /\ firstSent' = TRUE /\ prepared' = prepared + 1
         /\ state' = IF state = "Buffering" THEN "Streaming" ELSE state
         /\ unmarked' = IF state = "Paused" /\ ~firstSent THEN unmarked \cup {"in flight"}
                                                         ELSE unmarked
         /\ UNCHANGED <<setupVars, chan, threadVars, apiVars, heard>>
  <1>1. PICK far \in BOOLEAN :
          LET sync == (~firstSent \/ far) /\ syncing IN
          /\ pending' = <<[kind |-> "Packet", number |-> prepared,
                           marker |-> ~firstSent, restart |-> sync /\ ~flagSent]>>
          /\ flagSent' = (flagSent \/ sync)
    BY DEF TaskPrepare
  <1> DEFINE sync == (~firstSent \/ far) /\ syncing
             p == [kind |-> "Packet", number |-> prepared,
                   marker |-> ~firstSent, restart |-> sync /\ ~flagSent]
  <1>2. p \in Packets /\ flagSent' \in BOOLEAN
    BY <1>1 DEF TypeOK, Packets
  <1>3. /\ pending' = <<p>> /\ p.number = prepared /\ p.marker = ~firstSent
        /\ ~firstSent /\ ~flagSent /\ syncing => p.restart
    BY <1>1
  <1>4. /\ task = "fill" /\ task' = "send" /\ firstSent' = TRUE /\ prepared' = prepared + 1
        /\ state' = IF state = "Buffering" THEN "Streaming" ELSE state
        /\ unmarked' = IF state = "Paused" /\ ~firstSent THEN unmarked \cup {"in flight"}
                                                        ELSE unmarked
        /\ UNCHANGED <<setupVars, chan, threadVars, apiVars, heard>>
    BY DEF TaskPrepare
  <1> QED
    BY <1>2, <1>3, <1>4

\* Every step keeps the types.
LEMMA TypeStep == TypeOK /\ [Next]_vars => TypeOK'
  <1> SUFFICES ASSUME TypeOK, [Next]_vars PROVE TypeOK'
    OBVIOUS
  <1>m. Pause \in Messages /\ Resume \in Messages /\ Packets \subseteq Messages
    BY DEF Messages
  <1>1. CASE PauseStream
    <2>1. chan' \in Seq(Messages)
      BY <1>1, <1>m, TrySendType DEF PauseStream, TypeOK
    <2> QED
      BY <1>1, <2>1 DEF PauseStream, TypeOK, setupVars, taskVars, threadVars
  <1>2. CASE ResetAfterFlush
    BY <1>2 DEF ResetAfterFlush, TypeOK, setupVars, taskVars, threadVars
  <1>3. CASE FlushFails
    BY <1>3 DEF FlushFails, TypeOK, setupVars, streamVars, taskVars, threadVars
  <1>4. CASE ResumeStream
    <2>1. chan' \in Seq(Messages)
      BY <1>4, <1>m, TrySendType DEF ResumeStream
    <2> QED
      BY <1>4, <2>1 DEF ResumeStream, TypeOK, setupVars, taskVars, threadVars, apiVars
  <1>5. CASE TaskCheck
    BY <1>5 DEF TaskCheck, TypeOK, setupVars, streamVars, threadVars, apiVars
  <1>6. CASE TaskWait
    BY <1>6 DEF TaskWait, TypeOK, setupVars, streamVars, threadVars, apiVars
  <1>7. CASE TaskUnderrun
    BY <1>7 DEF TaskUnderrun, TypeOK, setupVars, threadVars, apiVars
  <1>8. CASE TaskPrepare
    <2>1. /\ pending' \in Seq(Packets) /\ Len(pending') = 1
          /\ prepared' \in Nat /\ firstSent' \in BOOLEAN /\ flagSent' \in BOOLEAN
          /\ state' \in {"Buffering", "Streaming", "Paused"} /\ task' = "send"
      <3>1. PICK p \in Packets : pending' = <<p>>
        BY <1>8, PrepareIs
      <3>2. pending' \in Seq(Packets) /\ Len(pending') = 1
        BY <3>1
      <3>3. /\ prepared' = prepared + 1 /\ firstSent' = TRUE /\ flagSent' \in BOOLEAN
            /\ state' = (IF state = "Buffering" THEN "Streaming" ELSE state) /\ task' = "send"
        BY <1>8, PrepareIs
      <3>4. state' \in {"Buffering", "Streaming", "Paused"} /\ prepared' \in Nat
        BY <3>3 DEF TypeOK
      <3> QED
        BY <3>2, <3>3, <3>4
    <2>2. UNCHANGED <<setupVars, chan, threadVars, apiVars>>
      BY <1>8, PrepareIs
    <2> QED
      BY <2>1, <2>2 DEF TypeOK, setupVars, threadVars, apiVars
  <1>9. CASE TaskSent
    <2>1. chan' \in Seq(Messages)
      BY <1>9, <1>m DEF TaskSent, TypeOK
    <2>2. pending' \in Seq(Packets) /\ Len(pending') = 0
      BY <1>9 DEF TaskSent
    <2> QED
      BY <1>9, <2>1, <2>2 DEF TaskSent, TypeOK, setupVars, streamVars, threadVars, apiVars
  <1>10. CASE ThreadReceive
    <2>1. chan' \in Seq(Messages) /\ Head(chan) \in Messages
      BY <1>10, Rest DEF ThreadReceive, TypeOK
    <2>2. /\ held' \in Seq(Packets)
          /\ thread' \in {"recv", "emit", "paused"}
          /\ Len(held') = IF thread' = "emit" THEN 1 ELSE 0
      <3>1. CASE Head(chan).kind = "Packet" /\ thread' = "emit" /\ held' = <<Head(chan)>>
        <4>1. Head(chan) \in Packets
          BY <2>1, <3>1, Kinds
        <4> QED
          BY <3>1, <4>1
      <3>2. CASE UNCHANGED held /\ thread' \in {"recv", "paused"}
        BY <1>10, <3>2 DEF ThreadReceive, TypeOK
      <3> QED
        BY <1>10, <3>1, <3>2 DEF ThreadReceive
    <2> QED
      BY <1>10, <2>1, <2>2 DEF ThreadReceive, TypeOK, setupVars, streamVars, taskVars, apiVars
  <1>11. CASE ThreadEmit
    <2>1. held' \in Seq(Packets) /\ Len(held') = 0 /\ thread' = "recv"
      BY <1>11 DEF ThreadEmit
    <2>2. held[1] \in Packets
      BY <1>11 DEF ThreadEmit, TypeOK
    <2> QED
      BY <1>11, <2>1, <2>2 DEF ThreadEmit, TypeOK, setupVars, streamVars, taskVars, apiVars
  <1>12. CASE ThreadPaused
    <2>1. chan' \in Seq(Messages) /\ Head(chan) \in Messages
      BY <1>12, Rest DEF ThreadPaused, TypeOK
    <2>2. thrown' \subseteq Nat
      BY <1>12, <2>1, Kinds DEF ThreadPaused, TypeOK
    <2> QED
      BY <1>12, <2>1, <2>2 DEF ThreadPaused, TypeOK, setupVars, streamVars, taskVars, apiVars
  <1>13. CASE \E r \in Receivers : \E n \in 0 .. MaxPackets : Retransmit(r, n)
    BY <1>13 DEF Retransmit, TypeOK, setupVars, streamVars, taskVars, threadVars, apiVars
  <1>14. CASE UNCHANGED vars
    BY <1>14 DEF vars, TypeOK, setupVars, streamVars, taskVars, threadVars, apiVars
  <1> QED
    BY <1>1, <1>2, <1>3, <1>4, <1>5, <1>6, <1>7, <1>8, <1>9, <1>10, <1>11, <1>12, <1>13, <1>14
    DEF Next
-----------------------------------------------------------------------------
(* In line. *)

\* The numbers of the packets the thread is done with, and of those still on the way to it.
Handled == thrown \cup {p.number : p \in emitted}
Held    == {held[i].number : i \in DOMAIN held}
Queued  == {chan[i].number : i \in {j \in DOMAIN chan : chan[j] \in Packets}}
Waiting == {pending[i].number : i \in DOMAIN pending}

\* Every packet prepared is in one of these, in the order of their preparation.
InLine ==
  /\ Handled \cup Held \cup Queued \cup Waiting = {n \in Nat : n < prepared}
  /\ \A a \in Handled : \A b \in Held \cup Queued \cup Waiting : a < b
  /\ \A a \in Held : \A b \in Queued \cup Waiting : a < b
  /\ \A a \in Queued : \A b \in Waiting : a < b
  /\ \A i, j \in DOMAIN chan :
       i < j /\ chan[i] \in Packets /\ chan[j] \in Packets => chan[i].number < chan[j].number

\* A signal behind the packets of the channel changes nothing about them.
LEMMA SignalQueued ==
  ASSUME TypeOK, NEW m \in {Pause, Resume}, TrySend(m)
  PROVE  /\ Queued' = Queued
         /\ \A i \in DOMAIN chan : i \in DOMAIN chan' /\ chan'[i] = chan[i]
         /\ \A i \in DOMAIN chan' : i \notin DOMAIN chan =>
              i = Len(chan) + 1 /\ chan'[i] = m /\ chan'[i] \notin Packets
  <1>1. m \in Messages /\ m \notin Packets
    BY Kinds DEF Messages
  <1>2. /\ \A i \in DOMAIN chan : i \in DOMAIN chan' /\ chan'[i] = chan[i]
        /\ \A i \in DOMAIN chan' : i \notin DOMAIN chan => i = Len(chan) + 1 /\ chan'[i] = m
    <2>1. CASE chan' = chan
      BY <2>1
    <2>2. CASE chan' = Append(chan, m)
      <3>1. /\ DOMAIN chan = 1 .. Len(chan) /\ Len(chan) \in Nat
            /\ DOMAIN chan' = 1 .. Len(chan) + 1
            /\ \A i \in 1 .. Len(chan) : chan'[i] = chan[i]
            /\ chan'[Len(chan) + 1] = m
        BY <1>1, <2>2 DEF TypeOK
      <3> QED
        BY <3>1
    <2> QED
      BY <2>1, <2>2 DEF TrySend
  <1>3. {j \in DOMAIN chan' : chan'[j] \in Packets} = {j \in DOMAIN chan : chan[j] \in Packets}
    BY <1>1, <1>2
  <1> QED
    BY <1>1, <1>2, <1>3 DEF Queued

\* What leaves the channel at its head.
LEMMA HeadQueued ==
  ASSUME TypeOK, InLine, chan # <<>>, chan' = Tail(chan)
  PROVE  /\ Head(chan) = chan[1] /\ chan[1] \in Messages /\ 1 \in DOMAIN chan
         /\ \A i \in DOMAIN chan' : i + 1 \in DOMAIN chan /\ i \in Nat /\ chan'[i] = chan[i + 1]
         /\ \A i \in DOMAIN chan : i # 1 => i - 1 \in DOMAIN chan' /\ chan'[i - 1] = chan[i]
         /\ chan[1] \in Packets => /\ Queued = {chan[1].number} \cup Queued'
                                   /\ \A b \in Queued' : chan[1].number < b
         /\ chan[1] \notin Packets => Queued' = Queued
  <1>1. /\ Len(chan) \in Nat /\ Len(chan) > 0
        /\ DOMAIN chan = 1 .. Len(chan)
        /\ DOMAIN chan' = 1 .. Len(chan) - 1
        /\ \A i \in 1 .. Len(chan) - 1 : chan'[i] = chan[i + 1]
        /\ Head(chan) = chan[1] /\ chan[1] \in Messages
    <2>1. chan \in Seq(Messages) /\ Tail(chan) \in Seq(Messages)
      BY Rest DEF TypeOK
    <2> QED
      BY <2>1, Rest, Elements
  <1>2. /\ 1 \in DOMAIN chan
        /\ \A i \in DOMAIN chan' : i + 1 \in DOMAIN chan /\ i \in Nat /\ chan'[i] = chan[i + 1]
        /\ \A i \in DOMAIN chan : i # 1 => i - 1 \in DOMAIN chan' /\ chan'[i - 1] = chan[i]
    BY <1>1
  <1>3. \A b \in Queued' : \E i \in DOMAIN chan :
          i > 1 /\ chan[i] \in Packets /\ b = chan[i].number
    <2>1. ASSUME NEW b \in Queued'
          PROVE  \E i \in DOMAIN chan : i > 1 /\ chan[i] \in Packets /\ b = chan[i].number
      <3>1. PICK j \in DOMAIN chan' : chan'[j] \in Packets /\ b = chan'[j].number
        BY <2>1 DEF Queued
      <3>2. j + 1 \in DOMAIN chan /\ j + 1 > 1 /\ chan[j + 1] = chan'[j]
        BY <1>1, <1>2, <3>1
      <3> QED
        BY <3>1, <3>2
    <2> QED
      BY <2>1
  <1>4. \A b \in Queued' : b \in Queued
    BY <1>3 DEF Queued
  <1>5. \A b \in Queued : (chan[1] \in Packets /\ b = chan[1].number) \/ b \in Queued'
    <2>1. ASSUME NEW b \in Queued
          PROVE  (chan[1] \in Packets /\ b = chan[1].number) \/ b \in Queued'
      <3>1. PICK i \in DOMAIN chan : chan[i] \in Packets /\ b = chan[i].number
        BY <2>1 DEF Queued
      <3>2. CASE i = 1
        BY <3>1, <3>2
      <3>3. CASE i # 1
        <4>1. i - 1 \in DOMAIN chan' /\ chan'[i - 1] = chan[i]
          BY <1>2, <3>3
        <4> QED
          BY <3>1, <4>1 DEF Queued
      <3> QED
        BY <3>2, <3>3
    <2> QED
      BY <2>1
  <1>6. chan[1] \in Packets => \A b \in Queued' : chan[1].number < b
    BY <1>2, <1>3 DEF InLine
  <1>7. chan[1] \in Packets => chan[1].number \in Queued
    BY <1>2 DEF Queued
  <1> QED
    BY <1>1, <1>2, <1>4, <1>5, <1>6, <1>7
\* The task and the thread hold one packet or none.
LEMMA AtMostOne ==
  ASSUME TypeOK
  PROVE  /\ IF task = "send" THEN Waiting = {pending[1].number} ELSE Waiting = {}
         /\ IF thread = "emit" THEN Held = {held[1].number} ELSE Held = {}
         /\ task = "send" => pending = <<pending[1]>> /\ pending[1] \in Packets
         /\ thread = "emit" => held[1] \in Packets
  <1>1. /\ DOMAIN pending = 1 .. Len(pending) /\ DOMAIN held = 1 .. Len(held)
        /\ pending \in Seq(Packets) /\ held \in Seq(Packets)
        /\ Len(pending) = (IF task = "send" THEN 1 ELSE 0)
        /\ Len(held) = (IF thread = "emit" THEN 1 ELSE 0)
    BY Elements DEF TypeOK
  <1>2. (IF task = "send" THEN Waiting = {pending[1].number} ELSE Waiting = {})
    BY <1>1 DEF Waiting
  <1>3. (IF thread = "emit" THEN Held = {held[1].number} ELSE Held = {})
    BY <1>1 DEF Held
  <1>4. task = "send" => pending = <<pending[1]>> /\ pending[1] \in Packets
    BY <1>1
  <1>5. thread = "emit" => held[1] \in Packets
    BY <1>1
  <1> QED
    BY <1>2, <1>3, <1>4, <1>5

\* The numbers in line are numbers.
LEMMA NumbersInLine ==
  ASSUME InLine
  PROVE  Handled \cup Held \cup Queued \cup Waiting \subseteq Nat
  BY DEF InLine

\* Nothing is prepared when a stream starts.
LEMMA InLineInit == Init => InLine
  <1> SUFFICES ASSUME Init PROVE InLine
    OBVIOUS
  <1>1. DOMAIN pending = {} /\ DOMAIN held = {} /\ DOMAIN chan = {} /\ prepared = 0
        /\ thrown = {} /\ emitted = {}
    BY DEF Init
  <1>2. Handled = {} /\ Held = {} /\ Queued = {} /\ Waiting = {}
    BY <1>1 DEF Handled, Held, Queued, Waiting
  <1> QED
    BY <1>1, <1>2 DEF InLine

\* The packet that the task was sending is the last in the channel.
LEMMA SentQueued ==
  ASSUME TypeOK, InLine, TaskSent
  PROVE  /\ Queued' = Queued \cup Waiting /\ Waiting' = {}
         /\ \A i, j \in DOMAIN chan' :
              i < j /\ chan'[i] \in Packets /\ chan'[j] \in Packets
                => chan'[i].number < chan'[j].number
         /\ \A i \in DOMAIN chan : i \in DOMAIN chan' /\ chan'[i] = chan[i]
         /\ \A i \in DOMAIN chan' : i \notin DOMAIN chan => chan'[i] = pending[1]
         /\ Len(chan) + 1 \in DOMAIN chan' /\ chan'[Len(chan) + 1] = pending[1]
         /\ \A i \in DOMAIN chan : i < Len(chan) + 1
  <1>1. /\ task = "send" /\ pending = <<pending[1]>> /\ pending[1] \in Packets
        /\ Waiting = {pending[1].number} /\ Waiting' = {}
        /\ chan' = chan \o pending /\ chan \in Seq(Messages)
    <2>1. task = "send" /\ task' = "check" /\ chan' = chan \o pending
      BY DEF TaskSent
    <2>2. Waiting' = {}
      <3>1. DOMAIN pending' = {}
        BY DEF TaskSent
      <3> QED
        BY <3>1 DEF Waiting
    <2> QED
      BY <2>1, <2>2, AtMostOne DEF TypeOK
  <1>2. /\ DOMAIN chan = 1 .. Len(chan) /\ Len(chan) \in Nat
        /\ DOMAIN chan' = 1 .. Len(chan) + 1
        /\ \A i \in 1 .. Len(chan) : chan'[i] = chan[i]
        /\ chan'[Len(chan) + 1] = pending[1]
    <2>1. chan' = chan \o <<pending[1]>>
      BY <1>1
    <2> QED
      BY <1>1, <2>1
  <1>3. \A i \in DOMAIN chan' :
          (i \in DOMAIN chan /\ chan'[i] = chan[i])
            \/ (i = Len(chan) + 1 /\ i \notin DOMAIN chan /\ chan'[i] = pending[1])
    BY <1>2
  <1>4. Queued' = Queued \cup Waiting
    <2>1. \A b \in Queued' : b \in Queued \cup Waiting
      BY <1>1, <1>3 DEF Queued
    <2>2. \A b \in Queued : b \in Queued'
      BY <1>2 DEF Queued
    <2>3. pending[1].number \in Queued'
      <3>1. Len(chan) + 1 \in DOMAIN chan' /\ chan'[Len(chan) + 1] \in Packets
        BY <1>1, <1>2
      <3> QED
        BY <1>2, <3>1 DEF Queued
    <2> QED
      BY <1>1, <2>1, <2>2, <2>3
  <1>5. ASSUME NEW i \in DOMAIN chan', NEW j \in DOMAIN chan', i < j,
               chan'[i] \in Packets, chan'[j] \in Packets
        PROVE  chan'[i].number < chan'[j].number
    <2>1. i \in DOMAIN chan /\ chan'[i] = chan[i]
      BY <1>2, <1>3, <1>5
    <2>2. CASE j \in DOMAIN chan /\ chan'[j] = chan[j]
      BY <1>5, <2>1, <2>2 DEF InLine
    <2>3. CASE chan'[j] = pending[1]
      <3>1. chan[i].number \in Queued
        BY <1>5, <2>1 DEF Queued
      <3> QED
        BY <1>1, <2>1, <2>3, <3>1 DEF InLine
    <2> QED
      BY <1>3, <2>2, <2>3
  <1> QED
    BY <1>1, <1>2, <1>3, <1>4, <1>5

\* Every step keeps the packets in line.
LEMMA InLineStep == TypeOK /\ InLine /\ [Next]_vars => InLine'
  <1> SUFFICES ASSUME TypeOK, InLine, [Next]_vars PROVE InLine'
    OBVIOUS
  <1>t. TypeOK'
    BY TypeStep
  <1>n. Handled \cup Held \cup Queued \cup Waiting \subseteq Nat /\ prepared \in Nat
    BY NumbersInLine DEF TypeOK
  <1>1. CASE PauseStream \/ ResumeStream
    <2>1. /\ UNCHANGED <<held, pending, emitted, thrown, prepared>>
          /\ UNCHANGED chan \/ TrySend(Pause) \/ TrySend(Resume)
      BY <1>1 DEF PauseStream, ResumeStream, taskVars, threadVars
    <2>2. UNCHANGED <<Handled, Held, Waiting>>
      BY <2>1 DEF Handled, Held, Waiting
    <2>3. CASE UNCHANGED chan
      BY <2>1, <2>2, <2>3 DEF InLine, Queued
    <2>4. CASE TrySend(Pause) \/ TrySend(Resume)
      <3>1. PICK m \in {Pause, Resume} : TrySend(m)
        BY <2>4
      <3>2. /\ Queued' = Queued
            /\ \A i \in DOMAIN chan' : chan'[i] \in Packets =>
                 i \in DOMAIN chan /\ chan'[i] = chan[i]
        BY <3>1, SignalQueued
      <3> QED
        BY <2>1, <2>2, <3>2 DEF InLine
    <2> QED
      BY <2>1, <2>3, <2>4
  <1>2. CASE TaskPrepare
    <2>1. task = "fill" /\ task' = "send" /\ prepared' = prepared + 1
          /\ UNCHANGED <<chan, threadVars>>
      BY <1>2, PrepareIs
    <2>2. PICK p \in Packets : pending' = <<p>> /\ p.number = prepared
      BY <1>2, PrepareIs
    <2>3. Waiting = {} /\ Waiting' = {prepared}
      <3>1. DOMAIN pending' = {1} /\ pending'[1] = p
        BY <2>2
      <3> QED
        BY <2>1, <2>2, <3>1, AtMostOne DEF Waiting
    <2>4. UNCHANGED <<Handled, Held, Queued>>
      BY <2>1 DEF Handled, Held, Queued, threadVars
    <2>5. {n \in Nat : n < prepared'} = {n \in Nat : n < prepared} \cup {prepared}
      BY <2>1, <1>n
    <2>6. \A a \in Handled \cup Held \cup Queued : a < prepared
      BY DEF InLine
    <2>7. Handled' \cup Held' \cup Queued' \cup Waiting' = {n \in Nat : n < prepared'}
      BY <2>3, <2>4, <2>5 DEF InLine
    <2> QED
      BY <2>1, <2>3, <2>4, <2>6, <2>7 DEF InLine
  <1>3. CASE TaskSent
    <2>1. UNCHANGED <<held, emitted, thrown, prepared>>
      BY <1>3 DEF TaskSent, threadVars
    <2>2. UNCHANGED <<Handled, Held>>
      BY <2>1 DEF Handled, Held
    <2>3. /\ Queued' = Queued \cup Waiting /\ Waiting' = {}
          /\ \A i, j \in DOMAIN chan' :
               i < j /\ chan'[i] \in Packets /\ chan'[j] \in Packets
                 => chan'[i].number < chan'[j].number
      BY <1>3, SentQueued
    <2> QED
      BY <2>1, <2>2, <2>3 DEF InLine
  <1>4. CASE ThreadReceive \/ ThreadPaused
    <2>1. /\ chan # <<>> /\ chan' = Tail(chan)
          /\ UNCHANGED <<pending, prepared, emitted>>
      BY <1>4 DEF ThreadReceive, ThreadPaused, taskVars
    <2>2. UNCHANGED Waiting
      BY <2>1 DEF Waiting
    <2>3. \A i, j \in DOMAIN chan' :
            i < j /\ chan'[i] \in Packets /\ chan'[j] \in Packets
              => chan'[i].number < chan'[j].number
      <3>1. \A i \in DOMAIN chan' : i + 1 \in DOMAIN chan /\ i \in Nat /\ chan'[i] = chan[i + 1]
        BY <2>1, HeadQueued
      <3>2. \A i, j \in DOMAIN chan' : i < j => i + 1 < j + 1
        BY <3>1
      <3> QED
        BY <3>1, <3>2 DEF InLine
    <2>4. CASE chan[1] \notin Packets
      <3>1. UNCHANGED Queued /\ Head(chan).kind # "Packet"
        BY <2>1, <2>4, HeadQueued, Kinds
      <3>2. UNCHANGED <<held, thrown>>
        BY <1>4, <3>1 DEF ThreadReceive, ThreadPaused
      <3> QED
        BY <2>1, <2>2, <2>3, <3>1, <3>2 DEF InLine, Handled, Held
    <2>5. CASE chan[1] \in Packets
      <3> DEFINE m == chan[1]
      <3>1. /\ Queued = {m.number} \cup Queued'
            /\ \A b \in Queued' : m.number < b
            /\ Head(chan) = m /\ m.kind = "Packet" /\ m # Pause /\ m # Resume
        BY <2>1, <2>5, HeadQueued, Kinds
      <3> HIDE DEF m
      <3>2. CASE ThreadReceive
        <4>1. thread = "recv" /\ held' = <<m>> /\ thrown' = thrown
          BY <3>1, <3>2 DEF ThreadReceive
        <4>2. Held = {} /\ Held' = {m.number}
          <5>1. DOMAIN held' = {1} /\ held'[1] = m
            BY <4>1
          <5> QED
            BY <4>1, <5>1, AtMostOne DEF Held
        <4>3. UNCHANGED Handled
          BY <2>1, <4>1 DEF Handled
        <4> QED
          BY <2>1, <2>2, <2>3, <3>1, <4>2, <4>3 DEF InLine
      <3>3. CASE ThreadPaused
        <4>1. thread = "paused" /\ held' = held /\ thrown' = thrown \cup {m.number}
          BY <3>1, <3>3 DEF ThreadPaused
        <4>2. Held = {} /\ Held' = {}
          BY <4>1, AtMostOne DEF Held
        <4>3. Handled' = Handled \cup {m.number}
          BY <2>1, <4>1 DEF Handled
        <4> QED
          BY <2>1, <2>2, <2>3, <3>1, <4>2, <4>3 DEF InLine
      <3> QED
        BY <1>4, <3>2, <3>3
    <2> QED
      BY <2>4, <2>5
  <1>5. CASE ThreadEmit
    <2>1. /\ thread = "emit" /\ held' = <<>> /\ emitted' = emitted \cup {held[1]}
          /\ UNCHANGED <<chan, pending, prepared, thrown>>
      BY <1>5 DEF ThreadEmit, taskVars
    <2>2. Held = {held[1].number} /\ Held' = {}
      <3>1. DOMAIN held' = {}
        BY <2>1
      <3> QED
        BY <2>1, <3>1, AtMostOne DEF Held
    <2>3. Handled' = Handled \cup Held
      BY <2>1, <2>2 DEF Handled
    <2>4. UNCHANGED <<Queued, Waiting>>
      BY <2>1 DEF Queued, Waiting
    <2> QED
      BY <2>1, <2>2, <2>3, <2>4 DEF InLine
  <1>6. CASE UNCHANGED <<chan, held, pending, emitted, thrown, prepared>>
    BY <1>6 DEF InLine, Handled, Held, Queued, Waiting
  <1> QED
    BY <1>1, <1>2, <1>3, <1>4, <1>5, <1>6
    DEF Next, vars, taskVars, threadVars, ResetAfterFlush, FlushFails, TaskCheck, TaskWait,
        TaskUnderrun, Retransmit
-----------------------------------------------------------------------------
(* What a receiver hears. *)

\* What one step may add to what a receiver has heard.
LEMMA DeliveredIs ==
  ASSUME NEW sent, Delivered(sent), NEW r \in Receivers, NEW p \in heard'[r]
  PROVE  p \in heard[r] \/ (r \in DOMAIN sent /\ p = sent[r])
  BY DEF Delivered

\* What the thread is done with stays so.
LEMMA HandledGrows == TypeOK /\ [Next]_vars => Handled \subseteq Handled'
  <1> SUFFICES ASSUME TypeOK, [Next]_vars PROVE Handled \subseteq Handled'
    OBVIOUS
  <1>1. thrown \subseteq thrown' /\ emitted \subseteq emitted'
    <2>1. CASE TaskPrepare
      BY <2>1 DEF TaskPrepare, threadVars
    <2>2. CASE ThreadEmit
      BY <2>2 DEF ThreadEmit
    <2>3. CASE ThreadPaused
      BY <2>3 DEF ThreadPaused
    <2>4. CASE UNCHANGED <<thrown, emitted>>
      BY <2>4
    <2> QED
      BY <2>1, <2>2, <2>3, <2>4
      DEF Next, vars, threadVars, PauseStream, ResetAfterFlush, FlushFails, ResumeStream,
          TaskCheck, TaskWait, TaskUnderrun, TaskSent, ThreadReceive, Retransmit
  <1> QED
    BY <1>1 DEF Handled

\* The sockets that were cloned when the stream started stay the ones it has.
LEMMA SetupStays == [Next]_vars => UNCHANGED setupVars
  BY DEF Next, vars, PauseStream, ResetAfterFlush, FlushFails, ResumeStream, TaskCheck,
         TaskWait, TaskUnderrun, TaskPrepare, TaskSent, ThreadReceive, ThreadEmit,
         ThreadPaused, Retransmit

\* Every step keeps what is heard the receiver's own.
LEMMA HearsStep ==
  TypeOK /\ InLine /\ TargetsOK /\ HearsItsOwn /\ [Next]_vars => HearsItsOwn'
  <1> SUFFICES ASSUME TypeOK, InLine, TargetsOK, HearsItsOwn, [Next]_vars,
                      NEW r \in Receivers, NEW p \in heard'[r]
               PROVE  /\ p.owner = r \/ (~p.copy /\ \E q \in Receivers \ Targets' : q < r)
                      /\ p.number \in Handled'
    BY DEF HearsItsOwn, Handled
  <1>1. Targets' = Targets
    BY SetupStays DEF setupVars, Targets
  <1>2. Handled \subseteq Handled'
    BY HandledGrows
  <1>3. CASE p \in heard[r]
    BY <1>1, <1>2, <1>3 DEF HearsItsOwn, Handled
  <1>4. CASE p \notin heard[r] /\ ThreadEmit
    <2>1. /\ r \in Targets /\ p = Fanout(held[1])[r]
          /\ emitted' = emitted \cup {held[1]}
      BY <1>4, DeliveredIs DEF ThreadEmit, Fanout, Targets
    <2>2. p = [owner  |-> WirePacket(CHOOSE i \in DOMAIN targets : targets[i] = r),
               number |-> held[1].number, copy |-> FALSE]
      BY <2>1 DEF Fanout, Targets
    <2>3. PICK i \in DOMAIN targets : targets[i] = r /\ p.owner = WirePacket(i)
      <3>1. \E i \in DOMAIN targets : targets[i] = r
        BY <2>1 DEF Targets
      <3> QED
        BY <2>2, <3>1
    <2>4. ~p.copy /\ p.number = held[1].number
      BY <2>2
    <2> QED
      BY <1>1, <2>1, <2>3, <2>4 DEF TargetsOK, Handled
  <1>5. ASSUME p \notin heard[r], NEW q \in Receivers, NEW n \in 0 .. MaxPackets, Retransmit(q, n)
        PROVE  p.owner = r /\ p.number \in Handled'
    <2>1. /\ Delivered([s \in {q} |-> [owner |-> ServedBy(q), number |-> n, copy |-> TRUE]])
          /\ n \in Gaps(q)
      BY <1>5 DEF Retransmit
    <2>2. r = q /\ p = [owner |-> ServedBy(q), number |-> n, copy |-> TRUE]
      BY <1>5, <2>1, DeliveredIs
    <2>3. p.owner = r /\ p.number = n
      BY <2>2 DEF ServedBy
    <2>4. PICK latest \in {e.number : e \in heard[q]} : latest > n
      BY <2>1 DEF Gaps
    <2>5. latest \in Handled /\ latest \in Nat /\ n \in Nat /\ latest < prepared /\ prepared \in Nat
      <3>1. latest \in Handled
        BY <2>4 DEF HearsItsOwn, Handled
      <3> QED
        BY <3>1, GroupAssumption DEF InLine, TypeOK
    <2>6. n \in Handled \cup Held \cup Queued \cup Waiting
      BY <2>4, <2>5 DEF InLine
    <2>7. n \notin Held \cup Queued \cup Waiting
      BY <2>4, <2>5 DEF InLine
    <2> QED
      BY <1>2, <2>3, <2>6, <2>7
  <1>6. CASE UNCHANGED heard
    BY <1>3, <1>6
  <1> QED
    BY <1>3, <1>4, <1>5, <1>6
    DEF Next, vars, PauseStream, ResetAfterFlush, FlushFails, ResumeStream, TaskCheck,
        TaskWait, TaskUnderrun, TaskPrepare, TaskSent, ThreadReceive, ThreadPaused

\* The types and the line in every behaviour.
LEMMA AlwaysInLine == Spec => [](TypeOK /\ InLine)
  <1>1. Init => TypeOK /\ InLine
    BY TypeInit, InLineInit
  <1>2. TypeOK /\ InLine /\ [Next]_vars => (TypeOK /\ InLine)'
    BY TypeStep, InLineStep
  <1> QED
    BY <1>1, <1>2, PTL DEF Spec

\* Whatever sockets could be cloned and whatever the network loses, a receiver hears what
\* its own sender sealed, unless a receiver before it is no target; a copy it asked for is
\* always its own; and nothing reaches it before the thread is done with it.
THEOREM OwnPackets == Spec => []HearsItsOwn
  <1>1. Init => TargetsOK /\ HearsItsOwn
    <2>1. Init => HearsItsOwn
      BY DEF Init, HearsItsOwn
    <2> QED
      BY <2>1, TargetsInit
  <1>2. TypeOK /\ InLine /\ TargetsOK /\ HearsItsOwn /\ [Next]_vars => (TargetsOK /\ HearsItsOwn)'
    <2>1. TargetsOK /\ [Next]_vars => TargetsOK'
      BY SetupStays DEF setupVars, TargetsOK, Targets
    <2> QED
      BY <2>1, HearsStep
  <1> QED
    BY <1>1, <1>2, AlwaysInLine, PTL DEF Spec
-----------------------------------------------------------------------------
(* The packet that follows a flush. *)

\* The packets that exist: emitted, or on their way to the thread.
InChan == {chan[i] : i \in {j \in DOMAIN chan : chan[j] \in Packets}}
Made   == emitted \cup {held[i] : i \in DOMAIN held} \cup InChan \cup {pending[i] : i \in DOMAIN pending}

\* A packet has been prepared since the last flush just when the first is behind the
\* streamer; that first packet, wherever it is, is marked and tells the receivers to start over.
Started ==
  /\ base <= prepared
  /\ firstSent <=> base < prepared
  /\ ~firstSent => ~flagSent
  /\ \A p \in Made : p.number = base => p.marker /\ (syncing => p.restart)

\* A packet that exists is among those prepared.
LEMMA MadeInLine ==
  ASSUME TypeOK, InLine, NEW p \in Made
  PROVE  p \in Packets /\ p.number \in Nat /\ p.number < prepared
  <1>1. p \in Packets
    BY Elements DEF Made, InChan, TypeOK
  <1>2. p.number \in Handled \cup Held \cup Queued \cup Waiting
    BY DEF Made, InChan, Handled, Held, Queued, Waiting
  <1> QED
    BY <1>1, <1>2 DEF InLine

\* Only the task makes packets.
LEMMA MadeByTask ==
  ASSUME TypeOK, InLine, [Next]_vars, ~TaskPrepare
  PROVE  Made' \subseteq Made
  <1>1. CASE PauseStream \/ ResumeStream
    <2>1. UNCHANGED <<held, pending, emitted>> /\ (UNCHANGED chan \/ TrySend(Pause) \/ TrySend(Resume))
      BY <1>1 DEF PauseStream, ResumeStream, taskVars, threadVars
    <2>2. \A i \in DOMAIN chan' : chan'[i] \in Packets => i \in DOMAIN chan /\ chan'[i] = chan[i]
      <3>1. CASE UNCHANGED chan
        BY <3>1
      <3>2. CASE TrySend(Pause) \/ TrySend(Resume)
        <4>1. PICK m \in {Pause, Resume} : TrySend(m)
          BY <3>2
        <4> QED
          BY <4>1, SignalQueued
      <3> QED
        BY <2>1, <3>1, <3>2
    <2>3. InChan' \subseteq InChan
      BY <2>2 DEF InChan
    <2> QED
      BY <2>1, <2>3 DEF Made
  <1>2. CASE TaskSent
    <2>1. UNCHANGED <<held, emitted>> /\ pending' = <<>> /\ task = "send"
      BY <1>2 DEF TaskSent, threadVars
    <2>2. \A i \in DOMAIN chan' : (i \in DOMAIN chan /\ chan'[i] = chan[i]) \/ chan'[i] = pending[1]
      BY <1>2, SentQueued
    <2>3. 1 \in DOMAIN pending
      BY <2>1, Elements DEF TypeOK
    <2>4. InChan' \subseteq InChan \cup {pending[i] : i \in DOMAIN pending}
      BY <2>2, <2>3 DEF InChan
    <2>5. DOMAIN pending' = {}
      BY <2>1
    <2> QED
      BY <2>1, <2>4, <2>5 DEF Made
  <1>3. CASE ThreadReceive \/ ThreadPaused
    <2>1. /\ chan # <<>> /\ chan' = Tail(chan) /\ UNCHANGED <<pending, emitted>>
          /\ held' = held \/ (Head(chan).kind = "Packet" /\ held' = <<Head(chan)>>)
      BY <1>3 DEF ThreadReceive, ThreadPaused, taskVars
    <2>2. /\ \A i \in DOMAIN chan' : i + 1 \in DOMAIN chan /\ chan'[i] = chan[i + 1]
          /\ Head(chan) = chan[1] /\ 1 \in DOMAIN chan /\ chan[1] \in Messages
      BY <2>1, HeadQueued
    <2>3. InChan' \subseteq InChan
      BY <2>2 DEF InChan
    <2>4. {held[i] : i \in DOMAIN held}' \subseteq {held[i] : i \in DOMAIN held} \cup InChan
      <3>1. CASE held' = held
        BY <3>1
      <3>2. CASE Head(chan).kind = "Packet" /\ held' = <<Head(chan)>>
        <4>1. DOMAIN held' = {1} /\ held'[1] = chan[1] /\ chan[1] \in Packets
          BY <2>2, <3>2, Kinds
        <4> QED
          BY <2>2, <4>1 DEF InChan
      <3> QED
        BY <2>1, <3>1, <3>2
    <2> QED
      BY <2>1, <2>3, <2>4 DEF Made
  <1>4. CASE ThreadEmit
    <2>1. /\ UNCHANGED <<chan, pending>> /\ thread = "emit"
          /\ held' = <<>> /\ emitted' = emitted \cup {held[1]}
      BY <1>4 DEF ThreadEmit, taskVars
    <2>2. DOMAIN held' = {} /\ 1 \in DOMAIN held
      BY <2>1, Elements DEF TypeOK
    <2>3. InChan' = InChan
      BY <2>1 DEF InChan
    <2> QED
      BY <2>1, <2>2, <2>3 DEF Made
  <1>5. CASE UNCHANGED <<chan, held, pending, emitted>>
    BY <1>5 DEF Made, InChan
  <1> QED
    BY <1>1, <1>2, <1>3, <1>4, <1>5
    DEF Next, vars, taskVars, threadVars, ResetAfterFlush, FlushFails, TaskCheck, TaskWait,
        TaskUnderrun, Retransmit

\* Every step keeps the first packet marked.
LEMMA StartedStep == TypeOK /\ InLine /\ Started /\ [Next]_vars => Started'
  <1> SUFFICES ASSUME TypeOK, InLine, Started, [Next]_vars PROVE Started'
    OBVIOUS
  <1>1. CASE TaskPrepare
    <2>1. PICK q \in Packets :
            /\ pending' = <<q>> /\ q.number = prepared /\ q.marker = ~firstSent
            /\ ~firstSent /\ ~flagSent /\ syncing => q.restart
      BY <1>1, PrepareIs
    <2>2. /\ firstSent' = TRUE /\ prepared' = prepared + 1
          /\ UNCHANGED <<syncing, chan, held, emitted, base>>
      BY <1>1, PrepareIs DEF setupVars, threadVars, apiVars
    <2>3. Made' \subseteq Made \cup {q}
      <3>1. DOMAIN pending' = {1} /\ pending'[1] = q
        BY <2>1
      <3>2. InChan' = InChan
        BY <2>2 DEF InChan
      <3> QED
        BY <2>2, <3>1, <3>2 DEF Made
    <2>4. base \in Nat /\ prepared \in Nat
      BY DEF TypeOK
    <2>5. base' <= prepared' /\ base' < prepared'
      BY <2>2, <2>4 DEF Started
    <2>6. q.number = base => q.marker /\ (syncing => q.restart)
      <3>1. prepared = base => ~firstSent /\ ~flagSent
        BY <2>4 DEF Started
      <3>2. firstSent \in BOOLEAN
        BY DEF TypeOK
      <3> QED
        BY <2>1, <3>1, <3>2
    <2> QED
      BY <2>2, <2>3, <2>5, <2>6 DEF Started
  <1>2. CASE ResetAfterFlush /\ ~TaskPrepare
    <2>1. base' = prepared /\ prepared' = prepared /\ firstSent' = FALSE /\ flagSent' = FALSE
      BY <1>2 DEF ResetAfterFlush, taskVars
    <2>2. \A p \in Made' : p.number # base'
      BY <1>2, <2>1, MadeByTask, MadeInLine DEF TypeOK
    <2> QED
      BY <2>1, <2>2 DEF Started, TypeOK
  <1>3. CASE UNCHANGED <<base, prepared, firstSent, flagSent>> /\ ~TaskPrepare
    <2>1. UNCHANGED syncing
      BY SetupStays DEF setupVars
    <2> QED
      BY <1>3, <2>1, MadeByTask DEF Started
  <1> QED
    BY <1>1, <1>2, <1>3
    DEF Next, vars, streamVars, taskVars, apiVars, PauseStream, FlushFails, ResumeStream,
        TaskCheck, TaskWait, TaskUnderrun, TaskSent, ThreadReceive, ThreadEmit, ThreadPaused,
        Retransmit
\* The packet `base' is before the thread, at place j of the channel or with the task.
Awaited == base \in Waiting
BaseAt(j) == j \in DOMAIN chan /\ chan[j] \in Packets /\ chan[j].number = base

\* As long as nothing has disturbed the restart: a paused stream is one that has flushed,
\* a signal to go on has the packet `base' behind it, if that is prepared at all, and a thread
\* that threw that packet away is still paused and has put nothing later on the sockets.
Undisturbed ==
  unmarked = {} =>
    /\ state = "Paused" /\ api = "idle" => ~firstSent
    /\ firstSent => \A i \in DOMAIN chan :
         chan[i] = Resume => Awaited \/ \E j \in DOMAIN chan : j > i /\ BaseAt(j)
    /\ base \in thrown => thread = "paused" /\ \A p \in emitted : p.number < base

\* While the packet `base' is in the channel, nothing has thrown it away.
LEMMA BehindTheHead ==
  ASSUME TypeOK, InLine, NEW j \in DOMAIN chan, BaseAt(j)
  PROVE  base \notin thrown
  <1>1. base \in Queued
    BY DEF BaseAt, Queued
  <1>2. base \in Nat
    BY DEF TypeOK
  <1> QED
    BY <1>1, <1>2 DEF InLine, Handled

\* Every step leaves the restart undisturbed, or tells why it may not be.
LEMMA UndisturbedStep ==
  TypeOK /\ InLine /\ Started /\ Undisturbed /\ [Next]_vars => Undisturbed'
  <1> SUFFICES ASSUME TypeOK, InLine, Started, Undisturbed, [Next]_vars, unmarked' = {}
               PROVE  /\ state' = "Paused" /\ api' = "idle" => ~firstSent'
                      /\ firstSent' => \A i \in DOMAIN chan' :
                           chan'[i] = Resume => Awaited' \/ \E j \in DOMAIN chan' : j > i /\ BaseAt(j)'
                      /\ base' \in thrown' => thread' = "paused" /\ \A p \in emitted' : p.number < base'
    BY DEF Undisturbed
  <1>n. /\ base \in Nat /\ prepared \in Nat /\ thrown \subseteq Handled
        /\ \A n \in Handled : n \in Nat /\ n < prepared
    BY DEF TypeOK, InLine, Handled
  <1>1. CASE PauseStream
    <2>1. /\ UNCHANGED <<firstSent, base, thrown, emitted, thread, pending, unmarked>>
          /\ api' = "flush"
          /\ TrySend(Pause) \/ UNCHANGED chan
      BY <1>1 DEF PauseStream, taskVars, threadVars
    <2>2. CASE UNCHANGED chan
      BY <2>1, <2>2 DEF Undisturbed, Awaited, BaseAt, Waiting
    <2>3. CASE TrySend(Pause)
      <3>1. /\ \A i \in DOMAIN chan : i \in DOMAIN chan' /\ chan'[i] = chan[i]
            /\ \A i \in DOMAIN chan' : i \notin DOMAIN chan => chan'[i] # Resume
        BY <2>3, SignalQueued, Kinds DEF TrySend
      <3>2. Awaited' = Awaited /\ \A j \in DOMAIN chan : BaseAt(j) => BaseAt(j)'
        BY <2>1, <3>1 DEF Awaited, Waiting, BaseAt
      <3> QED
        BY <2>1, <3>1, <3>2 DEF Undisturbed
    <2> QED
      BY <2>1, <2>2, <2>3
  <1>2. CASE ResetAfterFlush
    <2>1. ~firstSent' /\ base' = prepared /\ thrown' = thrown
      BY <1>2 DEF ResetAfterFlush, threadVars
    <2>2. base' \notin thrown'
      BY <2>1, <1>n
    <2> QED
      BY <2>1, <2>2
  <1>3. CASE FlushFails
    BY <1>3 DEF FlushFails
  <1>4. CASE ResumeStream
    <2>1. /\ UNCHANGED <<firstSent, base, thrown, emitted, thread, unmarked>>
          /\ state = "Paused" /\ api = "idle" /\ state' = "Streaming"
      BY <1>4 DEF ResumeStream, threadVars, apiVars
    <2> QED
      BY <2>1 DEF Undisturbed
  <1>5. CASE TaskPrepare
    <2>1. PICK q \in Packets : pending' = <<q>> /\ q.number = prepared
      BY <1>5, PrepareIs
    <2>2. /\ UNCHANGED <<chan, thread, thrown, emitted, api, base>>
          /\ task = "fill" /\ firstSent' = TRUE
          /\ unmarked = {} /\ (state = "Paused" => firstSent)
          /\ state' = IF state = "Buffering" THEN "Streaming" ELSE state
      BY <1>5, PrepareIs DEF threadVars, apiVars, TypeOK
    <2>3. ~Awaited
      BY <2>2, AtMostOne DEF Awaited
    <2>4. ~firstSent => Awaited'
      <3>1. DOMAIN pending' = {1} /\ pending'[1].number = prepared
        BY <2>1
      <3>2. ~firstSent => prepared = base
        BY <1>n DEF Started
      <3> QED
        BY <2>2, <3>1, <3>2 DEF Awaited, Waiting
    <2>5. firstSent => \A i \in DOMAIN chan' :
             chan'[i] = Resume => \E j \in DOMAIN chan' : j > i /\ BaseAt(j)'
      BY <2>2, <2>3 DEF Undisturbed, BaseAt
    <2> QED
      BY <2>2, <2>4, <2>5 DEF Undisturbed
  <1>6. CASE TaskSent
    <2>1. /\ UNCHANGED <<state, api, firstSent, base, thrown, emitted, thread, unmarked>>
          /\ task = "send"
      BY <1>6 DEF TaskSent, streamVars, apiVars, threadVars
    <2>2. /\ \A i \in DOMAIN chan : i \in DOMAIN chan' /\ chan'[i] = chan[i] /\ i < Len(chan) + 1
          /\ \A i \in DOMAIN chan' : i \notin DOMAIN chan => chan'[i] = pending[1]
          /\ Len(chan) + 1 \in DOMAIN chan' /\ chan'[Len(chan) + 1] = pending[1]
      BY <1>6, SentQueued
    <2>3. /\ pending[1] \in Packets /\ pending[1] # Resume
          /\ Awaited => pending[1].number = base
      BY <2>1, AtMostOne, Kinds DEF Awaited, Messages
    <2>n. PICK last \in Nat : last = Len(chan) + 1
      BY Elements DEF TypeOK
    <2>4. Awaited => BaseAt(last)'
      BY <2>1, <2>2, <2>3, <2>n DEF BaseAt
    <2>5. \A j \in DOMAIN chan : BaseAt(j) => BaseAt(j)'
      BY <2>1, <2>2 DEF BaseAt
    <2>6. ASSUME NEW i \in DOMAIN chan', chan'[i] = Resume, firstSent
          PROVE  \E j \in DOMAIN chan' : j > i /\ BaseAt(j)'
      <3>1. i \in DOMAIN chan /\ chan[i] = Resume
        BY <2>2, <2>3, <2>6
      <3>2. CASE Awaited
        <4>1. i < last /\ i \in Nat
          BY <2>2, <2>n, <3>1, Elements DEF TypeOK
        <4> QED
          BY <2>2, <2>4, <2>n, <3>2, <4>1
      <3>3. CASE \E j \in DOMAIN chan : j > i /\ BaseAt(j)
        BY <2>2, <2>5, <3>3
      <3> QED
        BY <2>1, <2>6, <3>1, <3>2, <3>3 DEF Undisturbed
    <2> QED
      BY <2>1, <2>6 DEF Undisturbed
  <1>7. CASE ThreadReceive \/ ThreadPaused
    <2>1. /\ UNCHANGED <<state, api, firstSent, base, pending, emitted, unmarked>>
          /\ chan # <<>> /\ chan' = Tail(chan)
      BY <1>7 DEF ThreadReceive, ThreadPaused, streamVars, taskVars, apiVars
    <2>2. /\ Head(chan) = chan[1] /\ chan[1] \in Messages /\ 1 \in DOMAIN chan
          /\ \A i \in DOMAIN chan' : i + 1 \in DOMAIN chan /\ i \in Nat /\ chan'[i] = chan[i + 1]
          /\ \A i \in DOMAIN chan : i # 1 => i - 1 \in DOMAIN chan' /\ chan'[i - 1] = chan[i]
      BY <2>1, HeadQueued
    <2>3. Awaited' = Awaited
      BY <2>1 DEF Awaited, Waiting
    <2>4. ASSUME firstSent, NEW i \in DOMAIN chan', chan'[i] = Resume, ~Awaited
          PROVE  \E j \in DOMAIN chan' : j > i /\ BaseAt(j)'
      <3>1. i + 1 \in DOMAIN chan /\ chan[i + 1] = Resume /\ i \in Nat
        BY <2>2, <2>4
      <3>2. PICK j \in DOMAIN chan : j > i + 1 /\ BaseAt(j)
        BY <2>1, <2>4, <3>1 DEF Undisturbed
      <3>3. j \in Nat /\ j # 1 /\ j - 1 > i
        BY <3>1, <3>2, Elements DEF TypeOK
      <3>4. j - 1 \in DOMAIN chan' /\ chan'[j - 1] = chan[j]
        BY <2>2, <3>3
      <3>5. BaseAt(j - 1)'
        BY <2>1, <3>2, <3>4 DEF BaseAt
      <3> QED
        BY <3>3, <3>4, <3>5
    <2>5. ASSUME base \in thrown'
          PROVE  thread' = "paused" /\ \A p \in emitted' : p.number < base
      <3>1. CASE base \in thrown
        <4>1. thread = "paused" /\ \A p \in emitted : p.number < base
          BY <2>1, <3>1 DEF Undisturbed
        <4>2. ThreadPaused
          BY <1>7, <4>1 DEF ThreadReceive
        <4>3. chan[1] # Resume
          <5>1. base \in Handled /\ firstSent
            BY <1>n, <3>1 DEF Started
          <5>2. ~Awaited /\ \A j \in DOMAIN chan : ~BaseAt(j)
            <6>1. ~Awaited
              BY <1>n, <5>1 DEF Awaited, InLine
            <6> QED
              BY <3>1, <6>1, BehindTheHead
          <5> QED
            BY <2>1, <2>2, <5>1, <5>2 DEF Undisturbed
        <4> QED
          BY <2>1, <2>2, <4>1, <4>2, <4>3 DEF ThreadPaused
      <3>2. CASE base \notin thrown
        <4>1. ThreadPaused /\ chan[1].kind = "Packet" /\ base = chan[1].number
          BY <1>7, <2>2, <2>5, <3>2 DEF ThreadReceive, ThreadPaused
        <4>2. chan[1] \in Packets /\ chan[1] # Resume /\ thread = "paused"
          BY <2>2, <4>1, Kinds DEF ThreadPaused
        <4>3. base \in Queued
          BY <2>2, <4>1, <4>2 DEF Queued
        <4>4. \A p \in emitted : p.number < base
          BY <4>3 DEF InLine, Handled
        <4> QED
          BY <2>1, <2>2, <4>1, <4>2, <4>4 DEF ThreadPaused
      <3> QED
        BY <3>1, <3>2
    <2> QED
      BY <2>1, <2>3, <2>4, <2>5 DEF Undisturbed
  <1>8. CASE ThreadEmit
    <2>1. /\ UNCHANGED <<state, api, firstSent, base, pending, chan, thrown, unmarked>>
          /\ thread = "emit"
      BY <1>8 DEF ThreadEmit, streamVars, taskVars, apiVars
    <2>2. base \notin thrown
      BY <2>1 DEF Undisturbed
    <2> QED
      BY <2>1, <2>2 DEF Undisturbed, Awaited, Waiting, BaseAt
  <1>9. CASE UNCHANGED <<api, firstSent, base, pending, chan, thrown, unmarked, thread, emitted>>
             /\ (state' = state \/ state' = "Buffering")
    BY <1>9 DEF Undisturbed, Awaited, Waiting, BaseAt
  <1> QED
    BY <1>1, <1>2, <1>3, <1>4, <1>5, <1>6, <1>7, <1>8, <1>9
    DEF Next, vars, streamVars, taskVars, threadVars, apiVars, TaskCheck, TaskWait,
        TaskUnderrun, Retransmit

\* The marker is on the first packet the receivers are sent after a flush, because what was
\* emitted since starts with `base': the thread takes packets in order, and unless the
\* restart was disturbed it has not thrown `base' away and emitted a later one.
LEMMA MarkedFirst ==
  ASSUME TypeOK, InLine, Started, Undisturbed
  PROVE  FlushIsMarked
  <1> SUFFICES ASSUME unmarked = {}, NEW p \in emitted, p.number >= base
               PROVE  \E first \in emitted :
                        /\ base <= first.number /\ first.number <= p.number
                        /\ first.marker /\ (syncing => first.restart)
    BY DEF FlushIsMarked
  <1>1. p \in Made /\ p.number \in Handled
    BY DEF Made, Handled
  <1>2. /\ base \in Nat /\ prepared \in Nat /\ p.number \in Nat /\ p.number < prepared
        /\ base <= p.number
    BY <1>1, MadeInLine DEF TypeOK
  <1>3. base \in Handled
    <2>1. base \in Handled \cup Held \cup Queued \cup Waiting
      BY <1>2 DEF InLine
    <2>2. base \notin Held \cup Queued \cup Waiting
      BY <1>1, <1>2 DEF InLine
    <2> QED
      BY <2>1, <2>2
  <1>4. base \notin thrown
    BY <1>2 DEF Undisturbed
  <1>5. PICK first \in emitted : first.number = base
    BY <1>3, <1>4 DEF Handled
  <1>6. first.marker /\ (syncing => first.restart)
    BY <1>5 DEF Started, Made
  <1> QED
    BY <1>2, <1>5, <1>6

\* After a flush the receivers are told to start over before they are sent anything that was
\* prepared since, except for the two ways in which the packet that says so is thrown away.
THEOREM StartsOver == Spec => []FlushIsMarked
  <1>1. Init => Started /\ Undisturbed
    <2>1. ASSUME Init PROVE Started /\ Undisturbed
      <3>1. DOMAIN held = {} /\ DOMAIN chan = {} /\ DOMAIN pending = {} /\ emitted = {} /\ thrown = {}
        BY <2>1 DEF Init
      <3>2. Made = {}
        BY <3>1 DEF Made, InChan
      <3> QED
        BY <2>1, <3>1, <3>2 DEF Init, Started, Undisturbed
    <2> QED
      BY <2>1
  <1>2. TypeOK /\ InLine /\ Started /\ Undisturbed /\ [Next]_vars => (Started /\ Undisturbed)'
    BY StartedStep, UndisturbedStep
  <1>3. TypeOK /\ InLine /\ Started /\ Undisturbed => FlushIsMarked
    BY MarkedFirst
  <1> QED
    BY <1>1, <1>2, <1>3, AlwaysInLine, PTL DEF Spec


-----------------------------------------------------------------------------
(* The decoder: sequences of sequences, made into one. *)

Sample == Nat

LEMMA Least ==
  ASSUME NEW T, T \subseteq Nat, T # {}
  PROVE  \E m \in T : \A n \in T : m <= n
  <1> DEFINE R == OpToRel(<, Nat)
  <1>1. IsWellFoundedOn(R, Nat)
    BY NatLessThanWellFounded
  <1>2. \A x \in Nat, y \in Nat : y < x => <<y, x>> \in R
    BY DEF OpToRel
  <1> HIDE DEF R
  <1>3. \E x \in T : \A y \in T : ~(<<y, x>> \in R)
    BY <1>1, WFMin
  <1>4. PICK m \in T : \A y \in T : ~(<<y, m>> \in R)
    BY <1>3
  <1>5. \A n \in T : ~(n < m)
    BY <1>2, <1>4
  <1> QED
    BY <1>4, <1>5

\* What FlattenSeq computes of a sequence of sequences: its prefixes, one after the other.
LEMMA FlattenIs ==
  ASSUME NEW n \in Nat, n > 0, NEW B \in [1 .. n -> Seq(Sample)]
  PROVE  \E f \in [1 .. n -> Seq(Sample)] :
           /\ \A i \in 1 .. n : f[i] = IF i = 1 THEN B[i] ELSE f[i - 1] \o B[i]
           /\ FlattenSeq(B) = f[n]
  <1> DEFINE Fits(k, g) == \A i \in 1 .. k : g[i] = IF i = 1 THEN B[i] ELSE g[i - 1] \o B[i]
             T == {k \in 1 .. n : ~ \E g \in [1 .. k -> Seq(Sample)] : Fits(k, g)}
             flatten == CHOOSE g : g = [i \in 1 .. n |-> IF i = 1 THEN B[i] ELSE g[i - 1] \o B[i]]
  <1>1. T = {}
    <2> SUFFICES ASSUME T # {} PROVE FALSE
      OBVIOUS
    <2>0. T \subseteq Nat
      OBVIOUS
    <2>1. PICK m \in T : \A k \in T : m <= k
      <3> HIDE DEF T
      <3> QED
        BY <2>0, Least
    <2>2. m \in 1 .. n /\ ~ \E g \in [1 .. m -> Seq(Sample)] : Fits(m, g)
      OBVIOUS
    <2>3. CASE m = 1
      <3> DEFINE h == [i \in 1 .. 1 |-> B[1]]
      <3>1. h \in [1 .. m -> Seq(Sample)] /\ Fits(m, h)
        BY <2>3
      <3> QED
        BY <2>2, <3>1
    <2>4. CASE m > 1
      <3>1. m - 1 \in 1 .. n /\ m - 1 \notin T
        <4> HIDE DEF T
        <4> QED
          BY <2>1, <2>2, <2>4
      <3>2. PICK g \in [1 .. m - 1 -> Seq(Sample)] : Fits(m - 1, g)
        BY <3>1
      <3> DEFINE h == [i \in 1 .. m |-> IF i = m THEN g[m - 1] \o B[m] ELSE g[i]]
      <3>3. \A i \in 1 .. m : i = m \/ i \in 1 .. m - 1
        BY <2>2
      <3>4. h \in [1 .. m -> Seq(Sample)]
        <4>1. g[m - 1] \o B[m] \in Seq(Sample)
          BY <2>2, <2>4, <3>2
        <4> QED
          BY <3>2, <3>3, <4>1
      <3>5. Fits(m, h)
        <4>1. ASSUME NEW i \in 1 .. m
              PROVE  h[i] = IF i = 1 THEN B[i] ELSE h[i - 1] \o B[i]
          <5>1. CASE i = m
            <6>1. m - 1 \in 1 .. m /\ m - 1 # m /\ i # 1
              BY <2>2, <2>4, <5>1
            <6>2. h[i - 1] = g[m - 1] /\ h[i] = g[m - 1] \o B[m]
              BY <5>1, <6>1
            <6> QED
              BY <5>1, <6>1, <6>2
          <5>2. CASE i \in 1 .. m - 1 /\ i # m
            <6>1. g[i] = IF i = 1 THEN B[i] ELSE g[i - 1] \o B[i]
              BY <3>2, <5>2
            <6>2. h[i] = g[i] /\ (i # 1 => h[i - 1] = g[i - 1])
              BY <2>2, <5>2
            <6> QED
              BY <6>1, <6>2
          <5> QED
            BY <3>3, <5>1, <5>2
        <4> QED
          BY <4>1
      <3> QED
        BY <2>2, <3>4, <3>5
    <2> QED
      BY <2>2, <2>3, <2>4
  <1>2. PICK g \in [1 .. n -> Seq(Sample)] : Fits(n, g)
    <2>1. n \in 1 .. n
      OBVIOUS
    <2> QED
      BY <1>1, <2>1
  <1>3. g = [i \in 1 .. n |-> IF i = 1 THEN B[i] ELSE g[i - 1] \o B[i]]
    BY <1>2
  <1>4. flatten = [i \in 1 .. n |-> IF i = 1 THEN B[i] ELSE flatten[i - 1] \o B[i]]
    BY <1>3
  <1>5. Len(B) = n
    OBVIOUS
  <1>6. FlattenSeq(B) = flatten[n]
    BY <1>5 DEF FlattenSeq
  <1>7. flatten \in [1 .. n -> Seq(Sample)]
    <2> HIDE DEF flatten
    <2> DEFINE U == {i \in 1 .. n : flatten[i] \notin Seq(Sample)}
    <2>1. U = {}
      <3> SUFFICES ASSUME U # {} PROVE FALSE
        OBVIOUS
      <3>1. U \subseteq Nat
        OBVIOUS
      <3>2. PICK m \in U : \A k \in U : m <= k
        <4> HIDE DEF U
        <4> QED
          BY <3>1, Least
      <3>3. m \in 1 .. n /\ flatten[m] \notin Seq(Sample)
        OBVIOUS
      <3>4. flatten[m] = IF m = 1 THEN B[m] ELSE flatten[m - 1] \o B[m]
        BY <1>4, <3>3
      <3>5. m # 1 => m - 1 \in 1 .. n /\ m - 1 \notin U
        <4> HIDE DEF U
        <4> QED
          BY <3>2, <3>3
      <3>6. m # 1 => flatten[m - 1] \in Seq(Sample)
        BY <3>5
      <3> QED
        BY <3>3, <3>4, <3>6
    <2> QED
      BY <1>4, <2>1
  <1> QED
    BY <1>4, <1>6, <1>7

GoAlike(k, f, g) == \A i \in 1 .. k : i = 1 \/ f[i - 1] = g[i - 1] => f[i] = g[i]
Alike(k, f, g)   == \A i \in 1 .. k : f[i] = g[i]

\* Two that begin alike and go on alike are alike.
LEMMA SameSteps ==
  ASSUME NEW k \in Nat, NEW f, NEW g, GoAlike(k, f, g)
  PROVE  Alike(k, f, g)
  <1> DEFINE T == {i \in 1 .. k : f[i] # g[i]}
  <1> SUFFICES ASSUME T # {} PROVE FALSE
    BY DEF Alike
  <1>1. T \subseteq Nat
    OBVIOUS
  <1>2. PICK m \in T : \A i \in T : m <= i
    <2> HIDE DEF T
    <2> QED
      BY <1>1, Least
  <1>3. m \in 1 .. k /\ f[m] # g[m]
    OBVIOUS
  <1>4. m # 1 => m - 1 \in 1 .. k /\ m - 1 \notin T
    <2> HIDE DEF T
    <2> QED
      BY <1>2, <1>3
  <1>5. m # 1 => f[m - 1] = g[m - 1]
    BY <1>4
  <1> QED
    BY <1>3, <1>5 DEF GoAlike

\* U has one more than S.
LEMMA Longer ==
  ASSUME NEW n \in Nat, n > 0, NEW S \in [1 .. n -> Seq(Sample)], NEW U \in [1 .. n + 1 -> Seq(Sample)],
         \A i \in 1 .. n : U[i] = S[i]
  PROVE  FlattenSeq(S) \in Seq(Sample) /\ FlattenSeq(U) = FlattenSeq(S) \o U[n + 1]
  <1>1. PICK f \in [1 .. n -> Seq(Sample)] :
          /\ \A i \in 1 .. n : f[i] = IF i = 1 THEN S[i] ELSE f[i - 1] \o S[i]
          /\ FlattenSeq(S) = f[n]
    BY FlattenIs
  <1>2. PICK g \in [1 .. n + 1 -> Seq(Sample)] :
          /\ \A i \in 1 .. n + 1 : g[i] = IF i = 1 THEN U[i] ELSE g[i - 1] \o U[i]
          /\ FlattenSeq(U) = g[n + 1]
    <2>1. n + 1 \in Nat /\ n + 1 > 0
      OBVIOUS
    <2> QED
      BY <2>1, FlattenIs
  <1>3. \A i \in 1 .. n : i \in 1 .. n + 1
    OBVIOUS
  <1>4. \A i \in 1 .. n : g[i] = IF i = 1 THEN S[i] ELSE g[i - 1] \o S[i]
    BY <1>2, <1>3
  <1>5. \A i \in 1 .. n : i = 1 \/ f[i - 1] = g[i - 1] => f[i] = g[i]
    <2>1. ASSUME NEW i \in 1 .. n, i = 1 \/ f[i - 1] = g[i - 1]
          PROVE  f[i] = g[i]
      <3>1. f[i] = IF i = 1 THEN S[i] ELSE f[i - 1] \o S[i]
        BY <1>1
      <3>2. g[i] = IF i = 1 THEN S[i] ELSE g[i - 1] \o S[i]
        BY <1>4
      <3> QED
        BY <2>1, <3>1, <3>2
    <2> QED
      BY <2>1
  <1>6. \A i \in 1 .. n : f[i] = g[i]
    <2>1. GoAlike(n, f, g)
      BY <1>5 DEF GoAlike
    <2>2. Alike(n, f, g)
      BY <2>1, SameSteps
    <2> QED
      BY <2>2 DEF Alike
  <1>7. n + 1 \in 1 .. n + 1 /\ n + 1 # 1 /\ (n + 1) - 1 = n /\ n \in 1 .. n
    OBVIOUS
  <1>8. g[n + 1] = g[n] \o U[n + 1]
    BY <1>2, <1>7
  <1>9. f[n] \in Seq(Sample) /\ f[n] = g[n]
    BY <1>1, <1>6, <1>7
  <1> QED
    BY <1>1, <1>2, <1>8, <1>9

\* One alone is itself.
LEMMA OneAlone ==
  ASSUME NEW U \in [1 .. 1 -> Seq(Sample)]
  PROVE  FlattenSeq(U) = U[1]
  <1>1. 1 \in Nat /\ 1 > 0 /\ 1 \in 1 .. 1
    OBVIOUS
  <1>2. PICK g \in [1 .. 1 -> Seq(Sample)] :
          /\ \A i \in 1 .. 1 : g[i] = IF i = 1 THEN U[i] ELSE g[i - 1] \o U[i]
          /\ FlattenSeq(U) = g[1]
    BY <1>1, FlattenIs
  <1> QED
    BY <1>1, <1>2

\* A queue as a function, with one more at the back or one less at the front.
LEMMA QueueIs ==
  ASSUME NEW Q, NEW S \in Seq(Q)
  PROVE  Len(S) \in Nat /\ S \in [1 .. Len(S) -> Q]
  OBVIOUS

LEMMA AppendIs ==
  ASSUME NEW Q, NEW S \in Seq(Q), NEW b \in Q
  PROVE  /\ Append(S, b) \in Seq(Q) /\ Len(Append(S, b)) = Len(S) + 1
         /\ Append(S, b)[Len(S) + 1] = b
         /\ \A i \in 1 .. Len(S) : Append(S, b)[i] = S[i]
  OBVIOUS

LEMMA TailIs ==
  ASSUME NEW Q, NEW S \in Seq(Q), S # <<>>
  PROVE  /\ Len(S) > 0 /\ Head(S) = S[1] /\ S[1] \in Q
         /\ Tail(S) \in Seq(Q) /\ Len(Tail(S)) = Len(S) - 1
         /\ \A i \in 1 .. Len(S) - 1 : Tail(S)[i] = S[i + 1]
  OBVIOUS

\* It grows at the back.
LEMMA FlattenAppend ==
  ASSUME NEW S \in Seq(Seq(Sample)), NEW b \in Seq(Sample)
  PROVE  FlattenSeq(S) \in Seq(Sample) /\ FlattenSeq(Append(S, b)) = FlattenSeq(S) \o b
  <1> DEFINE n == Len(S)
             U == Append(S, b)
  <1>1. /\ n \in Nat /\ S \in [1 .. n -> Seq(Sample)]
        /\ U \in [1 .. n + 1 -> Seq(Sample)] /\ Len(U) = n + 1
        /\ U[n + 1] = b /\ \A i \in 1 .. n : U[i] = S[i]
    <2> DEFINE Q == Seq(Sample)
    <2>1. S \in Seq(Q) /\ b \in Q
      OBVIOUS
    <2> HIDE DEF Q
    <2>2. n \in Nat /\ S \in [1 .. n -> Q]
      BY <2>1, QueueIs
    <2>3. U \in Seq(Q) /\ Len(U) = n + 1 /\ U[n + 1] = b /\ \A i \in 1 .. n : U[i] = S[i]
      BY <2>1, AppendIs
    <2> HIDE DEF U
    <2>4. U \in [1 .. n + 1 -> Q]
      BY <2>3, QueueIs
    <2> QED
      BY <2>2, <2>3, <2>4 DEF Q
  <1> HIDE DEF U
  <1>3. CASE n = 0
    <2>1. FlattenSeq(U) = b
      <3>1. n + 1 = 1
        BY <1>3
      <3>2. U \in [1 .. 1 -> Seq(Sample)] /\ U[1] = b
        BY <1>1, <3>1
      <3> QED
        BY <3>2, OneAlone
    <2>2. FlattenSeq(S) = <<>> /\ S = <<>>
      BY <1>1, <1>3 DEF FlattenSeq
    <2>3. <<>> \o b = b
      OBVIOUS
    <2> QED
      BY <2>1, <2>2, <2>3 DEF U
  <1>4. CASE n > 0
    <2>1. FlattenSeq(S) \in Seq(Sample) /\ FlattenSeq(U) = FlattenSeq(S) \o U[n + 1]
      BY <1>1, <1>4, Longer
    <2> QED
      BY <1>1, <2>1 DEF U
  <1> QED
    BY <1>1, <1>3, <1>4

LEMMA Associative ==
  ASSUME NEW s \in Seq(Sample), NEW t \in Seq(Sample), NEW u \in Seq(Sample)
  PROVE  (s \o t) \o u = s \o (t \o u)
  OBVIOUS

\* It shrinks at the front.
LEMMA FlattenTail ==
  ASSUME NEW S \in Seq(Seq(Sample)), S # <<>>
  PROVE  FlattenSeq(S) = Head(S) \o FlattenSeq(Tail(S))
  <1> DEFINE n == Len(S)
             U == Tail(S)
  <1>1. /\ n \in Nat /\ n > 0 /\ S \in [1 .. n -> Seq(Sample)] /\ Head(S) = S[1] /\ S[1] \in Seq(Sample)
        /\ U \in [1 .. n - 1 -> Seq(Sample)] /\ Len(U) = n - 1 /\ n - 1 \in Nat
        /\ \A i \in 1 .. n - 1 : U[i] = S[i + 1]
    <2> DEFINE Q == Seq(Sample)
    <2>1. S \in Seq(Q)
      OBVIOUS
    <2> HIDE DEF Q
    <2>2. n \in Nat /\ S \in [1 .. n -> Q]
      BY <2>1, QueueIs
    <2>3. /\ n > 0 /\ Head(S) = S[1] /\ S[1] \in Q
          /\ U \in Seq(Q) /\ Len(U) = n - 1 /\ \A i \in 1 .. n - 1 : U[i] = S[i + 1]
      BY <2>1, TailIs
    <2> HIDE DEF U
    <2>4. U \in [1 .. n - 1 -> Q]
      BY <2>3, QueueIs
    <2> QED
      BY <2>2, <2>3, <2>4 DEF Q
  <1> HIDE DEF U
  <1>2. PICK f \in [1 .. n -> Seq(Sample)] :
          /\ \A i \in 1 .. n : f[i] = IF i = 1 THEN S[i] ELSE f[i - 1] \o S[i]
          /\ FlattenSeq(S) = f[n]
    BY <1>1, FlattenIs
  <1>3. CASE n = 1
    <2>1. FlattenSeq(S) = S[1]
      BY <1>1, <1>2, <1>3
    <2>2. FlattenSeq(U) = U /\ U = <<>>
      BY <1>1, <1>3 DEF FlattenSeq, U
    <2>3. S[1] \o <<>> = S[1]
      BY <1>1
    <2> QED
      BY <1>1, <2>1, <2>2, <2>3 DEF U
  <1>4. CASE n > 1
    <2>1. PICK g \in [1 .. n - 1 -> Seq(Sample)] :
            /\ \A i \in 1 .. n - 1 : g[i] = IF i = 1 THEN U[i] ELSE g[i - 1] \o U[i]
            /\ FlattenSeq(U) = g[n - 1]
      <3>1. n - 1 > 0
        BY <1>1, <1>4
      <3> QED
        BY <1>1, <3>1, FlattenIs
    <2> DEFINE T == {i \in 1 .. n - 1 : f[i + 1] # S[1] \o g[i]}
    <2>2. T = {}
      <3> SUFFICES ASSUME T # {} PROVE FALSE
        OBVIOUS
      <3>1. T \subseteq Nat
        OBVIOUS
      <3>2. PICK m \in T : \A i \in T : m <= i
        <4> HIDE DEF T
        <4> QED
          BY <3>1, Least
      <3>3. m \in 1 .. n - 1 /\ f[m + 1] # S[1] \o g[m]
        OBVIOUS
      <3>4. f[m + 1] = f[m] \o U[m]
        <4>1. m + 1 \in 1 .. n /\ m + 1 # 1 /\ (m + 1) - 1 = m
          BY <1>1, <3>3
        <4>2. f[m + 1] = f[(m + 1) - 1] \o S[m + 1]
          BY <1>2, <4>1
        <4> QED
          BY <1>1, <3>3, <4>1, <4>2
      <3>5. CASE m = 1
        <4>1. f[1] = S[1] /\ g[1] = U[1]
          BY <1>1, <1>2, <1>4, <2>1
        <4> QED
          BY <3>3, <3>4, <3>5, <4>1
      <3>6. CASE m # 1
        <4>1. m - 1 \in 1 .. n - 1 /\ m - 1 \notin T /\ (m - 1) + 1 = m
          <5> HIDE DEF T
          <5> QED
            BY <1>1, <3>2, <3>3, <3>6
        <4>2. f[m] = S[1] \o g[m - 1]
          BY <4>1
        <4>3. g[m] = g[m - 1] \o U[m]
          BY <2>1, <3>3, <3>6
        <4>4. g[m - 1] \in Seq(Sample) /\ U[m] \in Seq(Sample)
          BY <1>1, <2>1, <3>3, <4>1
        <4>5. (S[1] \o g[m - 1]) \o U[m] = S[1] \o (g[m - 1] \o U[m])
          BY <1>1, <4>4, Associative
        <4> QED
          BY <3>3, <3>4, <4>2, <4>3, <4>5
      <3> QED
        BY <3>5, <3>6
    <2>3. n - 1 \in 1 .. n - 1 /\ (n - 1) + 1 = n
      BY <1>1, <1>4
    <2>4. f[n] = S[1] \o g[n - 1]
      BY <2>2, <2>3
    <2> QED
      BY <1>1, <1>2, <2>1, <2>4 DEF U
  <1> QED
    BY <1>1, <1>3, <1>4

-----------------------------------------------------------------------------
(* What the steps do to the samples, written out one after the other. *)

Written(p, c, r, l) == p \o c \o r \o l
Joins(s, t, u)      == s \o t = u

LEMMA EmptyEnds ==
  ASSUME NEW s \in Seq(Sample)
  PROVE  s \o <<>> = s /\ <<>> \o s = s /\ <<>> \in Seq(Sample)
  OBVIOUS

LEMMA Closed ==
  ASSUME NEW s \in Seq(Sample), NEW t \in Seq(Sample)
  PROVE  s \o t \in Seq(Sample)
  OBVIOUS

\* What is kept between two calls and what a call has collected stand in the same place.
LEMMA WrittenKept ==
  ASSUME NEW p \in Seq(Sample), NEW c \in Seq(Sample), NEW l \in Seq(Sample)
  PROVE  Written(p, c, <<>>, l) = Written(p, <<>>, c, l)
  <1>1. p \o c \in Seq(Sample)
    BY Closed
  <1>2. p \o <<>> = p /\ (p \o c) \o <<>> = p \o c
    BY <1>1, EmptyEnds
  <1> QED
    BY <1>2 DEF Written

\* A frame that passes from the channel to the call stays in its place.
LEMMA WrittenTaken ==
  ASSUME NEW p \in Seq(Sample), NEW c \in Seq(Sample), NEW h \in Seq(Sample), NEW l \in Seq(Sample)
  PROVE  Written(p, c \o h, <<>>, l) = Written(p, c, <<>>, h \o l)
  <1>1. p \o c \in Seq(Sample) /\ c \o h \in Seq(Sample) /\ p \o (c \o h) \in Seq(Sample)
    BY Closed
  <1>2. (p \o c) \o <<>> = p \o c /\ (p \o (c \o h)) \o <<>> = p \o (c \o h)
    BY <1>1, EmptyEnds
  <1>3. p \o (c \o h) = (p \o c) \o h
    BY Associative
  <1>4. ((p \o c) \o h) \o l = (p \o c) \o (h \o l)
    BY <1>1, Associative
  <1> QED
    BY <1>2, <1>3, <1>4 DEF Written

\* A packet cut off the front of what was collected, too.
LEMMA WrittenCut ==
  ASSUME NEW p \in Seq(Sample), NEW a \in Seq(Sample), NEW b \in Seq(Sample), NEW l \in Seq(Sample),
         NEW c, Joins(a, b, c), NEW q, Joins(p, a, q)
  PROVE  Written(q, <<>>, b, l) = Written(p, c, <<>>, l)
  <1>1. q \in Seq(Sample) /\ c \in Seq(Sample) /\ p \o c \in Seq(Sample)
    BY Closed DEF Joins
  <1>2. q \o <<>> = q /\ (p \o c) \o <<>> = p \o c
    BY <1>1, EmptyEnds
  <1>3. (p \o a) \o b = p \o (a \o b)
    BY Associative
  <1>4. q \o b = p \o c
    BY <1>3 DEF Joins
  <1> QED
    BY <1>2, <1>4 DEF Written

LEMMA CutIs ==
  ASSUME NEW c \in Seq(Sample), NEW n \in Nat, n <= Len(c)
  PROVE  /\ SubSeq(c, 1, n) \in Seq(Sample) /\ Len(SubSeq(c, 1, n)) = n
         /\ SubSeq(c, n + 1, Len(c)) \in Seq(Sample)
         /\ SubSeq(c, 1, n) \o SubSeq(c, n + 1, Len(c)) = c
  <1> DEFINE a == SubSeq(c, 1, n)
             b == SubSeq(c, n + 1, Len(c))
  <1>1. a \in Seq(Sample) /\ Len(a) = n /\ \A i \in 1 .. n : a[i] = c[i]
    OBVIOUS
  <1>2. /\ b \in Seq(Sample) /\ Len(b) = Len(c) - n
        /\ \A i \in 1 .. Len(c) - n : b[i] = c[n + i]
    OBVIOUS
  <1> HIDE DEF a, b
  <1>3. a \o b \in Seq(Sample) /\ Len(a \o b) = Len(c)
    BY <1>1, <1>2
  <1>4. \A i \in 1 .. Len(c) : (a \o b)[i] = c[i]
    <2>1. ASSUME NEW i \in 1 .. Len(c)
          PROVE  (a \o b)[i] = c[i]
      <3>1. CASE i <= n
        <4>1. (a \o b)[i] = a[i] /\ i \in 1 .. n
          BY <1>1, <1>2, <3>1
        <4> QED
          BY <1>1, <4>1
      <3>2. CASE i > n
        <4>1. (a \o b)[i] = b[i - n] /\ i - n \in 1 .. Len(c) - n /\ n + (i - n) = i
          BY <1>1, <1>2, <3>2
        <4> QED
          BY <1>2, <4>1
      <3>3. i <= n \/ i > n
        <4>1. Len(c) \in Nat
          OBVIOUS
        <4>2. i \in Int
          BY <4>1
        <4> QED
          BY <4>2
      <3> QED
        BY <3>1, <3>2, <3>3, Zenon
    <2> QED
      BY <2>1
  <1>5. a \o b = c
    BY <1>3, <1>4, SeqEqual
  <1> QED
    BY <1>1, <1>2, <1>5 DEF a, b

LEMMA SamplesAre ==
  ASSUME NEW g \in Nat, NEW n \in Nat
  PROVE  /\ Samples(1, g) \in Seq(Sample) /\ Samples(g + 1, n) \in Seq(Sample)
         /\ Samples(1, g) \o Samples(g + 1, n) = Samples(1, g + n)
  BY DEF Samples, Sample

-----------------------------------------------------------------------------
(* The invariant. *)

\* Types; the channel and the packets hold sequences of samples.
Typed ==
  /\ given \in Nat /\ live \in Seq(Seq(Sample)) /\ packets \in Seq(Seq(Sample))
  /\ residual \in Seq(Sample) /\ collected \in Seq(Sample)
  /\ srcOpen \in BOOLEAN /\ eof \in BOOLEAN /\ decoding \in BOOLEAN

\* Samples are kept by the call that runs or else by the decoder, never by both.
OneKeeps ==
  /\ decoding => residual = <<>>
  /\ ~decoding => collected = <<>>

\* The end is noticed when nothing can come any more and no packet can be made of the rest.
AtTheEnd ==
  eof => /\ ~srcOpen /\ live = <<>>
         /\ Len(collected) < Target /\ Len(residual) < Target

Unbroken == Written(FlattenSeq(packets), collected, residual, FlattenSeq(live)) = Samples(1, given)

AllFull == \A i \in DOMAIN packets : Len(packets[i]) = Target

Inv == Typed /\ OneKeeps /\ AtTheEnd /\ Unbroken /\ AllFull

\* The invariant is more than the property.
LEMMA InvMeans == Inv => PacketsAreTheStream
  BY DEF Inv, AtTheEnd, Unbroken, AllFull, PacketsAreTheStream, Written

LEMMA Empty == <<>> \in Seq(Seq(Sample)) /\ FlattenSeq(<<>>) = <<>>
  <1>1. <<>> \in Seq(Seq(Sample))
    OBVIOUS
  <1>2. FlattenSeq(<<>>) = <<>>
    BY DEF FlattenSeq
  <1> QED
    BY <1>1, <1>2

LEMMA Flat == ASSUME NEW S \in Seq(Seq(Sample)) PROVE FlattenSeq(S) \in Seq(Sample)
  BY EmptyEnds, FlattenAppend

LEMMA InitInv == DecoderInit => Inv
  <1> SUFFICES ASSUME DecoderInit PROVE Inv
    OBVIOUS
  <1>1. Typed /\ OneKeeps /\ AtTheEnd /\ AllFull
    <2>1. Typed
      <3>1. <<>> \in Seq(Sample) /\ 0 \in Nat
        OBVIOUS
      <3>2. live \in Seq(Seq(Sample)) /\ packets \in Seq(Seq(Sample))
        BY Empty DEF DecoderInit
      <3>3. given \in Nat /\ residual \in Seq(Sample) /\ collected \in Seq(Sample)
        BY <3>1 DEF DecoderInit
      <3> QED
        BY <3>2, <3>3 DEF DecoderInit, Typed
    <2>2. OneKeeps /\ AtTheEnd /\ AllFull
      BY DEF DecoderInit, OneKeeps, AtTheEnd, AllFull
    <2> QED
      BY <2>1, <2>2
  <1>2. Written(<<>>, <<>>, <<>>, <<>>) = <<>> /\ Samples(1, 0) = <<>>
    BY EmptyEnds DEF Written, Samples
  <1> QED
    BY <1>1, <1>2, Empty DEF DecoderInit, Inv, Unbroken

-----------------------------------------------------------------------------
(* The steps. *)

\* One more at the back of the channel or the packets, one less at the front of the channel.
LEMMA BackIs ==
  ASSUME NEW S \in Seq(Seq(Sample)), NEW b \in Seq(Sample)
  PROVE  Append(S, b) \in Seq(Seq(Sample))
  OBVIOUS

LEMMA FrontIs ==
  ASSUME NEW S \in Seq(Seq(Sample)), S # <<>>
  PROVE  Head(S) \in Seq(Sample) /\ Tail(S) \in Seq(Seq(Sample))
  OBVIOUS

LEMMA SendInv == ASSUME Inv, NEW n \in FrameSizes, Send(n) PROVE Inv'
  <1> USE DEF Inv
  <1> DEFINE m == Samples(given + 1, n)
  <1>1. n \in Nat /\ given \in Nat
    BY SizesAssumption DEF Typed
  <1>2. /\ m \in Seq(Sample)
        /\ Samples(1, given) \o m = Samples(1, given + n)
    BY <1>1, SamplesAre
  <1>3. live' = Append(live, m) /\ given' = given + n
    BY DEF Send
  <1> HIDE DEF m
  <1>4. live \in Seq(Seq(Sample)) /\ packets \in Seq(Seq(Sample))
    BY DEF Typed
  <1>5. FlattenSeq(live') = FlattenSeq(live) \o m
    BY <1>2, <1>3, <1>4, FlattenAppend
  <1>6. Typed'
    <2>1. live' \in Seq(Seq(Sample))
      BY <1>2, <1>3, <1>4, BackIs
    <2> QED
      BY <1>1, <1>3, <2>1 DEF Typed, Send, decoder
  <1>7. OneKeeps' /\ AtTheEnd' /\ AllFull'
    BY DEF OneKeeps, AtTheEnd, AllFull, Send, decoder
  <1>8. Unbroken'
    <2>1. FlattenSeq(live) \in Seq(Sample) /\ FlattenSeq(packets) \in Seq(Sample)
      BY <1>4, Flat
    <2>2. residual \in Seq(Sample) /\ collected \in Seq(Sample)
      BY DEF Typed
    <2>3. packets' = packets /\ collected' = collected /\ residual' = residual
      BY DEF Send, decoder
    <2> DEFINE p == FlattenSeq(packets) \o collected \o residual
               l == FlattenSeq(live)
    <2>4. p \in Seq(Sample) /\ l \in Seq(Sample) /\ m \in Seq(Sample)
      BY <1>2, <2>1, <2>2, Closed
    <2>5. p \o l = Samples(1, given)
      BY DEF Unbroken, Written
    <2> HIDE DEF p, l
    <2>6. (p \o l) \o m = p \o (l \o m)
      BY <2>4, Associative
    <2>7. p \o (l \o m) = Samples(1, given + n)
      BY <1>2, <2>5, <2>6
    <2> QED
      BY <1>3, <1>5, <2>3, <2>7 DEF Unbroken, Written, p, l
  <1> QED
    BY <1>6, <1>7, <1>8

LEMMA CloseSourceInv == ASSUME Inv, CloseSource PROVE Inv'
  BY DEF Inv, CloseSource, decoder, Typed, OneKeeps, AtTheEnd, AllFull, Unbroken

LEMMA DecodeInv == ASSUME Inv, Decode PROVE Inv'
  <1> USE DEF Inv
  <1>1. Typed' /\ OneKeeps' /\ AtTheEnd' /\ AllFull'
    <2>1. Typed'
      BY EmptyEnds DEF Typed, Decode, source
    <2>2. OneKeeps' /\ AllFull'
      BY DEF OneKeeps, AllFull, Decode
    <2>3. AtTheEnd'
      BY SizesAssumption DEF AtTheEnd, Decode, source
    <2> QED
      BY <2>1, <2>2, <2>3
  <1>2. Unbroken'
    <2>1. /\ FlattenSeq(live) \in Seq(Sample) /\ FlattenSeq(packets) \in Seq(Sample)
          /\ residual \in Seq(Sample)
      BY Flat DEF Typed
    <2>2. collected = <<>> /\ collected' = residual /\ residual' = <<>>
      BY DEF OneKeeps, Decode
    <2>3. live' = live /\ packets' = packets /\ given' = given
      BY DEF Decode, source
    <2>4. Written(FlattenSeq(packets), residual, <<>>, FlattenSeq(live))
            = Written(FlattenSeq(packets), <<>>, residual, FlattenSeq(live))
      BY <2>1, WrittenKept
    <2> QED
      BY <2>2, <2>3, <2>4 DEF Unbroken
  <1> QED
    BY <1>1, <1>2

LEMMA ReceiveInv == ASSUME Inv, Receive PROVE Inv'
  <1> USE DEF Inv
  <1>1. live \in Seq(Seq(Sample)) /\ packets \in Seq(Seq(Sample)) /\ collected \in Seq(Sample)
    BY DEF Typed
  <1>2. live # <<>> /\ live' = Tail(live) /\ collected' = collected \o Head(live)
    BY DEF Receive
  <1>3. Head(live) \in Seq(Sample) /\ Tail(live) \in Seq(Seq(Sample))
    BY <1>1, <1>2, FrontIs
  <1>4. UNCHANGED <<given, srcOpen, eof, residual, decoding, packets>>
    BY DEF Receive, source
  <1>5. Typed'
    <2>1. collected' \in Seq(Sample)
      BY <1>1, <1>2, <1>3, Closed
    <2> QED
      BY <1>2, <1>3, <1>4, <2>1 DEF Typed
  <1>6. OneKeeps' /\ AtTheEnd' /\ AllFull'
    BY <1>4 DEF OneKeeps, AtTheEnd, AllFull, Receive, Short
  <1>7. Unbroken'
    <2>1. FlattenSeq(packets) \in Seq(Sample) /\ FlattenSeq(Tail(live)) \in Seq(Sample)
      BY <1>1, <1>3, Flat
    <2>2. FlattenSeq(live) = Head(live) \o FlattenSeq(Tail(live))
      BY <1>1, <1>2, FlattenTail
    <2>3. residual = <<>>
      BY DEF OneKeeps, Receive, Short
    <2>4. Written(FlattenSeq(packets), collected \o Head(live), <<>>, FlattenSeq(Tail(live)))
            = Written(FlattenSeq(packets), collected, <<>>, Head(live) \o FlattenSeq(Tail(live)))
      BY <1>1, <1>3, <2>1, WrittenTaken
    <2> QED
      BY <1>2, <1>4, <2>2, <2>3, <2>4 DEF Unbroken
  <1> QED
    BY <1>5, <1>6, <1>7

LEMMA YieldNothingInv == ASSUME Inv, YieldNothing PROVE Inv'
  <1> USE DEF Inv
  <1>1. /\ residual = <<>> /\ residual' = collected /\ collected' = <<>> /\ ~decoding'
        /\ eof' = (eof \/ ~srcOpen) /\ UNCHANGED <<given, srcOpen, live, packets>>
    BY DEF OneKeeps, YieldNothing, Short, source
  <1>2. Typed'
    BY <1>1, EmptyEnds DEF Typed, YieldNothing
  <1>3. OneKeeps' /\ AllFull'
    BY <1>1 DEF OneKeeps, AllFull
  <1>4. AtTheEnd'
    BY <1>1, SizesAssumption DEF Typed, AtTheEnd, YieldNothing, Short
  <1>5. Unbroken'
    <2>1. /\ FlattenSeq(live) \in Seq(Sample) /\ FlattenSeq(packets) \in Seq(Sample)
          /\ collected \in Seq(Sample)
      BY Flat DEF Typed
    <2>2. Written(FlattenSeq(packets), collected, <<>>, FlattenSeq(live))
            = Written(FlattenSeq(packets), <<>>, collected, FlattenSeq(live))
      BY <2>1, WrittenKept
    <2> QED
      BY <1>1, <2>2 DEF Unbroken
  <1> QED
    BY <1>2, <1>3, <1>4, <1>5

LEMMA YieldPacketInv == ASSUME Inv, YieldPacket PROVE Inv'
  <1> USE DEF Inv
  <1> DEFINE a == SubSeq(collected, 1, Target)
             b == SubSeq(collected, Target + 1, Len(collected))
  <1>1. /\ live \in Seq(Seq(Sample)) /\ packets \in Seq(Seq(Sample)) /\ collected \in Seq(Sample)
        /\ Target \in Nat
    BY SizesAssumption DEF Typed
  <1>2. Target <= Len(collected)
    BY <1>1 DEF YieldPacket, Short
  <1>3. a \in Seq(Sample) /\ Len(a) = Target /\ b \in Seq(Sample) /\ a \o b = collected
    BY <1>1, <1>2, CutIs
  <1>4. /\ packets' = Append(packets, a) /\ residual' = b /\ residual = <<>>
        /\ collected' = <<>> /\ ~decoding' /\ decoding' \in BOOLEAN
        /\ UNCHANGED <<given, srcOpen, live, eof>>
    BY DEF YieldPacket, OneKeeps, source
  <1> HIDE DEF a, b
  <1>5. Typed'
    <2>1. packets' \in Seq(Seq(Sample))
      BY <1>1, <1>3, <1>4, BackIs
    <2> QED
      BY <1>3, <1>4, <2>1, EmptyEnds DEF Typed
  <1>6. OneKeeps'
    BY <1>4 DEF OneKeeps
  <1>7. AtTheEnd'
    BY <1>1, <1>2, <1>4 DEF AtTheEnd
  <1>8. AllFull'
    <2> DEFINE Q == Seq(Sample)
    <2>1. packets \in Seq(Q) /\ a \in Q
      BY <1>1, <1>3
    <2> HIDE DEF Q
    <2>2. /\ DOMAIN packets = 1 .. Len(packets)
          /\ DOMAIN Append(packets, a) = 1 .. Len(packets) + 1 /\ Len(packets) \in Nat
      BY <2>1, QueueIs, AppendIs
    <2>3. /\ Append(packets, a)[Len(packets) + 1] = a
          /\ \A i \in 1 .. Len(packets) : Append(packets, a)[i] = packets[i]
      BY <2>1, AppendIs
    <2> QED
      BY <1>3, <1>4, <2>2, <2>3 DEF AllFull
  <1>9. Unbroken'
    <2>1. FlattenSeq(live) \in Seq(Sample) /\ FlattenSeq(packets) \in Seq(Sample)
      BY <1>1, Flat
    <2>2. FlattenSeq(packets') = FlattenSeq(packets) \o a
      BY <1>1, <1>3, <1>4, FlattenAppend
    <2> DEFINE p == FlattenSeq(packets)
               l == FlattenSeq(live)
               q == FlattenSeq(packets')
    <2>3. a \in Seq(Sample) /\ b \in Seq(Sample) /\ Joins(a, b, collected)
      BY <1>3 DEF Joins
    <2>4. p \in Seq(Sample) /\ l \in Seq(Sample) /\ Joins(p, a, q)
      BY <2>1, <2>2 DEF Joins
    <2>5. Written(p, collected, <<>>, l) = Samples(1, given)
      BY <1>4 DEF Unbroken
    <2> HIDE DEF p, l, q, Inv
    <2>6. Written(q, <<>>, b, l) = Written(p, collected, <<>>, l)
      BY <2>3, <2>4, WrittenCut
    <2> QED
      BY <1>4, <2>5, <2>6 DEF Unbroken, l, q
  <1> QED
    BY <1>5, <1>6, <1>7, <1>8, <1>9

LEMMA StepInv == Inv /\ [DecoderNext]_decoderVars => Inv'
  <1> SUFFICES ASSUME Inv, [DecoderNext]_decoderVars PROVE Inv'
    OBVIOUS
  <1>1. CASE UNCHANGED decoderVars
    BY <1>1 DEF decoderVars, source, decoder, Inv, Typed, OneKeeps, AtTheEnd, AllFull, Unbroken
  <1>2. CASE \E n \in FrameSizes : Send(n)
    BY <1>2, SendInv
  <1>3. CASE CloseSource
    BY <1>3, CloseSourceInv
  <1>4. CASE Decode
    BY <1>4, DecodeInv
  <1>5. CASE Receive
    BY <1>5, ReceiveInv
  <1>6. CASE YieldNothing
    BY <1>6, YieldNothingInv
  <1>7. CASE YieldPacket
    BY <1>7, YieldPacketInv
  <1> QED
    BY <1>1, <1>2, <1>3, <1>4, <1>5, <1>6, <1>7 DEF DecoderNext

\* The packets decode_resampled returns are the samples of the application, each once, in their
\* order, each packet full; at the end of the stream less than a packet is left.
THEOREM PacketsOfTheStream == DecoderSpec => []PacketsAreTheStream
  <1>1. DecoderSpec => []Inv
    BY InitInv, StepInv, PTL DEF DecoderSpec
  <1> QED
    BY <1>1, InvMeans, PTL
=============================================================================
