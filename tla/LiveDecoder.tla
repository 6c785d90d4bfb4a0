----------------------------- MODULE LiveDecoder -----------------------------
(***************************************************************************)
(* LiveAudioDecoder and the LiveFrameSender before it                      *)
(* (audio/live_decoder.rs): how frames of any size become packets of one.  *)
(* AudioPipeline takes a live frame for a packet; this is why it may.      *)
(*                                                                         *)
(* decode_resampled runs under the streamer's lock, but it waits for every *)
(* frame, so the source acts between its receives. A sample is its number  *)
(* in the stream. The rates of source and packets are the same: what a     *)
(* resampler makes of the samples is left out.                             *)
(*                                                                         *)
(* Initial state, next-state relation and specification are named for the  *)
(* decoder, so that Stream_proofs can extend this module and GroupWire.    *)
(***************************************************************************)
EXTENDS Naturals, Sequences, SequencesExt

CONSTANTS
  LiveCap,      \* capacity of the live PCM channel, in frames
  Target,       \* target_samples: frames_per_packet times the channels
  FrameSizes,   \* samples in a frame of the application
  MaxSamples    \* bound: samples the application has

ASSUME SizesAssumption == LiveCap \in Nat \ {0} /\ Target \in Nat \ {0} /\ FrameSizes \subseteq Nat
ASSUME BoundAssumption == MaxSamples \in Nat

VARIABLES
  given,      \* samples the channel has accepted
  srcOpen,    \* the LiveFrameSender still exists
  live,       \* the channel
  eof,        \* LiveAudioDecoder.eof
  residual,   \* LiveAudioDecoder.residual_samples
  decoding,   \* decode_resampled is running
  collected,  \* its collected_samples
  packets     \* what it has returned

source  == <<given, srcOpen>>
decoder == <<eof, residual, decoding, collected, packets>>
decoderVars == <<source, live, decoder>>

Samples(first, n) == [i \in 1 .. n |-> first + i - 1]

-----------------------------------------------------------------------------
\* send, or a try_send that is accepted; a refused frame stays with the application.
Send(n) ==
  /\ srcOpen
  /\ given + n <= MaxSamples
  /\ Len(live) < LiveCap
  /\ live' = Append(live, Samples(given + 1, n))
  /\ given' = given + n
  /\ UNCHANGED <<srcOpen, decoder>>

CloseSource ==
  /\ srcOpen
  /\ srcOpen' = FALSE
  /\ UNCHANGED <<given, live, decoder>>

\* decode_resampled begins with what the last call has left.
Decode ==
  /\ ~decoding
  /\ decoding' = TRUE
  /\ collected' = residual
  /\ residual' = <<>>
  /\ UNCHANGED <<source, live, eof, packets>>

Short == decoding /\ Len(collected) < Target

\* decode_frame: a frame has come in time.
Receive ==
  /\ Short /\ ~eof
  /\ live # <<>>
  /\ collected' = collected \o Head(live)
  /\ live' = Tail(live)
  /\ UNCHANGED <<source, eof, residual, decoding, packets>>

\* Mutant: what was collected is dropped with the call.
YieldNothingForgets ==
  /\ Short
  /\ eof \/ live = <<>>
  /\ eof' = (eof \/ ~srcOpen)
  /\ decoding' = FALSE
  /\ collected' = <<>>
  /\ UNCHANGED <<source, live, residual, packets>>

\* None has: the time is over, or the channel is disconnected and empty, which is
\* remembered. The samples are kept for the next call.
YieldNothing ==
  /\ Short
  /\ eof \/ live = <<>>
  /\ eof' = (eof \/ ~srcOpen)
  /\ decoding' = FALSE
  /\ residual' = collected
  /\ collected' = <<>>
  /\ UNCHANGED <<source, live, packets>>

\* Enough: one packet, and the rest stays, though it may be enough for another.
YieldPacket ==
  /\ decoding /\ ~Short
  /\ packets' = Append(packets, SubSeq(collected, 1, Target))
  /\ residual' = SubSeq(collected, Target + 1, Len(collected))
  /\ decoding' = FALSE
  /\ collected' = <<>>
  /\ UNCHANGED <<source, live, eof>>

-----------------------------------------------------------------------------
DecoderInit ==
  /\ given = 0 /\ srcOpen = TRUE /\ live = <<>>
  /\ eof = FALSE /\ residual = <<>> /\ decoding = FALSE /\ collected = <<>> /\ packets = <<>>

DecoderNext ==
  \/ \E n \in FrameSizes : Send(n)
  \/ CloseSource
  \/ Decode \/ Receive \/ YieldNothing \/ YieldPacket

DecoderSpec == DecoderInit /\ [][DecoderNext]_decoderVars

-----------------------------------------------------------------------------
\* The packets are the samples of the application in their order, none lost, none twice and
\* each packet full, however frames and packets overlap and wherever a call ran out of time;
\* at the end of the stream less than a packet is left over, which is never played.
PacketsAreTheStream ==
  /\ FlattenSeq(packets) \o collected \o residual \o FlattenSeq(live) = Samples(1, given)
  /\ \A i \in DOMAIN packets : Len(packets[i]) = Target
  /\ eof /\ ~decoding => live = <<>> /\ Len(residual) < Target
=============================================================================
