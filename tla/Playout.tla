------------------------------ MODULE Playout ------------------------------
(***************************************************************************)
(* What a stream promises the application, without the machinery of        *)
(* src/audio/: frames are taken in order and played in order. Frames that  *)
(* wait may be lost only while the output is muted, or at the moment the   *)
(* producer ends; once the stream is stopped nothing is played.            *)
(*                                                                         *)
(* A frame is its number, so that the queue of frames that wait, which is  *)
(* in order, is the set of them, and its front is the least.               *)
(***************************************************************************)
EXTENDS Naturals, Sequences

CONSTANT MaxFrames

VARIABLES
  accepted,   \* how many frames the stream has taken
  waiting,    \* frames taken and neither played nor lost
  played,     \* frames played, oldest first
  output,     \* "on", "muted" or "stopped"
  ended       \* the producer of packets has finished

playoutVars == <<accepted, waiting, played, output, ended>>

Init ==
  /\ accepted = 0 /\ waiting = {} /\ played = <<>>
  /\ output = "on" /\ ended = FALSE

Accept ==
  /\ accepted < MaxFrames
  /\ accepted' = accepted + 1
  /\ waiting' = waiting \cup {accepted'}
  /\ UNCHANGED <<played, output, ended>>

Play ==
  /\ output = "on"
  /\ \E f \in waiting :
       /\ \A g \in waiting : f <= g
       /\ played' = Append(played, f)
       /\ waiting' = waiting \ {f}
  /\ UNCHANGED <<accepted, output>>
  /\ ended' \in {ended, TRUE}

\* The output is switched, or the producer ends: frames may be lost.
Switch ==
  /\ output' \in IF output = "stopped" THEN {"stopped"} ELSE {"on", "muted", "stopped"}
  /\ ended' \in {ended, TRUE}
  /\ waiting' \in SUBSET waiting
  /\ waiting' # waiting => (output' # "on" \/ (ended' /\ ~ended))
  /\ UNCHANGED <<accepted, played>>

Next == Accept \/ Play \/ Switch

Spec == Init /\ [][Next]_playoutVars
=============================================================================
