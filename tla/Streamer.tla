------------------------------ MODULE Streamer ------------------------------
(***************************************************************************)
(* What AudioPipeline promises PlaybackControl about one streamer: started *)
(* once, it changes only as its methods and its task make it.              *)
(***************************************************************************)
EXTENDS StreamerLife

VARIABLE streamer

Init == streamer = Fresh

Start  == streamer = Fresh /\ streamer' = Started(streamer)
Pause  == streamer' = PausedBy(streamer)
Resume == streamer' = ResumedBy(streamer)
Stop   == streamer' = StoppedBy(streamer)
Move   == streamer' \in Moves(streamer)

Next == Start \/ Pause \/ Resume \/ Stop \/ Move

Spec == Init /\ [][Next]_streamer
=============================================================================
