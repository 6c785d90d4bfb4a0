---------------------------- MODULE StreamerLife ----------------------------
(***************************************************************************)
(* The life of one AudioStreamer (src/audio/streamer.rs) as its owner sees *)
(* it: the state under the mutex and what has become of the task. Buffers, *)
(* packets and the sender thread are left to AudioPipeline, which is shown *)
(* to go through this life (AudioPipeline!LivesAsStreamer); PlaybackControl *)
(* composes it with the connections that own streamers.                    *)
(***************************************************************************)

States == {"Idle", "Buffering", "Streaming", "Paused", "Stopped", "Error"}
Tasks  == {"none", "running", "aborted", "done"}
Streamers == [state : States, task : Tasks]

Fresh == [state |-> "Idle", task |-> "none"]

-----------------------------------------------------------------------------
(* The methods. Each returns what it makes of a streamer s. *)

Started(s) == [state |-> "Buffering", task |-> "running"]

PausedBy(s) == IF s.state = "Streaming" THEN [s EXCEPT !.state = "Paused"] ELSE s

ResumedBy(s) == IF s.state = "Paused" THEN [s EXCEPT !.state = "Streaming"] ELSE s

\* The task is aborted, but may still be in a pass.
StoppedBy(s) ==
  [state |-> "Stopped", task |-> IF s.task = "running" THEN "aborted" ELSE s.task]

-----------------------------------------------------------------------------
(* What the task does by itself. *)

\* The buffer fills; the buffer runs dry, which overwrites Paused as well when the
\* pause came between the two looks the task takes at the state.
Plays(s) == {[s EXCEPT !.state = t] : t \in
  CASE s.state = "Buffering" -> {"Streaming"}
    [] s.state \in {"Streaming", "Paused"} -> {"Buffering"}
    [] OTHER -> {}}

\* It finds the end of the source, fails or is aborted: the state stays as the last pass
\* has made it, or becomes Error if a failed task finds the lock free.
Ends(s) == {[state |-> t, task |-> "done"] : t \in
  {s.state, "Error"} \cup {next.state : next \in Plays(s)}
    \cup IF s.state = "Buffering" THEN {"Stopped"} ELSE {}}

\* After stop the task can still take Stopped for an underrun, and ends; one that had
\* failed by then may write Error over Stopped.
Leaves(s) == {[s EXCEPT !.state = "Buffering"]}
               \cup {[state |-> t, task |-> "done"] : t \in {s.state, "Buffering", "Error"}}

Moves(s) ==
  CASE s.task = "running" -> Plays(s) \cup Ends(s)
    [] s.task = "aborted" -> Leaves(s)
    [] OTHER -> {}
=============================================================================
