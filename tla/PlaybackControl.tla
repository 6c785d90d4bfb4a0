-------------------------- MODULE PlaybackControl --------------------------
(***************************************************************************)
(* What the application controls: AirPlayClient (src/client/api.rs) with   *)
(* its connection, or its group of connections (group.rs), each of them a  *)
(* Connection (connection.rs) over an RtspSession (rtsp/session.rs), and   *)
(* the AudioStreamers these own.                                           *)
(*                                                                         *)
(* A call of the API is the sequence of its steps, from one await to the   *)
(* next; `todo' holds those still to come. A step that fails drops the     *)
(* rest, as the code's early returns do. The methods take &mut self, so    *)
(* there is one call at a time, and between two steps the streamers go on  *)
(* living: StreamerLife says how. Requests whose failure is only logged    *)
(* (the first RECORD, FLUSH at start and stop, those to group members),    *)
(* volume and keepalive change nothing that is modelled here.              *)
(***************************************************************************)
EXTENDS Naturals, Sequences, SequencesExt, StreamerLife

CONSTANTS
  GroupSize,   \* receivers of a group; the first of them is its primary
  Timings      \* what the client's configuration may ask for

ASSUME GroupAssumption == GroupSize \in Nat \ {0, 1}
ASSUME TimingAssumption == Timings \subseteq {"ntp", "slave", "master"}

VARIABLES
  timing,      \* AirPlayClient.stream_config: the timing protocol and PTP mode
  connected,   \* AirPlayClient.connection is Some
  grouped,     \* AirPlayClient.group is Some
  session,     \* RtspSession.state of every connection
  tasks,       \* Connection.timing_server, timing_task, ptp_master_sync_task
  clock,       \* Connection.ptp_master_clock_id is Some
  streamer,    \* Connection.streamer, GroupSession.streamer
  listener,    \* their control_listener is Some
  playback,    \* their playback_state
  local,       \* the streamer a start is about to store
  call,        \* the call that runs
  todo,        \* its remaining steps
  lost,        \* history: tasks the last call has left without anybody to stop them
  drift,       \* history: why report and streamer may differ
  deaf         \* history: a start was refused after it had stopped the listener

connVars    == <<session, tasks, clock>>
playVars    == <<streamer, listener, playback, local>>
clientVars  == <<timing, connected, grouped>>
historyVars == <<lost, drift, deaf>>
vars == <<clientVars, connVars, playVars, call, todo, historyVars>>

Group   == 0                 \* as the owner of a streamer
Primary == 1
Conns   == 1 .. GroupSize
Owners  == {Group} \cup Conns

SessionStates == {"None", "Paired", "SetupPhase1", "Ready", "Playing", "Paused", "TearingDown"}
TimingTasks   == {"ntp", "slave", "master", "relay"}
NoStreamer    == Fresh
Reports       == {"None", "Stopped", "Playing", "Paused"}

Do(op, of) == [op |-> op, of |-> of]

\* What AirPlayClient::playback_state returns.
Reported ==
  IF grouped /\ playback[Group] # "None" THEN playback[Group]
  ELSE IF connected THEN playback[Primary] ELSE "Stopped"

Idle == call = "none"

-----------------------------------------------------------------------------
(* The calls as sequences of steps. *)

\* Connection::setup.
Setup(c, mode) ==
  (IF mode = "ntp" THEN <<Do("startServer", c)>> ELSE <<>>)
    \o <<Do("phase1", c), Do("phase2", c)>>
    \o (IF mode = "ntp" THEN <<>> ELSE <<Do(mode, c)>>)

Disconnect(c) == <<Do("stopListener", c), Do("stopStreamer", c), Do("endTasks", c),
                   Do("teardown", c), Do("close", c)>>

\* Mutant: disconnect forgets that there is a group.
DisconnectAlone == IF connected THEN Disconnect(Primary) ELSE <<>>

\* AirPlayClient::disconnect: the group and its members, then the primary.
DisconnectAll ==
  (IF grouped
   THEN <<Do("stopListener", Group), Do("stopStreamer", Group)>>
          \o FlattenSeq([i \in 1 .. GroupSize - 1 |-> Disconnect(i + 1)])
          \o <<Do("ungroup", Group)>>
   ELSE <<>>)
    \o (IF connected THEN Disconnect(Primary) ELSE <<>>)

Connect == DisconnectAll \o <<Do("handshake", Primary)>> \o Setup(Primary, timing)
             \o <<Do("keepConnection", Primary)>>

\* The primary becomes the clock of the group; every member relays its offsets.
ConnectGroup ==
  DisconnectAll
    \o [c \in Conns |-> Do("handshake", c)]
    \o Setup(Primary, "master") \o <<Do("request", Primary), Do("needClock", Primary)>>
    \o FlattenSeq([i \in 1 .. GroupSize - 1 |->
         <<Do("phase1", i + 1), Do("phase2", i + 1), Do("relay", i + 1), Do("request", i + 1)>>])
    \o <<Do("keepGroup", Primary)>>

\* Connection::start_streaming_live. A session that is not Ready is set up again.
Start ==
  <<Do("stopListener", Primary)>>
    \o (IF session[Primary] = "Ready" THEN <<>>
        ELSE Setup(Primary, IF grouped THEN "master" ELSE timing))
    \o <<Do("buildSender", Primary), Do("startLive", Primary), Do("sessionPlay", Primary),
         Do("keepStreamer", Primary)>>

StartGroup == <<Do("stopListener", Group), Do("stopStreamer", Group), Do("buildSender", Group),
                Do("needClock", Primary), Do("startLive", Group), Do("keepStreamer", Group)>>

Pause ==
  LET one(c) == <<Do("pauseStreamer", c), Do("request", c), Do("sessionPause", c)>>
  IN IF grouped THEN <<Do("pauseStreamer", Group)>> \o one(Primary) \o <<Do("reportPaused", Group)>>
     ELSE one(Primary)

\* Mutant: the group's own streamer is not resumed.
ResumePrimaryOnly ==
  <<Do("resumeStreamer", Primary), Do("request", Primary), Do("sessionResume", Primary)>>
    \o IF grouped THEN <<Do("reportPlaying", Group)>> ELSE <<>>

Resume ==
  LET one(c) == <<Do("resumeStreamer", c), Do("request", c), Do("sessionResume", c)>>
  IN IF grouped THEN one(Primary) \o <<Do("resumeStreamer", Group), Do("reportPlaying", Group)>>
     ELSE one(Primary)

\* Mutant: the control listeners outlive the streamers.
StopStreamersOnly ==
  (IF grouped THEN <<Do("stopStreamer", Group)>> ELSE <<>>)
    \o <<Do("stopStreamer", Primary), Do("reportStopped", Primary)>>
    \o (IF grouped THEN <<Do("reportStopped", Group)>> ELSE <<>>)

StopAll ==
  LET one(p) == <<Do("stopListener", p), Do("stopStreamer", p)>>
  IN (IF grouped THEN one(Group) ELSE <<>>) \o one(Primary) \o <<Do("reportStopped", Primary)>>
       \o (IF grouped THEN <<Do("reportStopped", Group)>> ELSE <<>>)

Steps(name) ==
  CASE name = "connect"      -> Connect
    [] name = "connectGroup" -> ConnectGroup
    [] name = "disconnect"   -> DisconnectAll
    [] name = "start"        -> Start
    [] name = "startGroup"   -> StartGroup
    [] name = "pause"        -> Pause
    [] name = "resume"       -> Resume
    [] name = "stop"         -> StopAll
    [] name = "wait"         -> <<Do("wait", Primary)>>

Calls == {"connect", "connectGroup", "disconnect", "start", "startGroup", "pause", "resume",
          "stop", "wait"}

\* Without a connection every call but these returns an error at once.
Callable(name) ==
  /\ name \in {"connect", "connectGroup"} \/ connected
  /\ name = "startGroup" => grouped

Begin(name) ==
  /\ Idle
  /\ Callable(name)
  /\ call' = name
  /\ todo' = Steps(name)
  /\ lost' = {}
  /\ UNCHANGED <<clientVars, connVars, playVars, drift, deaf>>

-----------------------------------------------------------------------------
(* The end of a step. *)

Now(op, of) == todo # <<>> /\ Head(todo) = Do(op, of)

Proceed ==
  /\ todo' = Tail(todo)
  /\ call' = IF Tail(todo) = <<>> THEN "none" ELSE call

\* Guards on the session and on what the set-up has left that fail the call.
Refused ==
  LET c == Head(todo).of IN
  CASE Head(todo).op = "phase1"        -> session[c] # "Paired"
    [] Head(todo).op = "sessionPlay"   -> session[c] \notin {"Ready", "Paused"}
    [] Head(todo).op = "sessionResume" -> session[c] \notin {"Ready", "Paused"}
    [] Head(todo).op = "sessionPause"  -> session[c] # "Playing"
    [] Head(todo).op = "needClock"     -> ~clock[c]
    [] OTHER -> FALSE

\* Steps that fail for reasons outside: a request, an answer that does not decode, a
\* socket, an encoder.
Fallible == {"handshake", "startServer", "phase1", "phase2", "request", "buildSender", "startLive"}

\* A call that fails while it connects drops the connections it has made, and with a
\* connection go the handles of its tasks, which are not stopped.
DropConnections ==
  /\ session' = [c \in Conns |-> "None"]
  /\ tasks' = [c \in Conns |-> {}]
  /\ clock' = [c \in Conns |-> FALSE]
  /\ lost' = lost \cup {<<t, call>> : t \in UNION {tasks[c] : c \in Conns}}

\* Why a player may now differ from its report.
DriftOnError ==
  [p \in Owners |->
     drift[p] \cup
       (IF Head(todo).op = "request" /\ (call = "pause" \/ (call = "resume" /\ p = Primary))
        THEN {"request"} ELSE {})
     \cup (IF Head(todo).op = "sessionPause" /\ p = Group THEN {"session"} ELSE {})]

\* The step fails and the call returns early.
Fail ==
  /\ todo # <<>>
  /\ Head(todo).op \in Fallible \/ Refused
  /\ todo' = <<>>
  /\ call' = "none"
  /\ local' = NoStreamer
  /\ IF call \in {"connect", "connectGroup"}
     THEN DropConnections
     ELSE /\ UNCHANGED connVars
          /\ lost' = IF local.task = "running" THEN lost \cup {<<"streamer", call>>} ELSE lost
  /\ drift' = DriftOnError
  /\ deaf' = (deaf \/ (call = "start" /\ streamer[Primary] # NoStreamer))
  /\ UNCHANGED <<clientVars, streamer, listener, playback>>

-----------------------------------------------------------------------------
(* Connecting and setting up. *)

\* connect_with_pin: connected, paired; a new Connection.
Handshake(c) ==
  /\ Now("handshake", c)
  /\ Proceed
  /\ session' = [session EXCEPT ![c] = "Paired"]
  /\ UNCHANGED <<clientVars, tasks, clock, playVars, historyVars>>

\* The NTP responder; a server the connection already had is dropped without stop, and
\* its task goes on.
StartServer(c) ==
  /\ Now("startServer", c)
  /\ Proceed
  /\ tasks' = [tasks EXCEPT ![c] = @ \cup {"ntp"}]
  /\ lost' = IF "ntp" \in tasks[c] THEN lost \cup {<<"ntp", call>>} ELSE lost
  /\ UNCHANGED <<clientVars, session, clock, playVars, drift, deaf>>

\* SETUP phase 1, its answer, and the events connection, which may fail.
Phase1(c) ==
  /\ Now("phase1", c)
  /\ ~Refused
  /\ Proceed
  /\ session' = [session EXCEPT ![c] = "SetupPhase1"]
  /\ UNCHANGED <<clientVars, tasks, clock, playVars, historyVars>>

\* The control socket, SETUP phase 2 and its answer.
Phase2(c) ==
  /\ Now("phase2", c)
  /\ Proceed
  /\ session' = [session EXCEPT ![c] = "Ready"]
  /\ UNCHANGED <<clientVars, tasks, clock, playVars, historyVars>>

\* PTP: the slave loop, the election that ends with a clock id or without one in time,
\* or a member's relay of the primary's offsets.
StartTiming(c, kind) ==
  /\ Now(kind, c)
  /\ kind \in {"slave", "master", "relay"}
  /\ Proceed
  /\ tasks' = [tasks EXCEPT ![c] = @ \cup {kind}]
  /\ \E known \in IF kind = "master" THEN BOOLEAN ELSE {kind = "relay"} :
       clock' = [clock EXCEPT ![c] = known]
  /\ UNCHANGED <<clientVars, session, playVars, historyVars>>

\* SETPEERS, or the strict request of a pause or a resume, is answered.
Request(c) ==
  /\ Now("request", c)
  /\ Proceed
  /\ UNCHANGED <<clientVars, connVars, playVars, historyVars>>

NeedClock(c) ==
  /\ Now("needClock", c)
  /\ ~Refused
  /\ Proceed
  /\ UNCHANGED <<clientVars, connVars, playVars, historyVars>>

\* Only a connection that is all set up becomes the client's.
Keep(op) ==
  /\ Now(op, Primary)
  /\ op \in {"keepConnection", "keepGroup"}
  /\ Proceed
  /\ connected' = TRUE
  /\ grouped' = (op = "keepGroup")
  /\ playback' = [playback EXCEPT ![Group] = "None", ![Primary] = "Stopped"]
  /\ UNCHANGED <<timing, connVars, streamer, listener, local, historyVars>>

-----------------------------------------------------------------------------
(* Streaming. p owns the streamer: a connection, or the group. *)

\* ControlListener::stop, which joins its thread.
StopListener(p) ==
  /\ Now("stopListener", p)
  /\ Proceed
  /\ listener' = [listener EXCEPT ![p] = FALSE]
  /\ UNCHANGED <<clientVars, connVars, streamer, playback, local, historyVars>>

\* A group drops its streamer, a connection keeps it.
StopStreamer(p) ==
  /\ Now("stopStreamer", p)
  /\ Proceed
  /\ streamer' = [streamer EXCEPT ![p] =
       IF p = Group \/ @ = NoStreamer THEN NoStreamer ELSE StoppedBy(@)]
  /\ UNCHANGED <<clientVars, connVars, listener, playback, local, historyVars>>

\* build_rtp_sender, for one connection or for all.
BuildSender(p) ==
  /\ Now("buildSender", p)
  /\ Proceed
  /\ UNCHANGED <<clientVars, connVars, playVars, historyVars>>

StartLive(p) ==
  /\ Now("startLive", p)
  /\ Proceed
  /\ local' = Started(NoStreamer)
  /\ UNCHANGED <<clientVars, connVars, streamer, listener, playback, historyVars>>

\* Mutant: streaming does not show in the session.
SessionPlayForgotten(c) ==
  /\ Now("sessionPlay", c)
  /\ ~Refused
  /\ Proceed
  /\ UNCHANGED <<clientVars, connVars, playVars, historyVars>>

SessionPlay(c) ==
  /\ Now("sessionPlay", c)
  /\ ~Refused
  /\ Proceed
  /\ session' = [session EXCEPT ![c] = "Playing"]
  /\ UNCHANGED <<clientVars, tasks, clock, playVars, historyVars>>

\* The volume is sent; then the listener, the streamer and the state in one go. A group
\* has no session of its own, and leaves its primary's as it is.
KeepStreamer(p) ==
  /\ Now("keepStreamer", p)
  /\ Proceed
  /\ streamer' = [streamer EXCEPT ![p] = local]
  /\ listener' = [listener EXCEPT ![p] = TRUE]
  /\ playback' = [playback EXCEPT ![p] = "Playing"]
  /\ local' = NoStreamer
  /\ lost' = IF streamer[p].task = "running" THEN lost \cup {<<"streamer", call>>} ELSE lost
  /\ drift' = [drift EXCEPT ![p] = {}]
  /\ UNCHANGED <<clientVars, connVars, deaf>>

\* A pause that meets a streamer which still buffers is lost on it.
PauseStreamer(p) ==
  /\ Now("pauseStreamer", p)
  /\ Proceed
  /\ streamer' = [streamer EXCEPT ![p] = PausedBy(@)]
  /\ drift' = [drift EXCEPT ![p] =
       IF streamer[p].state = "Buffering" THEN {"missed"} ELSE {}]
  /\ UNCHANGED <<clientVars, connVars, listener, playback, local, lost, deaf>>

ResumeStreamer(p) ==
  /\ Now("resumeStreamer", p)
  /\ Proceed
  /\ streamer' = [streamer EXCEPT ![p] = ResumedBy(@)]
  /\ drift' = [drift EXCEPT ![p] = {}]
  /\ UNCHANGED <<clientVars, connVars, listener, playback, local, lost, deaf>>

\* Mutant: the reported state does not wait for the session's consent.
SessionPauseUnchecked(c) ==
  /\ Now("sessionPause", c)
  /\ Proceed
  /\ session' = [session EXCEPT ![c] = IF @ = "Playing" THEN "Paused" ELSE @]
  /\ playback' = [playback EXCEPT ![c] = "Paused"]
  /\ UNCHANGED <<clientVars, tasks, clock, streamer, listener, local, historyVars>>

SessionPause(c) ==
  /\ Now("sessionPause", c)
  /\ ~Refused
  /\ Proceed
  /\ session' = [session EXCEPT ![c] = "Paused"]
  /\ playback' = [playback EXCEPT ![c] = "Paused"]
  /\ UNCHANGED <<clientVars, tasks, clock, streamer, listener, local, historyVars>>

SessionResume(c) ==
  /\ Now("sessionResume", c)
  /\ ~Refused
  /\ Proceed
  /\ session' = [session EXCEPT ![c] = "Playing"]
  /\ playback' = [playback EXCEPT ![c] = "Playing"]
  /\ UNCHANGED <<clientVars, tasks, clock, streamer, listener, local, historyVars>>

\* A stop leaves the session as it is; a group then defers to its primary again.
Report(p, op) ==
  /\ Now(op, p)
  /\ op \in {"reportStopped", "reportPaused", "reportPlaying"}
  /\ Proceed
  /\ playback' = [playback EXCEPT ![p] =
       IF op = "reportStopped" THEN IF p = Group THEN "None" ELSE "Stopped"
       ELSE IF @ = "None" THEN "None"
       ELSE IF op = "reportPaused" THEN "Paused" ELSE "Playing"]
  /\ UNCHANGED <<clientVars, connVars, streamer, listener, local, historyVars>>

\* wait_for_completion polls what is reported; it borrows the client, so nothing else is
\* called meanwhile.
WaitSeesStopped ==
  /\ Now("wait", Primary)
  /\ Reported = "Stopped"
  /\ Proceed
  /\ UNCHANGED <<clientVars, connVars, playVars, historyVars>>

-----------------------------------------------------------------------------
(* Disconnecting. *)

\* Mutant: the task that follows the election is not aborted.
EndTasksButMaster(c) ==
  /\ Now("endTasks", c)
  /\ Proceed
  /\ tasks' = [tasks EXCEPT ![c] = {}]
  /\ lost' = lost \cup {<<t, call>> : t \in tasks[c] \cap {"master"}}
  /\ UNCHANGED <<clientVars, session, clock, playVars, drift, deaf>>

EndTasks(c) ==
  /\ Now("endTasks", c)
  /\ Proceed
  /\ tasks' = [tasks EXCEPT ![c] = {}]
  /\ UNCHANGED <<clientVars, session, clock, playVars, historyVars>>

Teardown(c) ==
  /\ Now("teardown", c)
  /\ Proceed
  /\ session' = [session EXCEPT ![c] = "TearingDown"]
  /\ UNCHANGED <<clientVars, tasks, clock, playVars, historyVars>>

\* Answered or not, the connection is closed and dropped.
Close(c) ==
  /\ Now("close", c)
  /\ Proceed
  /\ session' = [session EXCEPT ![c] = "None"]
  /\ clock' = [clock EXCEPT ![c] = FALSE]
  /\ streamer' = [streamer EXCEPT ![c] = NoStreamer]
  /\ playback' = [playback EXCEPT ![c] = "None"]
  /\ connected' = (connected /\ c # Primary)
  /\ drift' = [drift EXCEPT ![c] = {}]
  /\ deaf' = (deaf /\ c # Primary)
  /\ lost' = IF streamer[c].task = "running" THEN lost \cup {<<"streamer", call>>} ELSE lost
  /\ UNCHANGED <<timing, grouped, tasks, listener, local>>

Ungroup ==
  /\ Now("ungroup", Group)
  /\ Proceed
  /\ grouped' = FALSE
  /\ playback' = [playback EXCEPT ![Group] = "None"]
  /\ drift' = [drift EXCEPT ![Group] = {}]
  /\ UNCHANGED <<timing, connected, connVars, streamer, listener, local, lost, deaf>>

-----------------------------------------------------------------------------
(* Between the steps, the streamers live. *)

Live(p) ==
  /\ \E next \in Moves(streamer[p]) :
       /\ streamer' = [streamer EXCEPT ![p] = next]
       /\ drift' = [drift EXCEPT ![p] =
            IF streamer[p].state = "Paused" /\ next.state = "Buffering"
            THEN @ \cup {"underrun"} ELSE @]
  /\ UNCHANGED <<clientVars, connVars, listener, playback, local, call, todo, lost, deaf>>

LocalLives ==
  /\ \E next \in Moves(local) : local' = next
  /\ UNCHANGED <<clientVars, connVars, streamer, listener, playback, call, todo, historyVars>>

-----------------------------------------------------------------------------
Init ==
  /\ timing \in Timings /\ connected = FALSE /\ grouped = FALSE
  /\ session = [c \in Conns |-> "None"]
  /\ tasks = [c \in Conns |-> {}]
  /\ clock = [c \in Conns |-> FALSE]
  /\ streamer = [p \in Owners |-> NoStreamer] /\ local = NoStreamer
  /\ listener = [p \in Owners |-> FALSE]
  /\ playback = [p \in Owners |-> "None"]
  /\ call = "none" /\ todo = <<>>
  /\ lost = {} /\ drift = [p \in Owners |-> {}] /\ deaf = FALSE

Next ==
  \/ \E name \in Calls : Begin(name)
  \/ Fail
  \/ \E c \in Conns :
       \/ Handshake(c) \/ StartServer(c) \/ Phase1(c) \/ Phase2(c)
       \/ \E kind \in TimingTasks : StartTiming(c, kind)
       \/ Request(c) \/ NeedClock(c)
       \/ SessionPlay(c) \/ SessionPause(c) \/ SessionResume(c)
       \/ EndTasks(c) \/ Teardown(c) \/ Close(c)
  \/ \E op \in {"keepConnection", "keepGroup"} : Keep(op)
  \/ \E p \in Owners :
       \/ StopListener(p) \/ StopStreamer(p) \/ BuildSender(p) \/ StartLive(p)
       \/ KeepStreamer(p) \/ PauseStreamer(p) \/ ResumeStreamer(p)
       \/ \E op \in {"reportStopped", "reportPaused", "reportPlaying"} : Report(p, op)
       \/ Live(p)
  \/ Ungroup \/ WaitSeesStopped \/ LocalLives

Spec == Init /\ [][Next]_vars

-----------------------------------------------------------------------------
(* Properties. *)

Causes == {"missed", "underrun", "request", "session"}

\* Every variable has its type; only a connected client has a group.
TypeOK ==
  /\ timing \in Timings /\ connected \in BOOLEAN /\ grouped \in BOOLEAN
  /\ session \in [Conns -> SessionStates]
  /\ tasks \in [Conns -> SUBSET TimingTasks]
  /\ clock \in [Conns -> BOOLEAN]
  /\ streamer \in [Owners -> Streamers] /\ local \in Streamers
  /\ listener \in [Owners -> BOOLEAN]
  /\ playback \in [Owners -> Reports]
  /\ call \in Calls \cup {"none"}
  /\ drift \in [Owners -> SUBSET Causes] /\ deaf \in BOOLEAN
  /\ grouped => connected

\* Once a call has returned, in whatever way, a connection reports Playing or Paused only
\* if its RTSP session is in that state, and a group reports Paused only if its primary
\* does: no error path leaves the report ahead of the session.
SessionAgrees ==
  Idle =>
    /\ \A c \in Conns : playback[c] \in {"Playing", "Paused"} => session[c] = playback[c]
    /\ playback[Group] = "Paused" => playback[Primary] = "Paused"

\* When no call runs, a player is heard although it is reported Paused only if the pause
\* met a stream that was still buffering, an underrun overwrote it, or a request of the
\* last pause or resume failed; it is silent although reported Playing only after such a
\* failure, or, in a group, because the primary's session refused the pause.
StreamerFollows ==
  Idle => \A p \in {Group, Primary} :
    /\ playback[p] = "Paused" /\ streamer[p] = [state |-> "Streaming", task |-> "running"]
         => drift[p] \cap {"missed", "underrun", "request"} # {}
    /\ playback[p] = "Playing" /\ streamer[p].state = "Paused"
         => drift[p] \cap (IF p = Group THEN {"request", "session"} ELSE {"request"}) # {}

\* No streamer and no PTP slave is ever left without an owner who can stop it. A task is
\* lost only by a call that fails: the NTP responder when a set-up breaks off or is
\* repeated on a connection that has streamed, the election and the relays when a group
\* cannot be completed.
OnlyFailuresLoseTasks ==
  lost \subseteq {<<"ntp", "connect">>, <<"ntp", "start">>,
                  <<"master", "connectGroup">>, <<"relay", "connectGroup">>}

\* A control listener serves a streamer that has been started and not stopped, as
\* AudioPipeline assumes; and a player that was not stopped has one, unless a second
\* start was refused on it.
ListenerCovers ==
  /\ \A p \in Owners : listener[p] => streamer[p].task \in {"running", "done"}
  /\ Idle => \A p \in {Group, Primary} :
       streamer[p].task = "running" => listener[p] \/ (p = Primary /\ deaf)

\* A connection streams once: whatever is called in whatever order, a streamer that has
\* ended or was stopped is not followed by another one on the same connection.
StreamsOnce ==
  [][\A c \in Conns : streamer[c].task \in {"aborted", "done"}
                        => streamer'[c].task # "running"]_vars
=============================================================================
