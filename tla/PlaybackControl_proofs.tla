----------------------- MODULE PlaybackControl_proofs -----------------------
(***************************************************************************)
(* Proofs about PlaybackControl, for groups of every size and every        *)
(* configuration of the clock.                                             *)
(*                                                                         *)
(* A call is a sequence of steps, made when it begins from what the client *)
(* has then. The proofs see of it only the step that is next (pc), which   *)
(* step may follow which (Flow), and that the steps left flow into one     *)
(* another; the assertions below say what holds before each step.          *)
(***************************************************************************)
EXTENDS PlaybackControl, WellFoundedInduction, TLAPS

-----------------------------------------------------------------------------
(* The flow of a call. *)

Ops == {"stopListener", "stopStreamer", "endTasks", "teardown", "close", "ungroup", "handshake",
        "startServer", "phase1", "phase2", "ntp", "slave", "master", "relay", "request", "needClock",
        "keepConnection", "keepGroup", "buildSender", "startLive", "sessionPlay", "keepStreamer",
        "pauseStreamer", "sessionPause", "reportPaused", "resumeStreamer", "sessionResume",
        "reportPlaying", "reportStopped", "wait"}
Step == [op : Ops, of : Owners]
Done == Do("done", Primary)

Is(s, op, of) == s.op = op /\ s.of = of

\* What follows what while a client leaves its connections; `last' is what comes when it has.
LeavingFlow(s, t, last) ==
  \/ s.op = "stopListener" /\ Is(t, "stopStreamer", s.of)
  \/ Is(s, "stopStreamer", Group) /\ Is(t, "stopListener", 2)
  \/ s.op = "stopStreamer" /\ s.of # Group /\ Is(t, "endTasks", s.of)
  \/ s.op = "endTasks" /\ s.of # Group /\ Is(t, "teardown", s.of)
  \/ s.op = "teardown" /\ s.of # Group /\ Is(t, "close", s.of)
  \/ /\ s.op = "close" /\ s.of \notin {Group, Primary}
     /\ IF s.of < GroupSize THEN Is(t, "stopListener", s.of + 1) ELSE Is(t, "ungroup", Group)
  \/ Is(s, "ungroup", Group) /\ Is(t, "stopListener", Primary)
  \/ Is(s, "close", Primary) /\ Is(t, last, Primary)

\* It joins one receiver.
ConnectFlow(s, t) ==
  \/ Is(s, "handshake", Primary) /\ (Is(t, "startServer", Primary) \/ Is(t, "phase1", Primary))
  \/ Is(s, "startServer", Primary) /\ Is(t, "phase1", Primary)
  \/ Is(s, "phase1", Primary) /\ Is(t, "phase2", Primary)
  \/ Is(s, "phase2", Primary) /\ t.op \in {"slave", "master", "keepConnection"} /\ t.of = Primary
  \/ s.op \in {"slave", "master"} /\ s.of = Primary /\ Is(t, "keepConnection", Primary)
  \/ Is(s, "keepConnection", Primary) /\ t.op = "done"

\* It joins the receivers of a group.
GatherFlow(s, t) ==
  \/ /\ s.op = "handshake" /\ s.of # Group
     /\ IF s.of < GroupSize THEN Is(t, "handshake", s.of + 1) ELSE Is(t, "phase1", Primary)
  \/ s.op = "phase1" /\ s.of # Group /\ Is(t, "phase2", s.of)
  \/ Is(s, "phase2", Primary) /\ Is(t, "master", Primary)
  \/ s.op = "phase2" /\ s.of \notin {Group, Primary} /\ Is(t, "relay", s.of)
  \/ Is(s, "master", Primary) /\ Is(t, "request", Primary)
  \/ s.op = "relay" /\ s.of \notin {Group, Primary} /\ Is(t, "request", s.of)
  \/ Is(s, "request", Primary) /\ Is(t, "needClock", Primary)
  \/ Is(s, "needClock", Primary) /\ Is(t, "phase1", 2)
  \/ /\ s.op = "request" /\ s.of \notin {Group, Primary}
     /\ IF s.of < GroupSize THEN Is(t, "phase1", s.of + 1) ELSE Is(t, "keepGroup", Primary)
  \/ Is(s, "keepGroup", Primary) /\ t.op = "done"

StartFlow(s, t) ==
  \/ Is(s, "stopListener", Primary) /\ t.op \in {"startServer", "phase1", "buildSender"} /\ t.of = Primary
  \/ Is(s, "startServer", Primary) /\ Is(t, "phase1", Primary)
  \/ Is(s, "phase1", Primary) /\ Is(t, "phase2", Primary)
  \/ Is(s, "phase2", Primary) /\ t.op \in {"slave", "master", "buildSender"} /\ t.of = Primary
  \/ s.op \in {"slave", "master"} /\ s.of = Primary /\ Is(t, "buildSender", Primary)
  \/ Is(s, "buildSender", Primary) /\ Is(t, "startLive", Primary)
  \/ Is(s, "startLive", Primary) /\ Is(t, "sessionPlay", Primary)
  \/ Is(s, "sessionPlay", Primary) /\ Is(t, "keepStreamer", Primary)
  \/ Is(s, "keepStreamer", Primary) /\ t.op = "done"

StartGroupFlow(s, t) ==
  \/ Is(s, "stopListener", Group) /\ Is(t, "stopStreamer", Group)
  \/ Is(s, "stopStreamer", Group) /\ Is(t, "buildSender", Group)
  \/ Is(s, "buildSender", Group) /\ Is(t, "needClock", Primary)
  \/ Is(s, "needClock", Primary) /\ Is(t, "startLive", Group)
  \/ Is(s, "startLive", Group) /\ Is(t, "keepStreamer", Group)
  \/ Is(s, "keepStreamer", Group) /\ t.op = "done"

\* A group is paused first and resumed last.
PauseFlow(s, t) ==
  \/ Is(s, "pauseStreamer", Group) /\ Is(t, "pauseStreamer", Primary)
  \/ Is(s, "pauseStreamer", Primary) /\ Is(t, "request", Primary)
  \/ Is(s, "request", Primary) /\ Is(t, "sessionPause", Primary)
  \/ Is(s, "sessionPause", Primary) /\ (t.op = "done" \/ Is(t, "reportPaused", Group))
  \/ Is(s, "reportPaused", Group) /\ t.op = "done"

ResumeFlow(s, t) ==
  \/ Is(s, "resumeStreamer", Primary) /\ Is(t, "request", Primary)
  \/ Is(s, "request", Primary) /\ Is(t, "sessionResume", Primary)
  \/ Is(s, "sessionResume", Primary) /\ (t.op = "done" \/ Is(t, "resumeStreamer", Group))
  \/ Is(s, "resumeStreamer", Group) /\ Is(t, "reportPlaying", Group)
  \/ Is(s, "reportPlaying", Group) /\ t.op = "done"

StopFlow(s, t) ==
  \/ Is(s, "stopListener", Group) /\ Is(t, "stopStreamer", Group)
  \/ Is(s, "stopStreamer", Group) /\ Is(t, "stopListener", Primary)
  \/ Is(s, "stopListener", Primary) /\ Is(t, "stopStreamer", Primary)
  \/ Is(s, "stopStreamer", Primary) /\ Is(t, "reportStopped", Primary)
  \/ Is(s, "reportStopped", Primary) /\ (t.op = "done" \/ Is(t, "reportStopped", Group))
  \/ Is(s, "reportStopped", Group) /\ t.op = "done"

\* In a call of that name, step t may come after step s.
Flow(name, s, t) ==
  \/ name = "disconnect" /\ LeavingFlow(s, t, "done")
  \/ name = "connect" /\ (LeavingFlow(s, t, "handshake") \/ ConnectFlow(s, t))
  \/ name = "connectGroup" /\ (LeavingFlow(s, t, "handshake") \/ GatherFlow(s, t))
  \/ name = "start" /\ StartFlow(s, t)
  \/ name = "startGroup" /\ StartGroupFlow(s, t)
  \/ name = "pause" /\ PauseFlow(s, t)
  \/ name = "resume" /\ ResumeFlow(s, t)
  \/ name = "stop" /\ StopFlow(s, t)
  \/ name = "wait" /\ Is(s, "wait", Primary) /\ t.op = "done"

\* The steps of s flow into one another, from a to b.
Path(name, s, a, b) ==
  /\ s \in Seq(Step) /\ Len(s) > 0
  /\ \A i \in 1 .. Len(s) - 1 : Flow(name, s[i], s[i + 1])
  /\ s[1] = a /\ s[Len(s)] = b

LEMMA DoIs == \A op, of : Do(op, of).op = op /\ Do(op, of).of = of
  BY DEF Do

LEMMA OwnersAre ==
  /\ GroupSize \in Nat /\ GroupSize > 1
  /\ Owners = 0 .. GroupSize /\ Conns = 1 .. GroupSize /\ Group = 0 /\ Primary = 1
  /\ {Group, Primary, 2} \subseteq Owners
  BY GroupAssumption DEF Owners, Conns, Group, Primary

LEMMA StepIs == \A op \in Ops, of \in Owners : Do(op, of) \in Step
  BY DEF Do, Step

\* A step alone, and two paths of which one flows into the other.
LEMMA Single ==
  ASSUME NEW name, NEW a \in Step
  PROVE  Path(name, <<a>>, a, a)
  BY DEF Path

LEMMA Join ==
  ASSUME NEW name, NEW s, NEW t, NEW a, NEW b, NEW c, NEW d,
         Path(name, s, a, b), Path(name, t, c, d), Flow(name, b, c)
  PROVE  Path(name, s \o t, a, d)
  <1> HIDE DEF Flow
  <1>1. /\ s \in Seq(Step) /\ t \in Seq(Step) /\ Len(s) \in Nat /\ Len(t) \in Nat
        /\ Len(s) > 0 /\ Len(t) > 0
    BY DEF Path
  <1>2. /\ s \o t \in Seq(Step) /\ Len(s \o t) = Len(s) + Len(t)
        /\ \A i \in 1 .. Len(s) : (s \o t)[i] = s[i]
        /\ \A i \in 1 .. Len(t) : (s \o t)[Len(s) + i] = t[i]
    BY <1>1
  <1>3. (s \o t)[1] = a /\ (s \o t)[Len(s \o t)] = d
    BY <1>1, <1>2 DEF Path
  <1>4. ASSUME NEW i \in 1 .. Len(s \o t) - 1
        PROVE  Flow(name, (s \o t)[i], (s \o t)[i + 1])
    <2>1. CASE i < Len(s)
      BY <1>1, <1>2, <2>1 DEF Path
    <2>2. CASE i = Len(s)
      <3>1. (s \o t)[i] = b /\ (s \o t)[i + 1] = c
        BY <1>1, <1>2, <2>2 DEF Path
      <3> QED
        BY <3>1
    <2>3. CASE i > Len(s)
      <3>1. PICK j \in 1 .. Len(t) - 1 : i = Len(s) + j
        <4>1. i - Len(s) \in 1 .. Len(t) - 1 /\ i = Len(s) + (i - Len(s))
          BY <1>1, <1>2, <2>3
        <4> QED
          BY <4>1
      <3>2. (s \o t)[i] = t[j] /\ (s \o t)[i + 1] = t[j + 1]
        BY <1>1, <1>2, <3>1
      <3> QED
        BY <3>2 DEF Path
    <2> QED
      BY <1>1, <1>2, <2>1, <2>2, <2>3
  <1> QED
    BY <1>1, <1>2, <1>3, <1>4 DEF Path
\* Paths of three, four and five steps.
LEMMA Three ==
  ASSUME NEW name, NEW a \in Step, NEW b \in Step, NEW c \in Step,
         Flow(name, a, b), Flow(name, b, c)
  PROVE  Path(name, <<a, b, c>>, a, c)
  <1> HIDE DEF Flow
  <1>1. <<a, b, c>> \in Seq(Step) /\ Len(<<a, b, c>>) = 3
    OBVIOUS
  <1>2. \A i \in 1 .. 2 : Flow(name, <<a, b, c>>[i], <<a, b, c>>[i + 1])
    <2>1. \A i \in 1 .. 2 : i = 1 \/ i = 2
      OBVIOUS
    <2> QED
      BY <2>1
  <1> QED
    BY <1>1, <1>2 DEF Path

LEMMA Four ==
  ASSUME NEW name, NEW a \in Step, NEW b \in Step, NEW c \in Step, NEW d \in Step,
         Flow(name, a, b), Flow(name, b, c), Flow(name, c, d)
  PROVE  Path(name, <<a, b, c, d>>, a, d)
  <1> HIDE DEF Flow
  <1>1. <<a, b, c, d>> \in Seq(Step) /\ Len(<<a, b, c, d>>) = 4
    OBVIOUS
  <1>2. \A i \in 1 .. 3 : Flow(name, <<a, b, c, d>>[i], <<a, b, c, d>>[i + 1])
    <2>1. \A i \in 1 .. 3 : i = 1 \/ i = 2 \/ i = 3
      OBVIOUS
    <2> QED
      BY <2>1
  <1> QED
    BY <1>1, <1>2 DEF Path

LEMMA Five ==
  ASSUME NEW name, NEW a \in Step, NEW b \in Step, NEW c \in Step, NEW d \in Step, NEW e \in Step,
         Flow(name, a, b), Flow(name, b, c), Flow(name, c, d), Flow(name, d, e)
  PROVE  Path(name, <<a, b, c, d, e>>, a, e)
  <1> HIDE DEF Flow
  <1>1. <<a, b, c, d, e>> \in Seq(Step) /\ Len(<<a, b, c, d, e>>) = 5
    OBVIOUS
  <1>2. \A i \in 1 .. 4 : Flow(name, <<a, b, c, d, e>>[i], <<a, b, c, d, e>>[i + 1])
    <2>1. \A i \in 1 .. 4 : i = 1 \/ i = 2 \/ i = 3 \/ i = 4
      OBVIOUS
    <2> QED
      BY <2>1
  <1> QED
    BY <1>1, <1>2 DEF Path

-----------------------------------------------------------------------------
(* One path after another, as often as there are members. The induction is on the least  *)
(* counterexample.                                                                       *)

LEMMA Least ==
  ASSUME NEW T, T \subseteq Nat, T # {}
  PROVE  \E m \in T : \A n \in T : m <= n
  <1> DEFINE R == OpToRel(<, Nat)
  <1>1. IsWellFoundedOn(R, Nat)
    BY NatLessThanWellFounded
  <1>2. \A x \in Nat, y \in Nat : y < x => <<y, x>> \in R
    BY DEF OpToRel
  <1> HIDE DEF R
  <1>3. \E x \in T : \A y \in T : ~(<<y, x>> \in R)
    BY <1>1, WFMin
  <1>4. PICK m \in T : \A y \in T : ~(<<y, m>> \in R)
    BY <1>3
  <1>5. \A n \in T : ~(n < m)
    BY <1>2, <1>4
  <1> QED
    BY <1>4, <1>5

\* What FlattenSeq computes of a sequence of sequences: its prefixes, one after the other.
LEMMA FlattenIs ==
  ASSUME NEW n \in Nat, n > 0, NEW B \in [1 .. n -> Seq(Step)]
  PROVE  \E f \in [1 .. n -> Seq(Step)] :
           /\ \A i \in 1 .. n : f[i] = IF i = 1 THEN B[i] ELSE f[i - 1] \o B[i]
           /\ FlattenSeq(B) = f[n]
  <1> DEFINE Fits(k, g) == \A i \in 1 .. k : g[i] = IF i = 1 THEN B[i] ELSE g[i - 1] \o B[i]
             T == {k \in 1 .. n : ~ \E g \in [1 .. k -> Seq(Step)] : Fits(k, g)}
             flatten == CHOOSE g : g = [i \in 1 .. n |-> IF i = 1 THEN B[i] ELSE g[i - 1] \o B[i]]
  <1>1. T = {}
    <2> SUFFICES ASSUME T # {} PROVE FALSE
      OBVIOUS
    <2>0. T \subseteq Nat
      OBVIOUS
    <2>1. PICK m \in T : \A k \in T : m <= k
      <3> HIDE DEF T
      <3> QED
        BY <2>0, Least
    <2>2. m \in 1 .. n /\ ~ \E g \in [1 .. m -> Seq(Step)] : Fits(m, g)
      OBVIOUS
    <2>3. CASE m = 1
      <3> DEFINE h == [i \in 1 .. 1 |-> B[1]]
      <3>1. h \in [1 .. m -> Seq(Step)] /\ Fits(m, h)
        BY <2>3
      <3> QED
        BY <2>2, <3>1
    <2>4. CASE m > 1
      <3>1. m - 1 \in 1 .. n /\ m - 1 \notin T
        <4> HIDE DEF T
        <4> QED
          BY <2>1, <2>2, <2>4
      <3>2. PICK g \in [1 .. m - 1 -> Seq(Step)] : Fits(m - 1, g)
        BY <3>1
      <3> DEFINE h == [i \in 1 .. m |-> IF i = m THEN g[m - 1] \o B[m] ELSE g[i]]
      <3>3. \A i \in 1 .. m : i = m \/ i \in 1 .. m - 1
        BY <2>2
      <3>4. h \in [1 .. m -> Seq(Step)]
        <4>1. g[m - 1] \o B[m] \in Seq(Step)
          BY <2>2, <2>4, <3>2
        <4> QED
          BY <3>2, <3>3, <4>1
      <3>5. Fits(m, h)
        <4>1. ASSUME NEW i \in 1 .. m
              PROVE  h[i] = IF i = 1 THEN B[i] ELSE h[i - 1] \o B[i]
          <5>1. CASE i = m
            <6>1. m - 1 \in 1 .. m /\ m - 1 # m /\ i # 1
              BY <2>2, <2>4, <5>1
            <6>2. h[i - 1] = g[m - 1] /\ h[i] = g[m - 1] \o B[m]
              BY <5>1, <6>1
            <6> QED
              BY <5>1, <6>1, <6>2
          <5>2. CASE i \in 1 .. m - 1 /\ i # m
            <6>1. g[i] = IF i = 1 THEN B[i] ELSE g[i - 1] \o B[i]
              BY <3>2, <5>2
            <6>2. h[i] = g[i] /\ (i # 1 => h[i - 1] = g[i - 1])
              BY <2>2, <5>2
            <6> QED
              BY <6>1, <6>2
          <5> QED
            BY <3>3, <5>1, <5>2
        <4> QED
          BY <4>1
      <3> QED
        BY <2>2, <3>4, <3>5
    <2> QED
      BY <2>2, <2>3, <2>4
  <1>2. PICK g \in [1 .. n -> Seq(Step)] : Fits(n, g)
    <2>1. n \in 1 .. n
      OBVIOUS
    <2> QED
      BY <1>1, <2>1
  <1>3. g = [i \in 1 .. n |-> IF i = 1 THEN B[i] ELSE g[i - 1] \o B[i]]
    BY <1>2
  <1>4. flatten = [i \in 1 .. n |-> IF i = 1 THEN B[i] ELSE flatten[i - 1] \o B[i]]
    BY <1>3
  <1>5. Len(B) = n
    OBVIOUS
  <1>6. FlattenSeq(B) = flatten[n]
    BY <1>5 DEF FlattenSeq
  <1>7. flatten \in [1 .. n -> Seq(Step)]
    <2> HIDE DEF flatten
    <2> DEFINE U == {i \in 1 .. n : flatten[i] \notin Seq(Step)}
    <2>1. U = {}
      <3> SUFFICES ASSUME U # {} PROVE FALSE
        OBVIOUS
      <3>1. U \subseteq Nat
        OBVIOUS
      <3>2. PICK m \in U : \A k \in U : m <= k
        <4> HIDE DEF U
        <4> QED
          BY <3>1, Least
      <3>3. m \in 1 .. n /\ flatten[m] \notin Seq(Step)
        OBVIOUS
      <3>4. flatten[m] = IF m = 1 THEN B[m] ELSE flatten[m - 1] \o B[m]
        BY <1>4, <3>3
      <3>5. m # 1 => m - 1 \in 1 .. n /\ m - 1 \notin U
        <4> HIDE DEF U
        <4> QED
          BY <3>2, <3>3
      <3>6. m # 1 => flatten[m - 1] \in Seq(Step)
        BY <3>5
      <3> QED
        BY <3>3, <3>4, <3>6
    <2> QED
      BY <1>4, <2>1
  <1> QED
    BY <1>4, <1>6, <1>7
\* Paths that flow into one another, made into one.
LEMMA FlattenPath ==
  ASSUME NEW name, NEW n \in Nat, n > 0, NEW B \in [1 .. n -> Seq(Step)],
         NEW first, NEW last,
         \A i \in 1 .. n : Path(name, B[i], first[i], last[i]),
         \A i \in 1 .. n - 1 : Flow(name, last[i], first[i + 1])
  PROVE  Path(name, FlattenSeq(B), first[1], last[n])
  <1> HIDE DEF Flow, Path
  <1>1. PICK f \in [1 .. n -> Seq(Step)] :
          /\ \A i \in 1 .. n : f[i] = IF i = 1 THEN B[i] ELSE f[i - 1] \o B[i]
          /\ FlattenSeq(B) = f[n]
    BY FlattenIs
  <1> DEFINE T == {k \in 1 .. n : ~Path(name, f[k], first[1], last[k])}
  <1>2. T = {}
    <2> SUFFICES ASSUME T # {} PROVE FALSE
      OBVIOUS
    <2>0. T \subseteq Nat
      OBVIOUS
    <2>1. PICK m \in T : \A k \in T : m <= k
      <3> HIDE DEF T
      <3> QED
        BY <2>0, Least
    <2>2. m \in 1 .. n /\ ~Path(name, f[m], first[1], last[m])
      OBVIOUS
    <2>3. CASE m = 1
      BY <1>1, <2>2, <2>3
    <2>4. CASE m # 1
      <3>1. m - 1 \in 1 .. n /\ m - 1 \notin T
        <4> HIDE DEF T
        <4> QED
          BY <2>1, <2>2, <2>4
      <3>2. Path(name, f[m - 1], first[1], last[m - 1])
        BY <3>1
      <3>3. Path(name, B[m], first[m], last[m]) /\ Flow(name, last[m - 1], first[m])
        <4>1. m - 1 \in 1 .. n - 1 /\ (m - 1) + 1 = m
          BY <2>2, <2>4
        <4>2. Flow(name, last[m - 1], first[(m - 1) + 1])
          BY <4>1
        <4> QED
          BY <2>2, <4>1, <4>2
      <3>4. f[m] = f[m - 1] \o B[m]
        BY <1>1, <2>2, <2>4
      <3> QED
        BY <2>2, <3>2, <3>3, <3>4, Join
    <2> QED
      BY <2>3, <2>4
  <1>3. n \in 1 .. n
    OBVIOUS
  <1> QED
    BY <1>1, <1>2, <1>3

-----------------------------------------------------------------------------
(* The calls flow. *)

\* A call that flows from its first step to its end.
Whole(name, s, a) == \E b \in Step : Path(name, s, a, b) /\ Flow(name, b, Done)

LEMMA JoinWhole ==
  ASSUME NEW name, NEW s, NEW t, NEW a, NEW b, NEW c,
         Path(name, s, a, b), Whole(name, t, c), Flow(name, b, c)
  PROVE  Whole(name, s \o t, a)
  BY Join DEF Whole

LEMMA NothingBefore ==
  ASSUME NEW S, NEW s \in Seq(S)
  PROVE  <<>> \o s = s /\ s \o <<>> = s
  OBVIOUS

\* The steps that leave one connection.
LEMMA DisconnectPath ==
  ASSUME NEW name \in {"disconnect", "connect", "connectGroup"}, NEW c \in Conns
  PROVE  Path(name, Disconnect(c), Do("stopListener", c), Do("close", c))
  <1>1. c \in Owners /\ c # Group
    BY OwnersAre
  <1>2. /\ Flow(name, Do("stopListener", c), Do("stopStreamer", c))
        /\ Flow(name, Do("stopStreamer", c), Do("endTasks", c))
        /\ Flow(name, Do("endTasks", c), Do("teardown", c))
        /\ Flow(name, Do("teardown", c), Do("close", c))
    BY <1>1, DoIs DEF Flow, LeavingFlow, Is
  <1>3. {Do(op, c) : op \in {"stopListener", "stopStreamer", "endTasks", "teardown", "close"}}
          \subseteq Step
    BY <1>1, StepIs DEF Ops
  <1> HIDE DEF Flow
  <1> QED
    BY <1>2, <1>3, Five DEF Disconnect

\* A client that has a connection leaves it, and its group before.
LEMMA DisconnectAllPath ==
  ASSUME NEW name \in {"disconnect", "connect", "connectGroup"}, connected
  PROVE  Path(name, DisconnectAll, Do("stopListener", IF grouped THEN Group ELSE Primary),
              Do("close", Primary))
  <1>o. Group \in Owners /\ Primary \in Owners /\ Primary \in Conns
    BY OwnersAre
  <1>1. Path(name, Disconnect(Primary), Do("stopListener", Primary), Do("close", Primary))
    BY <1>o, DisconnectPath
  <1>2. CASE ~grouped
    <2>1. Disconnect(Primary) \in Seq(Step)
      BY <1>1 DEF Path
    <2>2. DisconnectAll = Disconnect(Primary)
      BY <1>2, <2>1, NothingBefore DEF DisconnectAll
    <2> QED
      BY <1>1, <1>2, <2>2
  <1>3. CASE grouped
    <2> DEFINE n == GroupSize - 1
               B == [i \in 1 .. n |-> Disconnect(i + 1)]
               first == [i \in 1 .. n |-> Do("stopListener", i + 1)]
               last == [i \in 1 .. n |-> Do("close", i + 1)]
               before == <<Do("stopListener", Group), Do("stopStreamer", Group)>>
    <2>1. n \in Nat /\ n > 0 /\ \A i \in 1 .. n : i + 1 \in Conns /\ i + 1 # Primary
      BY OwnersAre
    <2>2. \A i \in 1 .. n : Path(name, B[i], first[i], last[i])
      BY <2>1, DisconnectPath
    <2>3. B \in [1 .. n -> Seq(Step)]
      BY <2>2 DEF Path
    <2>4. \A i \in 1 .. n - 1 : Flow(name, last[i], first[i + 1])
      <3>1. ASSUME NEW i \in 1 .. n - 1
            PROVE  Flow(name, Do("close", i + 1), Do("stopListener", (i + 1) + 1))
        <4>1. i + 1 # Primary /\ i + 1 # Group /\ i + 1 < GroupSize
          BY <2>1, OwnersAre
        <4> QED
          BY <4>1, DoIs DEF Flow, LeavingFlow, Is
      <3>2. \A i \in 1 .. n - 1 : i \in 1 .. n /\ i + 1 \in 1 .. n
        BY <2>1
      <3> QED
        BY <3>1, <3>2
    <2>5. Path(name, FlattenSeq(B), Do("stopListener", 2), Do("close", GroupSize))
      <3>1. Path(name, FlattenSeq(B), first[1], last[n])
        <4> HIDE DEF B, first, last, n
        <4> QED
          BY <2>1, <2>2, <2>3, <2>4, FlattenPath
      <3>2. 1 \in 1 .. n /\ n \in 1 .. n /\ n + 1 = GroupSize /\ 1 + 1 = 2
        BY <2>1, OwnersAre
      <3> QED
        BY <3>1, <3>2
    <2>6. Path(name, before, Do("stopListener", Group), Do("stopStreamer", Group))
      <3>1. /\ Flow(name, Do("stopListener", Group), Do("stopStreamer", Group))
            /\ Do("stopListener", Group) \in Step /\ Do("stopStreamer", Group) \in Step
        BY <1>o, DoIs, StepIs DEF Flow, LeavingFlow, Is, Ops
      <3>2. before = <<Do("stopListener", Group)>> \o <<Do("stopStreamer", Group)>>
        OBVIOUS
      <3> HIDE DEF Flow, before
      <3> QED
        BY <3>1, <3>2, Single, Join
    <2>7. Path(name, <<Do("ungroup", Group)>>, Do("ungroup", Group), Do("ungroup", Group))
      BY <1>o, StepIs, Single DEF Ops
    <2>8. /\ Flow(name, Do("stopStreamer", Group), Do("stopListener", 2))
          /\ Flow(name, Do("close", GroupSize), Do("ungroup", Group))
          /\ Flow(name, Do("ungroup", Group), Do("stopListener", Primary))
      <3>1. GroupSize # Group /\ GroupSize # Primary /\ ~(GroupSize < GroupSize)
        BY OwnersAre
      <3> QED
        BY <3>1, DoIs DEF Flow, LeavingFlow, Is
    <2>9. DisconnectAll = (before \o FlattenSeq(B) \o <<Do("ungroup", Group)>>) \o Disconnect(Primary)
      BY <1>3 DEF DisconnectAll
    <2> HIDE DEF B, before, Flow
    <2>10. Path(name, before \o FlattenSeq(B), Do("stopListener", Group), Do("close", GroupSize))
      BY <2>5, <2>6, <2>8, Join
    <2>11. Path(name, before \o FlattenSeq(B) \o <<Do("ungroup", Group)>>,
                Do("stopListener", Group), Do("ungroup", Group))
      BY <2>7, <2>8, <2>10, Join
    <2> QED
      BY <1>1, <1>3, <2>8, <2>9, <2>11, Join
  <1> QED
    BY <1>2, <1>3
Modes == {"ntp", "slave", "master"}

\* The set-up of the primary. What comes after it may come after each of its ends.
LEMMA SetupPath ==
  ASSUME NEW name \in {"connect", "start"}, NEW mode \in Modes
  PROVE  \E a, b \in Step :
           /\ Path(name, Setup(Primary, mode), a, b)
           /\ a.op \in {"startServer", "phase1"} /\ a.of = Primary
           /\ b.op \in {"phase2", "slave", "master"} /\ b.of = Primary
  <1>o. Primary \in Owners
    BY OwnersAre
  <1>1. {Do(op, Primary) : op \in {"startServer", "phase1", "phase2", "slave", "master"}} \subseteq Step
    BY <1>o, StepIs DEF Ops
  <1>2. /\ Flow(name, Do("startServer", Primary), Do("phase1", Primary))
        /\ Flow(name, Do("phase1", Primary), Do("phase2", Primary))
        /\ Flow(name, Do("phase2", Primary), Do("slave", Primary))
        /\ Flow(name, Do("phase2", Primary), Do("master", Primary))
    BY DoIs DEF Flow, ConnectFlow, StartFlow, Is
  <1> HIDE DEF Flow
  <1> DEFINE middle == <<Do("phase1", Primary), Do("phase2", Primary)>>
  <1>3. Path(name, middle, Do("phase1", Primary), Do("phase2", Primary))
    <2>1. middle = <<Do("phase1", Primary)>> \o <<Do("phase2", Primary)>>
      OBVIOUS
    <2> HIDE DEF middle
    <2> QED
      BY <1>1, <1>2, <2>1, Single, Join
  <1>4. CASE mode = "ntp"
    <2>1. Setup(Primary, mode) = (<<Do("startServer", Primary)>> \o middle) \o <<>>
      BY <1>4 DEF Setup
    <2> HIDE DEF middle
    <2>2. Path(name, <<Do("startServer", Primary)>> \o middle, Do("startServer", Primary),
               Do("phase2", Primary))
      BY <1>1, <1>2, <1>3, Single, Join
    <2>3. Setup(Primary, mode) = <<Do("startServer", Primary)>> \o middle
      BY <2>1, <2>2, NothingBefore DEF Path
    <2> QED
      BY <1>1, <2>2, <2>3, DoIs
  <1>5. CASE mode # "ntp"
    <2>1. Setup(Primary, mode) = (<<>> \o middle) \o <<Do(mode, Primary)>>
      BY <1>5 DEF Setup
    <2>2. Do(mode, Primary) \in Step /\ Flow(name, Do("phase2", Primary), Do(mode, Primary))
      BY <1>1, <1>2, <1>5 DEF Modes
    <2> HIDE DEF middle
    <2>3. Setup(Primary, mode) = middle \o <<Do(mode, Primary)>>
      BY <1>3, <2>1, NothingBefore DEF Path
    <2>4. Path(name, Setup(Primary, mode), Do("phase1", Primary), Do(mode, Primary))
      BY <1>3, <2>2, <2>3, Single, Join
    <2> QED
      BY <1>1, <1>5, <2>2, <2>4, DoIs DEF Modes
  <1> QED
    BY <1>4, <1>5

\* The first step of each call, and which calls end with the group.
FirstOf(name, s) ==
  CASE name \in {"disconnect", "connect", "connectGroup"} ->
         IF connected THEN Is(s[1], "stopListener", IF grouped THEN Group ELSE Primary)
         ELSE Is(s[1], "handshake", Primary)
    [] name = "start" ->
         Is(s[1], "stopListener", Primary) /\ (session[Primary] # "Ready" => s[2].op # "buildSender")
    [] name = "startGroup" -> Is(s[1], "stopListener", Group)
    [] name = "pause"  -> Is(s[1], "pauseStreamer", IF grouped THEN Group ELSE Primary)
    [] name = "resume" -> Is(s[1], "resumeStreamer", Primary)
    [] name = "stop"   -> Is(s[1], "stopListener", IF grouped THEN Group ELSE Primary)
    [] name = "wait"   -> Is(s[1], "wait", Primary)

EndsWithGroup(name, s) ==
  grouped /\ name \in {"pause", "resume", "stop"} => s[Len(s)].of = Group

\* The steps s of a call make it flow.
Flows(name, s) ==
  /\ s \in Seq(Step) /\ Len(s) > 0
  /\ \A i \in 1 .. Len(s) - 1 : Flow(name, s[i], s[i + 1])
  /\ Flow(name, s[Len(s)], Done)

LEMMA WholeFlows ==
  ASSUME NEW name, NEW s, NEW a, Whole(name, s, a)
  PROVE  Flows(name, s) /\ s[1] = a
  BY DEF Whole, Path, Flows

LEMMA DisconnectFlows ==
  ASSUME connected
  PROVE  Flows("disconnect", Steps("disconnect")) /\ FirstOf("disconnect", Steps("disconnect"))
  <1>1. Path("disconnect", DisconnectAll, Do("stopListener", IF grouped THEN Group ELSE Primary),
             Do("close", Primary))
    BY DisconnectAllPath
  <1>2. Flow("disconnect", Do("close", Primary), Done) /\ Do("close", Primary) \in Step
    BY DoIs, StepIs, OwnersAre DEF Flow, LeavingFlow, Is, Done, Ops
  <1>3. Whole("disconnect", DisconnectAll, Do("stopListener", IF grouped THEN Group ELSE Primary))
    BY <1>1, <1>2 DEF Whole
  <1>4. Steps("disconnect") = DisconnectAll
    BY DEF Steps
  <1> HIDE DEF Flow
  <1> QED
    BY <1>3, <1>4, WholeFlows, DoIs DEF FirstOf, Is

\* A call that begins with leaving what there is goes on with what was to come.
LEMMA AfterLeaving ==
  ASSUME NEW name \in {"connect", "connectGroup"}, NEW s, grouped => connected,
         Whole(name, s, Do("handshake", Primary))
  PROVE  Flows(name, DisconnectAll \o s) /\ FirstOf(name, DisconnectAll \o s)
  <1>f. Flow(name, Do("close", Primary), Do("handshake", Primary))
    BY DoIs DEF Flow, LeavingFlow, Is
  <1> HIDE DEF Flow
  <1>1. CASE connected
    <2>1. Path(name, DisconnectAll, Do("stopListener", IF grouped THEN Group ELSE Primary),
               Do("close", Primary))
      BY <1>1, DisconnectAllPath
    <2>2. Whole(name, DisconnectAll \o s, Do("stopListener", IF grouped THEN Group ELSE Primary))
      BY <1>f, <2>1, JoinWhole
    <2> DEFINE u == DisconnectAll \o s
    <2>3. Flows(name, u) /\ u[1] = Do("stopListener", IF grouped THEN Group ELSE Primary)
      BY <2>2, WholeFlows
    <2> HIDE DEF u
    <2>4. FirstOf(name, u)
      BY <1>1, <2>3, DoIs DEF FirstOf, Is
    <2> QED
      BY <2>3, <2>4 DEF u
  <1>2. CASE ~connected /\ ~grouped
    <2>1. s \in Seq(Step)
      BY DEF Whole, Path
    <2>2. DisconnectAll \o s = s
      <3>1. DisconnectAll = <<>> \o <<>>
        BY <1>2 DEF DisconnectAll
      <3>2. DisconnectAll = <<>>
        BY <3>1
      <3> QED
        BY <2>1, <3>2, NothingBefore
    <2>3. Flows(name, s) /\ s[1] = Do("handshake", Primary)
      BY WholeFlows
    <2>4. FirstOf(name, s)
      BY <1>2, <2>3, DoIs DEF FirstOf, Is
    <2> QED
      BY <2>2, <2>3, <2>4
  <1> QED
    BY <1>1, <1>2
LEMMA Associative ==
  ASSUME NEW s \in Seq(Step), NEW t \in Seq(Step), NEW u \in Seq(Step)
  PROVE  (s \o t) \o u = s \o (t \o u)
  OBVIOUS

LEMMA DisconnectAllSteps ==
  ASSUME grouped => connected
  PROVE  DisconnectAll \in Seq(Step)
  <1>1. CASE connected
    BY <1>1, DisconnectAllPath DEF Path
  <1>2. CASE ~connected /\ ~grouped
    <2>1. DisconnectAll = <<>> \o <<>>
      BY <1>2 DEF DisconnectAll
    <2> QED
      BY <2>1
  <1> QED
    BY <1>1, <1>2

LEMMA ConnectFlows ==
  ASSUME grouped => connected, timing \in Timings
  PROVE  Flows("connect", Steps("connect")) /\ FirstOf("connect", Steps("connect"))
  <1> DEFINE hands == <<Do("handshake", Primary)>>
             set == Setup(Primary, timing)
             keep == <<Do("keepConnection", Primary)>>
  <1>1. PICK a, b \in Step :
           /\ Path("connect", set, a, b)
           /\ a.op \in {"startServer", "phase1"} /\ a.of = Primary
           /\ b.op \in {"phase2", "slave", "master"} /\ b.of = Primary
    BY SetupPath, TimingAssumption DEF Modes
  <1>2. Do("handshake", Primary) \in Step /\ Do("keepConnection", Primary) \in Step
    BY StepIs, OwnersAre DEF Ops
  <1>3. /\ Flow("connect", Do("handshake", Primary), a)
        /\ Flow("connect", b, Do("keepConnection", Primary))
        /\ Flow("connect", Do("keepConnection", Primary), Done)
    BY <1>1, DoIs DEF Flow, ConnectFlow, Is, Done
  <1>4. Path("connect", hands \o set, Do("handshake", Primary), b)
    <2> HIDE DEF set, Flow
    <2> QED
      BY <1>1, <1>2, <1>3, Single, Join
  <1>5. Whole("connect", (hands \o set) \o keep, Do("handshake", Primary))
    <2> HIDE DEF set, Flow
    <2>1. Path("connect", (hands \o set) \o keep, Do("handshake", Primary), Do("keepConnection", Primary))
      BY <1>2, <1>3, <1>4, Single, Join
    <2> QED
      BY <1>2, <1>3, <2>1 DEF Whole
  <1>6. Steps("connect") = ((DisconnectAll \o hands) \o set) \o keep
    BY DEF Steps, Connect
  <1>7. hands \in Seq(Step) /\ set \in Seq(Step) /\ keep \in Seq(Step) /\ DisconnectAll \in Seq(Step)
    BY <1>1, <1>2, DisconnectAllSteps DEF Path
  <1> HIDE DEF hands, set, keep
  <1>8. Steps("connect") = DisconnectAll \o ((hands \o set) \o keep)
    <2>1. hands \o set \in Seq(Step)
      BY <1>7
    <2>2. (DisconnectAll \o hands) \o set = DisconnectAll \o (hands \o set)
      BY <1>7, Associative
    <2>3. (DisconnectAll \o (hands \o set)) \o keep = DisconnectAll \o ((hands \o set) \o keep)
      BY <1>7, <2>1, Associative
    <2> QED
      BY <1>6, <2>2, <2>3
  <1> QED
    BY <1>5, <1>8, AfterLeaving

\* The clock of the primary, and each of the members after it.
LEMMA GatherPath ==
  /\ Path("connectGroup", [c \in Conns |-> Do("handshake", c)], Do("handshake", Primary),
          Do("handshake", GroupSize))
  /\ Path("connectGroup", Setup(Primary, "master") \o <<Do("request", Primary), Do("needClock", Primary)>>,
          Do("phase1", Primary), Do("needClock", Primary))
  /\ Path("connectGroup",
          FlattenSeq([i \in 1 .. GroupSize - 1 |->
            <<Do("phase1", i + 1), Do("phase2", i + 1), Do("relay", i + 1), Do("request", i + 1)>>]),
          Do("phase1", 2), Do("request", GroupSize))
  <1>1. Path("connectGroup", [c \in Conns |-> Do("handshake", c)], Do("handshake", Primary),
             Do("handshake", GroupSize))
    <2> DEFINE s == [c \in 1 .. GroupSize |-> Do("handshake", c)]
    <2>1. /\ GroupSize \in Nat /\ GroupSize > 1 /\ Conns = 1 .. GroupSize /\ Primary = 1
          /\ \A c \in 1 .. GroupSize : c \in Owners /\ c # Group
      BY OwnersAre
    <2>2. s \in Seq(Step) /\ Len(s) = GroupSize
      <3>1. \A c \in 1 .. GroupSize : Do("handshake", c) \in Step
        BY <2>1, StepIs DEF Ops
      <3> QED
        BY <2>1, <3>1
    <2>3. ASSUME NEW i \in 1 .. GroupSize - 1
          PROVE  Flow("connectGroup", Do("handshake", i), Do("handshake", i + 1))
      <3>1. i < GroupSize /\ i # Group
        BY <2>1, OwnersAre
      <3> QED
        BY <3>1, DoIs DEF Flow, GatherFlow, Is
    <2>4. \A i \in 1 .. GroupSize - 1 : s[i] = Do("handshake", i) /\ s[i + 1] = Do("handshake", i + 1)
      BY <2>1
    <2>5. s[1] = Do("handshake", Primary) /\ s[GroupSize] = Do("handshake", GroupSize)
      BY <2>1
    <2> HIDE DEF s, Flow
    <2>6. Path("connectGroup", s, Do("handshake", Primary), Do("handshake", GroupSize))
      BY <2>1, <2>2, <2>3, <2>4, <2>5 DEF Path
    <2> QED
      BY <2>1, <2>6 DEF s
  <1>2. Path("connectGroup", Setup(Primary, "master") \o <<Do("request", Primary), Do("needClock", Primary)>>,
          Do("phase1", Primary), Do("needClock", Primary))
    <2>1. {Do(op, Primary) : op \in {"phase1", "phase2", "master", "request", "needClock"}} \subseteq Step
      BY OwnersAre, StepIs DEF Ops
    <2>2. /\ Flow("connectGroup", Do("phase1", Primary), Do("phase2", Primary))
          /\ Flow("connectGroup", Do("phase2", Primary), Do("master", Primary))
          /\ Flow("connectGroup", Do("master", Primary), Do("request", Primary))
          /\ Flow("connectGroup", Do("request", Primary), Do("needClock", Primary))
      BY DoIs, OwnersAre DEF Flow, GatherFlow, Is
    <2> DEFINE middle == <<Do("phase1", Primary), Do("phase2", Primary)>>
               end == <<Do("request", Primary), Do("needClock", Primary)>>
    <2>3. Setup(Primary, "master") = (<<>> \o middle) \o <<Do("master", Primary)>>
      BY DEF Setup
    <2>4. /\ middle = <<Do("phase1", Primary)>> \o <<Do("phase2", Primary)>>
          /\ end = <<Do("request", Primary)>> \o <<Do("needClock", Primary)>>
      OBVIOUS
    <2> HIDE DEF Flow, middle, end
    <2>5. /\ Path("connectGroup", middle, Do("phase1", Primary), Do("phase2", Primary))
          /\ Path("connectGroup", end, Do("request", Primary), Do("needClock", Primary))
      BY <2>1, <2>2, <2>4, Single, Join
    <2>6. Setup(Primary, "master") = middle \o <<Do("master", Primary)>>
      BY <2>3, <2>5, NothingBefore DEF Path
    <2>7. Path("connectGroup", Setup(Primary, "master"), Do("phase1", Primary), Do("master", Primary))
      BY <2>1, <2>2, <2>5, <2>6, Single, Join
    <2>8. Path("connectGroup", Setup(Primary, "master") \o end, Do("phase1", Primary), Do("needClock", Primary))
      BY <2>2, <2>5, <2>7, Join
    <2> QED
      BY <2>8 DEF end
  <1>3. Path("connectGroup",
          FlattenSeq([i \in 1 .. GroupSize - 1 |->
            <<Do("phase1", i + 1), Do("phase2", i + 1), Do("relay", i + 1), Do("request", i + 1)>>]),
          Do("phase1", 2), Do("request", GroupSize))
    <2> DEFINE n == GroupSize - 1
               B == [i \in 1 .. n |-> <<Do("phase1", i + 1), Do("phase2", i + 1),
                                         Do("relay", i + 1), Do("request", i + 1)>>]
               first == [i \in 1 .. n |-> Do("phase1", i + 1)]
               last == [i \in 1 .. n |-> Do("request", i + 1)]
    <2>1. n \in Nat /\ n > 0 /\ \A i \in 1 .. n : i + 1 \in Owners /\ i + 1 \notin {Group, Primary}
      BY OwnersAre
    <2>2. ASSUME NEW c \in Owners, c \notin {Group, Primary}
          PROVE  Path("connectGroup", <<Do("phase1", c), Do("phase2", c), Do("relay", c), Do("request", c)>>,
                      Do("phase1", c), Do("request", c))
      <3>1. /\ Flow("connectGroup", Do("phase1", c), Do("phase2", c))
            /\ Flow("connectGroup", Do("phase2", c), Do("relay", c))
            /\ Flow("connectGroup", Do("relay", c), Do("request", c))
        BY <2>2, DoIs DEF Flow, GatherFlow, Is
      <3>2. {Do(op, c) : op \in {"phase1", "phase2", "relay", "request"}} \subseteq Step
        BY StepIs DEF Ops
      <3> HIDE DEF Flow
      <3> QED
        BY <3>1, <3>2, Four
    <2>3. \A i \in 1 .. n : Path("connectGroup", B[i], first[i], last[i])
      BY <2>1, <2>2
    <2>4. B \in [1 .. n -> Seq(Step)]
      BY <2>3 DEF Path
    <2>5. \A i \in 1 .. n - 1 : Flow("connectGroup", last[i], first[i + 1])
      <3>1. ASSUME NEW i \in 1 .. n - 1
            PROVE  Flow("connectGroup", Do("request", i + 1), Do("phase1", (i + 1) + 1))
        <4>1. i + 1 \notin {Group, Primary} /\ i + 1 < GroupSize
          BY <2>1, OwnersAre
        <4> QED
          BY <4>1, DoIs DEF Flow, GatherFlow, Is
      <3>2. \A i \in 1 .. n - 1 : i \in 1 .. n /\ i + 1 \in 1 .. n
        BY <2>1
      <3> QED
        BY <3>1, <3>2
    <2>6. Path("connectGroup", FlattenSeq(B), first[1], last[n])
      <3> HIDE DEF B, first, last, n
      <3> QED
        BY <2>1, <2>3, <2>4, <2>5, FlattenPath
    <2>7. 1 \in 1 .. n /\ n \in 1 .. n /\ n + 1 = GroupSize /\ 1 + 1 = 2
      BY <2>1, OwnersAre
    <2> QED
      BY <2>6, <2>7
  <1> QED
    BY <1>1, <1>2, <1>3
Cat(x, y) == x \o y

LEMMA Regroup ==
  ASSUME NEW d \in Seq(Step), NEW h \in Seq(Step), NEW s \in Seq(Step), NEW c \in Seq(Step),
         NEW r \in Seq(Step), NEW k \in Seq(Step)
  PROVE  Cat(Cat(Cat(Cat(Cat(d, h), s), c), r), k) = Cat(d, Cat(Cat(Cat(h, Cat(s, c)), r), k))
  <1> DEFINE S == Seq(Step)
  <1>1. \A x, y \in S : Cat(x, y) \in S
    BY DEF Cat
  <1>2. \A x, y, z \in S : Cat(Cat(x, y), z) = Cat(x, Cat(y, z))
    BY Associative DEF Cat
  <1> HIDE DEF S
  <1>3. Cat(d, h) \in S /\ Cat(s, c) \in S /\ Cat(h, Cat(s, c)) \in S /\ Cat(Cat(h, Cat(s, c)), r) \in S
    BY <1>1 DEF S
  <1>4. Cat(Cat(Cat(d, h), s), c) = Cat(d, Cat(h, Cat(s, c)))
    BY <1>2, <1>3 DEF S
  <1>5. Cat(Cat(d, Cat(h, Cat(s, c))), r) = Cat(d, Cat(Cat(h, Cat(s, c)), r))
    BY <1>2, <1>3 DEF S
  <1>6. Cat(Cat(d, Cat(Cat(h, Cat(s, c)), r)), k) = Cat(d, Cat(Cat(Cat(h, Cat(s, c)), r), k))
    BY <1>2, <1>3 DEF S
  <1> QED
    BY <1>4, <1>5, <1>6

LEMMA ConnectGroupFlows ==
  ASSUME grouped => connected
  PROVE  /\ Flows("connectGroup", Steps("connectGroup"))
         /\ FirstOf("connectGroup", Steps("connectGroup"))
  <1> DEFINE hands == [c \in Conns |-> Do("handshake", c)]
             set == Setup(Primary, "master")
             clk == <<Do("request", Primary), Do("needClock", Primary)>>
             rest == FlattenSeq([i \in 1 .. GroupSize - 1 |->
                       <<Do("phase1", i + 1), Do("phase2", i + 1), Do("relay", i + 1), Do("request", i + 1)>>])
             keep == <<Do("keepGroup", Primary)>>
  <1>1. /\ Path("connectGroup", hands, Do("handshake", Primary), Do("handshake", GroupSize))
        /\ Path("connectGroup", set \o clk, Do("phase1", Primary), Do("needClock", Primary))
        /\ Path("connectGroup", rest, Do("phase1", 2), Do("request", GroupSize))
    BY GatherPath
  <1>2. Do("keepGroup", Primary) \in Step
    BY StepIs, OwnersAre DEF Ops
  <1>3. /\ Flow("connectGroup", Do("handshake", GroupSize), Do("phase1", Primary))
        /\ Flow("connectGroup", Do("needClock", Primary), Do("phase1", 2))
        /\ Flow("connectGroup", Do("request", GroupSize), Do("keepGroup", Primary))
        /\ Flow("connectGroup", Do("keepGroup", Primary), Done)
    <2>1. GroupSize \notin {Group, Primary} /\ ~(GroupSize < GroupSize)
      BY OwnersAre
    <2> QED
      BY <2>1, DoIs DEF Flow, GatherFlow, Is, Done
  <1>4. Steps("connectGroup") = (((DisconnectAll \o hands) \o set) \o clk) \o rest \o keep
    BY DEF Steps, ConnectGroup
  <1>5. /\ hands \in Seq(Step) /\ set \in Seq(Step) /\ clk \in Seq(Step) /\ rest \in Seq(Step)
        /\ keep \in Seq(Step) /\ DisconnectAll \in Seq(Step)
    <2>1. set \in Seq(Step)
      <3>1. {Do("phase1", Primary), Do("phase2", Primary), Do("master", Primary)} \subseteq Step
        BY OwnersAre, StepIs DEF Ops
      <3> QED
        BY <3>1 DEF Setup
    <2>2. clk \in Seq(Step) /\ keep \in Seq(Step)
      BY <1>2, OwnersAre, StepIs DEF Ops
    <2> QED
      BY <1>1, <2>1, <2>2, DisconnectAllSteps DEF Path
  <1> HIDE DEF hands, set, clk, rest, keep, Flow
  <1> DEFINE joined == ((hands \o (set \o clk)) \o rest) \o keep
  <1>6. Steps("connectGroup") = DisconnectAll \o joined
    <2>1. Cat(Cat(Cat(Cat(Cat(DisconnectAll, hands), set), clk), rest), keep)
            = Cat(DisconnectAll, Cat(Cat(Cat(hands, Cat(set, clk)), rest), keep))
      BY <1>5, Regroup
    <2>2. ((((DisconnectAll \o hands) \o set) \o clk) \o rest) \o keep = DisconnectAll \o joined
      BY <2>1, Zenon DEF Cat, joined
    <2> QED
      BY <1>4, <2>2, Zenon
  <1>7. Path("connectGroup", hands \o (set \o clk), Do("handshake", Primary), Do("needClock", Primary))
    BY <1>1, <1>3, Join
  <1>8. Path("connectGroup", (hands \o (set \o clk)) \o rest, Do("handshake", Primary), Do("request", GroupSize))
    BY <1>1, <1>3, <1>7, Join
  <1>9. Path("connectGroup", keep, Do("keepGroup", Primary), Do("keepGroup", Primary))
    BY <1>2, Single DEF keep
  <1>10. Path("connectGroup", joined, Do("handshake", Primary), Do("keepGroup", Primary))
    BY <1>3, <1>8, <1>9, Join
  <1>11. Whole("connectGroup", joined, Do("handshake", Primary))
    BY <1>2, <1>3, <1>10 DEF Whole
  <1> HIDE DEF joined
  <1> QED
    BY <1>6, <1>11, AfterLeaving

LEMMA Concat ==
  ASSUME NEW h \in Seq(Step), NEW s \in Seq(Step)
  PROVE  /\ h \o s \in Seq(Step) /\ Len(h) \in Nat /\ Len(s) \in Nat
         /\ Len(h \o s) = Len(h) + Len(s)
         /\ \A i \in 1 .. Len(h) : (h \o s)[i] = h[i]
         /\ \A i \in 1 .. Len(s) : (h \o s)[Len(h) + i] = s[i]
  OBVIOUS

LEMMA SecondStep ==
  ASSUME NEW h \in Seq(Step), Len(h) = 1, NEW s \in Seq(Step), Len(s) > 0, NEW e \in Seq(Step)
  PROVE  ((h \o s) \o e)[2] = s[1]
  <1>1. /\ h \o s \in Seq(Step) /\ Len(h) + Len(s) = Len(h \o s) /\ Len(s) \in Nat
        /\ \A i \in 1 .. Len(s) : (h \o s)[Len(h) + i] = s[i]
    BY Concat
  <1>2. 1 \in 1 .. Len(s)
    BY <1>1
  <1>3. (h \o s)[Len(h) + 1] = s[1]
    BY <1>1, <1>2
  <1>4. ((h \o s) \o e)[2] = (h \o s)[2]
    <2>1. \A i \in 1 .. Len(h \o s) : ((h \o s) \o e)[i] = (h \o s)[i]
      BY <1>1, Concat
    <2>2. 2 \in 1 .. Len(h \o s)
      BY <1>1
    <2> QED
      BY <2>1, <2>2
  <1> QED
    BY <1>3, <1>4

LEMMA StartFlows ==
  ASSUME timing \in Timings
  PROVE  Flows("start", Steps("start")) /\ FirstOf("start", Steps("start"))
  <1> DEFINE head == <<Do("stopListener", Primary)>>
             end == <<Do("buildSender", Primary), Do("startLive", Primary),
                      Do("sessionPlay", Primary), Do("keepStreamer", Primary)>>
             mode == IF grouped THEN "master" ELSE timing
             set == Setup(Primary, mode)
  <1>1. {Do(op, Primary) : op \in {"stopListener", "buildSender", "startLive", "sessionPlay",
                                   "keepStreamer"}} \subseteq Step
    BY OwnersAre, StepIs DEF Ops
  <1>2. Path("start", end, Do("buildSender", Primary), Do("keepStreamer", Primary))
    <2>1. /\ Flow("start", Do("buildSender", Primary), Do("startLive", Primary))
          /\ Flow("start", Do("startLive", Primary), Do("sessionPlay", Primary))
          /\ Flow("start", Do("sessionPlay", Primary), Do("keepStreamer", Primary))
      BY DoIs DEF Flow, StartFlow, Is
    <2> HIDE DEF Flow
    <2> QED
      BY <1>1, <2>1, Four
  <1>3. Path("start", head, Do("stopListener", Primary), Do("stopListener", Primary))
    BY <1>1, Single
  <1>4. PICK a, b \in Step :
           /\ Path("start", set, a, b)
           /\ a.op \in {"startServer", "phase1"} /\ a.of = Primary
           /\ b.op \in {"phase2", "slave", "master"} /\ b.of = Primary
    <2>1. mode \in Modes
      BY TimingAssumption DEF Modes
    <2> HIDE DEF mode
    <2> QED
      BY <2>1, SetupPath
  <1>5. /\ Flow("start", Do("stopListener", Primary), a)
        /\ Flow("start", Do("stopListener", Primary), Do("buildSender", Primary))
        /\ Flow("start", b, Do("buildSender", Primary))
        /\ Flow("start", Do("keepStreamer", Primary), Done)
    BY <1>4, DoIs DEF Flow, StartFlow, Is, Done
  <1> HIDE DEF Flow, end, set, mode, head
  <1>6. CASE session[Primary] = "Ready"
    <2>1. Steps("start") = head \o end
      <3>1. Steps("start") = (head \o <<>>) \o end
        BY <1>6 DEF Steps, Start, head, end
      <3> QED
        BY <1>3, <3>1, NothingBefore DEF Path
    <2>2. Path("start", head \o end, Do("stopListener", Primary), Do("keepStreamer", Primary))
      BY <1>2, <1>3, <1>5, Join
    <2>3. Whole("start", Steps("start"), Do("stopListener", Primary))
      BY <1>1, <1>5, <2>1, <2>2 DEF Whole
    <2>4. Flows("start", Steps("start")) /\ Steps("start")[1] = Do("stopListener", Primary)
      BY <2>3, WholeFlows
    <2>5. FirstOf("start", Steps("start"))
      BY <1>6, <2>4, DoIs DEF FirstOf, Is
    <2> QED
      BY <2>4, <2>5
  <1>7. CASE session[Primary] # "Ready"
    <2>1. Steps("start") = (head \o set) \o end
      BY <1>7 DEF Steps, Start, head, end, set, mode
    <2>2. Path("start", head \o set, Do("stopListener", Primary), b)
      BY <1>3, <1>4, <1>5, Join
    <2>3. Path("start", (head \o set) \o end, Do("stopListener", Primary), Do("keepStreamer", Primary))
      BY <1>2, <1>5, <2>2, Join
    <2>4. Whole("start", Steps("start"), Do("stopListener", Primary))
      BY <1>1, <1>5, <2>1, <2>3 DEF Whole
    <2>5. Flows("start", Steps("start")) /\ Steps("start")[1] = Do("stopListener", Primary)
      BY <2>4, WholeFlows
    <2>6. Steps("start")[2] = a
      <3>1. head \in Seq(Step) /\ Len(head) = 1
        BY <1>1 DEF head
      <3>2. set \in Seq(Step) /\ Len(set) > 0 /\ Len(set) \in Nat /\ set[1] = a
        BY <1>4 DEF Path
      <3>3. end \in Seq(Step)
        BY <1>2 DEF Path
      <3> QED
        BY <2>1, <3>1, <3>2, <3>3, SecondStep
    <2>7. FirstOf("start", Steps("start"))
      BY <1>4, <2>5, <2>6, DoIs DEF FirstOf, Is
    <2> QED
      BY <2>5, <2>7
  <1> QED
    BY <1>6, <1>7
LEMMA StartGroupFlows == Flows("startGroup", Steps("startGroup")) /\ FirstOf("startGroup", Steps("startGroup"))
  <1>1. {Do(op, Group) : op \in {"stopListener", "stopStreamer", "buildSender", "startLive", "keepStreamer"}}
          \cup {Do("needClock", Primary)} \subseteq Step
    BY OwnersAre, StepIs DEF Ops
  <1>2. /\ Flow("startGroup", Do("stopListener", Group), Do("stopStreamer", Group))
        /\ Flow("startGroup", Do("stopStreamer", Group), Do("buildSender", Group))
        /\ Flow("startGroup", Do("buildSender", Group), Do("needClock", Primary))
        /\ Flow("startGroup", Do("needClock", Primary), Do("startLive", Group))
        /\ Flow("startGroup", Do("startLive", Group), Do("keepStreamer", Group))
        /\ Flow("startGroup", Do("keepStreamer", Group), Done)
    BY DoIs DEF Flow, StartGroupFlow, Is, Done
  <1> DEFINE s == <<Do("stopListener", Group), Do("stopStreamer", Group), Do("buildSender", Group),
                    Do("needClock", Primary), Do("startLive", Group), Do("keepStreamer", Group)>>
  <1> HIDE DEF Flow
  <1>3. s \in Seq(Step) /\ Len(s) = 6 /\ s[1] = Do("stopListener", Group) /\ s[6] = Do("keepStreamer", Group)
    BY <1>1
  <1>4. \A i \in 1 .. 5 : Flow("startGroup", s[i], s[i + 1])
    <2>1. \A i \in 1 .. 5 : i = 1 \/ i = 2 \/ i = 3 \/ i = 4 \/ i = 5
      OBVIOUS
    <2> QED
      BY <1>2, <2>1
  <1>5. Steps("startGroup") = s
    BY DEF Steps, StartGroup
  <1> HIDE DEF s
  <1>6. Flows("startGroup", s)
    BY <1>2, <1>3, <1>4 DEF Flows
  <1>7. FirstOf("startGroup", s)
    BY <1>3, DoIs DEF FirstOf, Is
  <1> QED
    BY <1>5, <1>6, <1>7

LEMMA PauseFlows ==
  /\ Flows("pause", Steps("pause")) /\ FirstOf("pause", Steps("pause"))
  /\ EndsWithGroup("pause", Steps("pause"))
  <1> DEFINE alone == <<Do("pauseStreamer", Primary), Do("request", Primary), Do("sessionPause", Primary)>>
  <1>1. {Do(op, of) : op \in {"pauseStreamer", "request", "sessionPause", "reportPaused"},
                      of \in {Group, Primary}} \subseteq Step
    BY OwnersAre, StepIs DEF Ops
  <1>2. /\ Flow("pause", Do("pauseStreamer", Group), Do("pauseStreamer", Primary))
        /\ Flow("pause", Do("pauseStreamer", Primary), Do("request", Primary))
        /\ Flow("pause", Do("request", Primary), Do("sessionPause", Primary))
        /\ Flow("pause", Do("sessionPause", Primary), Do("reportPaused", Group))
        /\ Flow("pause", Do("sessionPause", Primary), Done)
        /\ Flow("pause", Do("reportPaused", Group), Done)
    BY DoIs DEF Flow, PauseFlow, Is, Done
  <1> HIDE DEF Flow
  <1>3. Path("pause", alone, Do("pauseStreamer", Primary), Do("sessionPause", Primary))
    BY <1>1, <1>2, Three
  <1> HIDE DEF alone
  <1>4. CASE ~grouped
    <2>1. Steps("pause") = alone
      BY <1>4 DEF Steps, Pause, alone
    <2>2. Whole("pause", alone, Do("pauseStreamer", Primary))
      BY <1>1, <1>2, <1>3 DEF Whole
    <2>3. Flows("pause", alone) /\ alone[1] = Do("pauseStreamer", Primary)
      BY <2>2, WholeFlows
    <2>4. FirstOf("pause", alone) /\ EndsWithGroup("pause", alone)
      BY <1>4, <2>3, DoIs DEF FirstOf, EndsWithGroup, Is
    <2> QED
      BY <2>1, <2>3, <2>4
  <1>5. CASE grouped
    <2> DEFINE s == (<<Do("pauseStreamer", Group)>> \o alone) \o <<Do("reportPaused", Group)>>
    <2>1. Steps("pause") = s
      BY <1>5 DEF Steps, Pause, alone
    <2>2. Path("pause", <<Do("pauseStreamer", Group)>> \o alone, Do("pauseStreamer", Group),
               Do("sessionPause", Primary))
      BY <1>1, <1>2, <1>3, Single, Join
    <2>3. Path("pause", s, Do("pauseStreamer", Group), Do("reportPaused", Group))
      BY <1>1, <1>2, <2>2, Single, Join
    <2> HIDE DEF s
    <2>4. Whole("pause", s, Do("pauseStreamer", Group))
      BY <1>1, <1>2, <2>3 DEF Whole
    <2>5. Flows("pause", s) /\ s[1] = Do("pauseStreamer", Group) /\ s[Len(s)] = Do("reportPaused", Group)
      BY <2>3, <2>4, WholeFlows DEF Path
    <2>6. FirstOf("pause", s) /\ EndsWithGroup("pause", s)
      BY <1>5, <2>5, DoIs DEF FirstOf, EndsWithGroup, Is
    <2> QED
      BY <2>1, <2>5, <2>6
  <1> QED
    BY <1>4, <1>5

LEMMA ResumeFlows ==
  /\ Flows("resume", Steps("resume")) /\ FirstOf("resume", Steps("resume"))
  /\ EndsWithGroup("resume", Steps("resume"))
  <1> DEFINE alone == <<Do("resumeStreamer", Primary), Do("request", Primary), Do("sessionResume", Primary)>>
             after == <<Do("resumeStreamer", Group), Do("reportPlaying", Group)>>
  <1>1. {Do(op, of) : op \in {"resumeStreamer", "request", "sessionResume", "reportPlaying"},
                      of \in {Group, Primary}} \subseteq Step
    BY OwnersAre, StepIs DEF Ops
  <1>2. /\ Flow("resume", Do("resumeStreamer", Primary), Do("request", Primary))
        /\ Flow("resume", Do("request", Primary), Do("sessionResume", Primary))
        /\ Flow("resume", Do("sessionResume", Primary), Do("resumeStreamer", Group))
        /\ Flow("resume", Do("resumeStreamer", Group), Do("reportPlaying", Group))
        /\ Flow("resume", Do("sessionResume", Primary), Done)
        /\ Flow("resume", Do("reportPlaying", Group), Done)
    BY DoIs DEF Flow, ResumeFlow, Is, Done
  <1> HIDE DEF Flow
  <1>3. Path("resume", alone, Do("resumeStreamer", Primary), Do("sessionResume", Primary))
    BY <1>1, <1>2, Three
  <1>a. after = <<Do("resumeStreamer", Group)>> \o <<Do("reportPlaying", Group)>>
    OBVIOUS
  <1> HIDE DEF alone, after
  <1>b. Path("resume", after, Do("resumeStreamer", Group), Do("reportPlaying", Group))
    BY <1>1, <1>2, <1>a, Single, Join
  <1>4. CASE ~grouped
    <2>1. Steps("resume") = alone
      BY <1>4 DEF Steps, Resume, alone
    <2>2. Whole("resume", alone, Do("resumeStreamer", Primary))
      BY <1>1, <1>2, <1>3 DEF Whole
    <2>3. Flows("resume", alone) /\ alone[1] = Do("resumeStreamer", Primary)
      BY <2>2, WholeFlows
    <2>4. FirstOf("resume", alone) /\ EndsWithGroup("resume", alone)
      BY <1>4, <2>3, DoIs DEF FirstOf, EndsWithGroup, Is
    <2> QED
      BY <2>1, <2>3, <2>4
  <1>5. CASE grouped
    <2> DEFINE s == alone \o after
    <2>1. Steps("resume") = s
      BY <1>5 DEF Steps, Resume, alone, after
    <2>2. Path("resume", s, Do("resumeStreamer", Primary), Do("reportPlaying", Group))
      BY <1>2, <1>3, <1>b, Join
    <2> HIDE DEF s
    <2>4. Whole("resume", s, Do("resumeStreamer", Primary))
      BY <1>1, <1>2, <2>2 DEF Whole
    <2>5. Flows("resume", s) /\ s[1] = Do("resumeStreamer", Primary) /\ s[Len(s)] = Do("reportPlaying", Group)
      BY <2>2, <2>4, WholeFlows DEF Path
    <2>6. FirstOf("resume", s) /\ EndsWithGroup("resume", s)
      BY <1>5, <2>5, DoIs DEF FirstOf, EndsWithGroup, Is
    <2> QED
      BY <2>1, <2>5, <2>6
  <1> QED
    BY <1>4, <1>5

LEMMA StopFlows ==
  /\ Flows("stop", Steps("stop")) /\ FirstOf("stop", Steps("stop"))
  /\ EndsWithGroup("stop", Steps("stop"))
  <1> DEFINE one(p) == <<Do("stopListener", p), Do("stopStreamer", p)>>
             alone == one(Primary) \o <<Do("reportStopped", Primary)>>
  <1>1. {Do(op, of) : op \in {"stopListener", "stopStreamer", "reportStopped"},
                      of \in {Group, Primary}} \subseteq Step
    BY OwnersAre, StepIs DEF Ops
  <1>2. /\ \A p \in {Group, Primary} : Flow("stop", Do("stopListener", p), Do("stopStreamer", p))
        /\ Flow("stop", Do("stopStreamer", Group), Do("stopListener", Primary))
        /\ Flow("stop", Do("stopStreamer", Primary), Do("reportStopped", Primary))
        /\ Flow("stop", Do("reportStopped", Primary), Do("reportStopped", Group))
        /\ Flow("stop", Do("reportStopped", Primary), Done)
        /\ Flow("stop", Do("reportStopped", Group), Done)
    BY DoIs DEF Flow, StopFlow, Is, Done
  <1> HIDE DEF Flow
  <1>3. \A p \in {Group, Primary} : Path("stop", one(p), Do("stopListener", p), Do("stopStreamer", p))
    <2>1. ASSUME NEW p \in {Group, Primary}
          PROVE  Path("stop", one(p), Do("stopListener", p), Do("stopStreamer", p))
      <3>1. one(p) = <<Do("stopListener", p)>> \o <<Do("stopStreamer", p)>>
        OBVIOUS
      <3>2. Do("stopListener", p) \in Step /\ Do("stopStreamer", p) \in Step
        BY <1>1
      <3> HIDE DEF one
      <3> QED
        BY <1>2, <3>1, <3>2, Single, Join
    <2> QED
      BY <2>1
  <1>4. CASE ~grouped
    <2> DEFINE s == one(Primary) \o <<Do("reportStopped", Primary)>>
    <2>1. Steps("stop") = ((<<>> \o one(Primary)) \o <<Do("reportStopped", Primary)>>) \o <<>>
      BY <1>4 DEF Steps, StopAll
    <2> HIDE DEF one
    <2>2. Path("stop", s, Do("stopListener", Primary), Do("reportStopped", Primary))
      BY <1>1, <1>2, <1>3, Single, Join
    <2>3. Steps("stop") = s
      <3>1. <<>> \o one(Primary) = one(Primary)
        BY <1>3, NothingBefore DEF Path
      <3>2. s \o <<>> = s
        BY <2>2, NothingBefore DEF Path
      <3> QED
        BY <2>1, <3>1, <3>2
    <2> HIDE DEF s
    <2>4. Whole("stop", s, Do("stopListener", Primary))
      BY <1>1, <1>2, <2>2 DEF Whole
    <2>5. Flows("stop", s) /\ s[1] = Do("stopListener", Primary)
      BY <2>4, WholeFlows
    <2>6. FirstOf("stop", s) /\ EndsWithGroup("stop", s)
      BY <1>4, <2>5, DoIs DEF FirstOf, EndsWithGroup, Is
    <2> QED
      BY <2>3, <2>5, <2>6
  <1>5. CASE grouped
    <2> DEFINE s == ((one(Group) \o one(Primary)) \o <<Do("reportStopped", Primary)>>)
                       \o <<Do("reportStopped", Group)>>
    <2>1. Steps("stop") = s
      BY <1>5 DEF Steps, StopAll
    <2> HIDE DEF one
    <2>2. Path("stop", one(Group) \o one(Primary), Do("stopListener", Group), Do("stopStreamer", Primary))
      BY <1>2, <1>3, Join
    <2>3. Path("stop", (one(Group) \o one(Primary)) \o <<Do("reportStopped", Primary)>>,
               Do("stopListener", Group), Do("reportStopped", Primary))
      BY <1>1, <1>2, <2>2, Single, Join
    <2>4. Path("stop", s, Do("stopListener", Group), Do("reportStopped", Group))
      BY <1>1, <1>2, <2>3, Single, Join
    <2> HIDE DEF s
    <2>5. Whole("stop", s, Do("stopListener", Group))
      BY <1>1, <1>2, <2>4 DEF Whole
    <2>6. Flows("stop", s) /\ s[1] = Do("stopListener", Group) /\ s[Len(s)] = Do("reportStopped", Group)
      BY <2>4, <2>5, WholeFlows DEF Path
    <2>7. FirstOf("stop", s) /\ EndsWithGroup("stop", s)
      BY <1>5, <2>6, DoIs DEF FirstOf, EndsWithGroup, Is
    <2> QED
      BY <2>1, <2>6, <2>7
  <1> QED
    BY <1>4, <1>5

LEMMA WaitFlows == Flows("wait", Steps("wait")) /\ FirstOf("wait", Steps("wait"))
  <1>1. Do("wait", Primary) \in Step /\ Flow("wait", Do("wait", Primary), Done)
    BY OwnersAre, StepIs, DoIs DEF Ops, Flow, Is, Done
  <1>2. Steps("wait") = <<Do("wait", Primary)>>
    BY DEF Steps
  <1> HIDE DEF Flow
  <1>3. Flows("wait", <<Do("wait", Primary)>>)
    BY <1>1 DEF Flows
  <1>4. FirstOf("wait", <<Do("wait", Primary)>>)
    BY DoIs DEF FirstOf, Is
  <1> QED
    BY <1>2, <1>3, <1>4

\* Whatever a call is made from, it flows to its end.
LEMMA CallFlows ==
  ASSUME grouped => connected, timing \in Timings, NEW name \in Calls, Callable(name)
  PROVE  Flows(name, Steps(name)) /\ FirstOf(name, Steps(name)) /\ EndsWithGroup(name, Steps(name))
  <1>1. name \notin {"pause", "resume", "stop"} => EndsWithGroup(name, Steps(name))
    BY DEF EndsWithGroup
  <1>2. name = "disconnect" => connected
    BY DEF Callable
  <1> QED
    BY <1>1, <1>2, DisconnectFlows, ConnectFlows, ConnectGroupFlows, StartFlows, StartGroupFlows,
       PauseFlows, ResumeFlows, StopFlows, WaitFlows
    DEF Calls
-----------------------------------------------------------------------------
(* Where a call is, and what holds there. *)

\* The step that is next, and the one after it.
pc    == IF todo = <<>> THEN Done ELSE Head(todo)
Ahead == IF Len(todo) > 1 THEN todo[2] ELSE Done

At(op, of) == Is(pc, op, of)

InFlow ==
  /\ todo \in Seq(Step) /\ call \in Calls \cup {"none"}
  /\ call = "none" <=> todo = <<>>
  /\ todo # <<>> => Flows(call, todo) /\ EndsWithGroup(call, todo)

MemberConns == Conns \ {Primary}
LeavingOps == {"stopListener", "stopStreamer", "endTasks", "teardown", "close", "ungroup"}
Joining == call \in {"connect", "connectGroup"} /\ pc.op \notin LeavingOps
Leaving == call \in {"connect", "connectGroup", "disconnect"} /\ pc.op \in LeavingOps

Silent(p) == streamer[p] = NoStreamer /\ ~listener[p] /\ playback[p] = "None"
Unused(c) == session[c] = "None" /\ tasks[c] = {}

\* Only the group and the primary stream; without a group there is no group's streamer and
\* nothing of its members, without a connection nothing at all, except while a call joins.
Owned ==
  /\ \A c \in MemberConns : Silent(c)
  /\ ~grouped => Silent(Group)
  /\ grouped => connected
  /\ ~grouped /\ ~Joining => \A c \in MemberConns : Unused(c)
  /\ ~connected /\ ~Joining => call = "none" /\ Silent(Primary) /\ Unused(Primary)
  /\ call = "startGroup" => grouped

\* A client that leaves has left the group's streamer before the first member, the members
\* up to the one it is at, and the group before its primary; a streamer is stopped when its
\* listener is, and before the tasks and the connection end.
Torn ==
  /\ Leaving =>
       /\ pc.of = Primary => ~grouped
       /\ pc.of # Primary => grouped
       /\ pc.of \in MemberConns \/ pc.op = "ungroup" => streamer[Group] = NoStreamer /\ ~listener[Group]
       /\ \A c \in MemberConns : c < pc.of \/ pc.op = "ungroup" => Unused(c)
  /\ pc.op = "stopStreamer" => ~listener[pc.of]
  /\ pc.op \in {"endTasks", "teardown", "close"} =>
       ~listener[pc.of] /\ streamer[pc.of].task # "running"
  /\ pc.op \in {"teardown", "close"} => tasks[pc.of] = {}

\* A client that joins has nothing else, and no tasks but those it may lose.
Joined ==
  Joining =>
    /\ ~connected /\ ~grouped
    /\ Silent(Primary)
    /\ call = "connect" =>
         /\ \A c \in MemberConns : Unused(c)
         /\ pc.op # "keepConnection" => tasks[Primary] \subseteq {"ntp"}
    /\ call = "connectGroup" => \A c \in Conns : tasks[c] \subseteq {"master", "relay"}

\* A streamer that start_live has just started.
Begun(s) == s.task \in {"running", "done"} /\ s.state # "Paused"

\* A start that gets past the set-up found a session that had not streamed, and the
\* streamer it makes is the first; it holds that streamer only where nothing can fail.
Starting ==
  /\ IF pc.op \in {"sessionPlay", "keepStreamer"} THEN Begun(local) ELSE local = NoStreamer
  /\ At("phase2", Primary) => session[Primary] = "SetupPhase1"
  /\ call = "start" /\ pc.op \in {"slave", "master", "buildSender", "startLive", "sessionPlay"}
       => session[Primary] = "Ready"
  /\ call = "start" /\ pc.op = "stopListener" /\ session[Primary] # "Ready" => Ahead.op # "buildSender"
  /\ At("keepStreamer", Primary) =>
       /\ session[Primary] = "Playing" /\ streamer[Primary] = NoStreamer
       /\ playback[Primary] \notin {"Playing", "Paused"}
  /\ call = "startGroup" /\ pc.op \notin {"stopListener", "stopStreamer"}
       => streamer[Group] = NoStreamer
  /\ session[Primary] \in {"None", "Paired", "SetupPhase1", "Ready"} => streamer[Primary] = NoStreamer

Covered ==
  /\ \A p \in Owners : listener[p] => streamer[p].task \in {"running", "done"}
  /\ streamer[Group].task = "running" /\ ~listener[Group] => At("stopStreamer", Group)
  /\ streamer[Primary].task = "running" /\ ~listener[Primary] =>
       At("stopStreamer", Primary) \/ deaf \/ call = "start"

Agreed ==
  /\ playback[Primary] \in {"Playing", "Paused"} =>
       session[Primary] = playback[Primary] \/ At("close", Primary)
  /\ playback[Group] = "Paused" =>
       \/ playback[Primary] = "Paused"
       \/ call = "resume" /\ pc.op \in {"resumeStreamer", "reportPlaying"} /\ pc.of = Group
       \/ call = "stop" /\ At("reportStopped", Group)
  /\ At("reportPaused", Group) => playback[Primary] = "Paused"

Heard(p) == streamer[p].task = "running" /\ streamer[p].state \in {"Buffering", "Streaming"}
Excused(p) == drift[p] \cap {"missed", "underrun", "request"} # {}
Failed(p) == drift[p] \cap (IF p = Group THEN {"request", "session"} ELSE {"request"}) # {}

\* From the pause of a player to its report, and from its resumption.
Pausing(p) ==
  /\ call = "pause"
  /\ IF p = Primary THEN pc.op \in {"request", "sessionPause"}
     ELSE p = Group /\ grouped /\ ~At("pauseStreamer", Group)
Resuming(p) ==
  /\ call = "resume"
  /\ IF p = Primary THEN pc.op \in {"request", "sessionResume"}
     ELSE p = Group /\ At("reportPlaying", Group)

Followed ==
  \A p \in {Group, Primary} :
    /\ playback[p] = "Paused" /\ Heard(p) => Excused(p) \/ Resuming(p)
    /\ Pausing(p) /\ Heard(p) => Excused(p)
    /\ playback[p] = "Playing" /\ streamer[p].state = "Paused" => Failed(p) \/ Pausing(p)
    /\ Resuming(p) => streamer[p].state # "Paused"

Inv ==
  /\ TypeOK /\ InFlow
  /\ Owned /\ Torn /\ Joined /\ Starting /\ Covered /\ Agreed /\ Followed
  /\ OnlyFailuresLoseTasks

-----------------------------------------------------------------------------
(* A step is done. *)

\* What comes next, in the call or after it.
LEMMA Advance ==
  ASSUME InFlow, todo # <<>>, Proceed,
         grouped' => grouped \/ call \notin {"pause", "resume", "stop"}
  PROVE  /\ InFlow' /\ pc \in Step /\ pc' = Ahead
         /\ Flow(call, pc, pc')
         /\ IF pc'.op = "done" THEN call' = "none" /\ pc' = Done ELSE call' = call /\ pc' \in Step
         /\ grouped /\ call \in {"pause", "resume", "stop"} /\ pc'.op = "done" => pc.of = Group
  <1> DEFINE n == Len(todo)
  <1> HIDE DEF Flow
  <1>1. /\ todo \in Seq(Step) /\ n \in Nat /\ n > 0
        /\ todo' = Tail(todo) /\ todo' \in Seq(Step) /\ Len(todo') = n - 1
        /\ \A i \in 1 .. n - 1 : todo'[i] = todo[i + 1]
        /\ \A i \in 1 .. n : todo[i] \in Step
        /\ Head(todo) = todo[1]
    BY DEF InFlow, Proceed
  <1>2. pc = todo[1] /\ pc \in Step
    BY <1>1 DEF pc
  <1>3. /\ \A i \in 1 .. n - 1 : Flow(call, todo[i], todo[i + 1])
        /\ Flow(call, todo[n], Done)
        /\ EndsWithGroup(call, todo)
    BY DEF InFlow, Flows
  <1>4. Done.op = "done" /\ \A s \in Step : s.op # "done"
    BY DoIs DEF Done, Step, Ops
  <1>5. CASE n = 1
    <2>1. todo' = <<>> /\ call' = "none"
      BY <1>1, <1>5 DEF Proceed
    <2>2. pc' = Done /\ Ahead = Done
      BY <1>5, <2>1 DEF pc, Ahead, Done
    <2>3. Flow(call, pc, pc')
      BY <1>2, <1>3, <1>5, <2>2
    <2>4. grouped /\ call \in {"pause", "resume", "stop"} => pc.of = Group
      BY <1>2, <1>3, <1>5 DEF EndsWithGroup
    <2>5. InFlow'
      BY <1>1, <2>1 DEF InFlow
    <2> QED
      BY <1>2, <1>4, <2>1, <2>2, <2>3, <2>4, <2>5
  <1>6. CASE n > 1
    <2>1. todo' # <<>> /\ call' = call /\ call # "none"
      <3>1. todo # <<>> /\ todo' # <<>>
        <4>1. Len(todo') > 0
          BY <1>1, <1>6
        <4>2. \A s : s = <<>> => Len(s) = 0
          OBVIOUS
        <4> QED
          BY <4>1, <4>2
      <3>2. call # "none"
        BY <3>1 DEF InFlow
      <3> QED
        BY <3>1, <3>2 DEF Proceed
    <2>2. pc' = todo[2] /\ Ahead = todo[2] /\ todo[2] \in Step
      BY <1>1, <1>6, <2>1 DEF pc, Ahead
    <2>3. Flow(call, pc, pc')
      BY <1>1, <1>2, <1>3, <1>6, <2>2
    <2>4. \A i \in 1 .. (n - 1) - 1 : Flow(call, todo'[i], todo'[i + 1])
      <3>1. ASSUME NEW i \in 1 .. (n - 1) - 1
            PROVE  Flow(call, todo'[i], todo'[i + 1])
        <4>1. i + 1 \in 1 .. n - 1 /\ i \in 1 .. n - 1 /\ todo'[i] = todo[i + 1] /\ todo'[i + 1] = todo[(i + 1) + 1]
          BY <1>1
        <4>2. Flow(call, todo[i + 1], todo[(i + 1) + 1])
          BY <1>3, <4>1
        <4> QED
          BY <4>1, <4>2
      <3> QED
        BY <3>1
    <2>5. todo'[n - 1] = todo[n]
      BY <1>1, <1>6
    <2>6. Flows(call, todo)'
      BY <1>1, <1>3, <1>6, <2>1, <2>4, <2>5 DEF Flows, Done
    <2>7. EndsWithGroup(call, todo)'
      BY <1>1, <1>3, <2>1, <2>5 DEF EndsWithGroup
    <2>8. InFlow'
      BY <1>1, <2>1, <2>6, <2>7 DEF InFlow
    <2> QED
      BY <1>2, <1>4, <2>1, <2>2, <2>3, <2>8
  <1> QED
    BY <1>1, <1>5, <1>6

\* A step of a call is the one that pc says.
LEMMA NowIs ==
  ASSUME NEW op, NEW of, Now(op, of)
  PROVE  todo # <<>> /\ pc.op = op /\ pc.of = of
  BY DoIs DEF Now, pc
-----------------------------------------------------------------------------
(* What the streamers do, as far as the proofs look. *)

LEMMA FreshIs ==
  /\ NoStreamer \in Streamers /\ NoStreamer.task = "none" /\ NoStreamer.state = "Idle"
  /\ \A s : Started(s) \in Streamers /\ Started(s).task = "running" /\ Started(s).state = "Buffering"
  BY DEF NoStreamer, Fresh, Streamers, States, Tasks, Started

LEMMA MethodsAre ==
  ASSUME NEW s \in Streamers
  PROVE  /\ StoppedBy(s) \in Streamers /\ PausedBy(s) \in Streamers /\ ResumedBy(s) \in Streamers
         /\ StoppedBy(s).task # "running" /\ StoppedBy(s).state = "Stopped"
         /\ PausedBy(s).task = s.task /\ PausedBy(s).state # "Streaming"
         /\ PausedBy(s).state = "Buffering" <=> s.state = "Buffering"
         /\ s # NoStreamer => PausedBy(s) # NoStreamer
         /\ ResumedBy(s).task = s.task /\ ResumedBy(s).state # "Paused"
         /\ s = NoStreamer => PausedBy(s) = NoStreamer /\ ResumedBy(s) = NoStreamer
  BY DEF Streamers, States, Tasks, StoppedBy, PausedBy, ResumedBy, NoStreamer, Fresh

\* A task only runs on or ends; a streamer is not paused by itself, and is heard only if
\* it was, or when an underrun has overwritten the pause.
LEMMA MovesAre ==
  ASSUME NEW s \in Streamers, NEW t \in Moves(s)
  PROVE  /\ t \in Streamers /\ s # NoStreamer /\ t # NoStreamer
         /\ s.task \in {"running", "aborted"} /\ t.task \in {"running", "aborted", "done"}
         /\ s.task = "running" => t.task \in {"running", "done"}
         /\ t.task = "running" => s.task = "running"
         /\ t.state = "Paused" => s.state = "Paused"
         /\ t.task = "running" /\ t.state \in {"Buffering", "Streaming"} =>
              \/ s.state \in {"Buffering", "Streaming"}
              \/ s.state = "Paused" /\ t.state = "Buffering"
  <1>1. /\ s.state \in States /\ s.task \in Tasks
        /\ s = [state |-> s.state, task |-> s.task]
    BY DEF Streamers
  <1>2. /\ s.task \in {"running", "aborted"}
        /\ s.task = "running" => t \in Plays(s) \cup Ends(s)
        /\ s.task = "aborted" => t \in Leaves(s)
    BY <1>1 DEF Moves, Tasks
  <1>3. \A u \in Plays(s) :
          /\ u \in Streamers /\ u.task = s.task
          /\ \/ u.state = "Streaming" /\ s.state = "Buffering"
             \/ u.state = "Buffering" /\ s.state \in {"Streaming", "Paused"}
    <2>1. ASSUME NEW u \in Plays(s)
          PROVE  /\ u \in Streamers /\ u.task = s.task
                 /\ \/ u.state = "Streaming" /\ s.state = "Buffering"
                    \/ u.state = "Buffering" /\ s.state \in {"Streaming", "Paused"}
      <3>1. PICK w \in CASE s.state = "Buffering" -> {"Streaming"}
                         [] s.state \in {"Streaming", "Paused"} -> {"Buffering"}
                         [] OTHER -> {} :
              u = [s EXCEPT !.state = w]
        BY DEF Plays
      <3>2. \/ w = "Streaming" /\ s.state = "Buffering"
            \/ w = "Buffering" /\ s.state \in {"Streaming", "Paused"}
        BY <3>1
      <3>3. u = [state |-> w, task |-> s.task]
        BY <1>1, <3>1
      <3> QED
        BY <1>1, <3>2, <3>3 DEF Streamers, States
    <2> QED
      BY <2>1
  <1>4. \A u \in Ends(s) :
          /\ u \in Streamers /\ u.task = "done"
          /\ u.state = "Paused" => s.state = "Paused"
    <2>1. ASSUME NEW u \in Ends(s)
          PROVE  /\ u \in Streamers /\ u.task = "done"
                 /\ u.state = "Paused" => s.state = "Paused"
      <3>1. PICK w \in {s.state, "Error"} \cup {next.state : next \in Plays(s)}
                         \cup IF s.state = "Buffering" THEN {"Stopped"} ELSE {} :
              u = [state |-> w, task |-> "done"]
        BY DEF Ends
      <3>2. w \in {s.state, "Error", "Streaming", "Buffering", "Stopped"}
        BY <1>3, <3>1
      <3> QED
        BY <1>1, <3>1, <3>2 DEF Streamers, States, Tasks
    <2> QED
      BY <2>1
  <1>5. \A u \in Leaves(s) :
          /\ u \in Streamers /\ u.task \in {s.task, "done"}
          /\ u.state \in {s.state, "Buffering", "Error"}
    BY <1>1 DEF Leaves, Streamers, States, Tasks
  <1>6. NoStreamer.task = "none"
    BY FreshIs
  <1> QED
    BY <1>1, <1>2, <1>3, <1>4, <1>5, <1>6
-----------------------------------------------------------------------------
(* Every action preserves Inv: the step was where the flow says, and each assertion holds *)
(* where the call has come to.                                                          *)

LEMMA FlowsOn ==
  ASSUME InFlow, todo # <<>>
  PROVE  pc \in Step /\ Flow(call, pc, Ahead) /\ call \in Calls
  <1> HIDE DEF Flow
  <1>1. /\ todo \in Seq(Step) /\ Len(todo) \in Nat /\ Len(todo) > 0
        /\ \A i \in 1 .. Len(todo) : todo[i] \in Step
        /\ Head(todo) = todo[1]
    BY DEF InFlow
  <1>2. /\ \A i \in 1 .. Len(todo) - 1 : Flow(call, todo[i], todo[i + 1])
        /\ Flow(call, todo[Len(todo)], Done)
    BY DEF InFlow, Flows
  <1>3. pc = todo[1] /\ pc \in Step
    BY <1>1 DEF pc
  <1>4. Flow(call, pc, Ahead)
    BY <1>1, <1>2, <1>3 DEF Ahead
  <1> QED
    BY <1>3, <1>4 DEF InFlow

\* The call has come from step op of that owner to the next.
Taken(op, of) ==
  /\ todo # <<>> /\ pc.op = op /\ pc.of = of /\ pc' = Ahead
  /\ InFlow' /\ Flow(call, pc, pc')
  /\ IF pc'.op = "done" THEN call' = "none" ELSE call' = call
  /\ grouped /\ call \in {"pause", "resume", "stop"} /\ pc'.op = "done" => pc.of = Group

LEMMA Goes ==
  ASSUME NEW op, NEW of, Inv, Now(op, of), Proceed,
         grouped' => grouped \/ call \notin {"pause", "resume", "stop"}
  PROVE  Taken(op, of)
  <1> HIDE DEF Flow
  <1> QED
    BY NowIs, Advance DEF Inv, Taken

LEMMA InitInv == Init => Inv
  <1> SUFFICES ASSUME Init PROVE Inv
    OBVIOUS
  <1>0. pc = Done /\ Ahead = Done /\ Done.op = "done" /\ Done.of = Primary
    BY DoIs DEF Init, pc, Ahead, Done
  <1>1. TypeOK
    BY FreshIs DEF Init, TypeOK, SessionStates, Reports, Calls
  <1>2. InFlow
    BY DEF Init, InFlow, Calls
  <1>3. Owned /\ Torn /\ Joined
    BY <1>0, OwnersAre DEF Init, Owned, Torn, Joined, Silent, Unused, MemberConns, Joining, Leaving
  <1>4. Starting /\ Covered /\ Agreed
    BY <1>0, OwnersAre, FreshIs DEF Init, Starting, Covered, Agreed, At, Is
  <1>5. Followed
    BY <1>0, OwnersAre, FreshIs DEF Init, Followed, Heard, Pausing, Resuming
  <1> QED
    BY <1>1, <1>2, <1>3, <1>4, <1>5 DEF Inv, Init, OnlyFailuresLoseTasks

LEMMA StopListenerStep ==
  ASSUME Inv, NEW p \in Owners, StopListener(p)
  PROVE  Inv'
  <1>1. Taken("stopListener", p)
    BY Goes DEF StopListener, clientVars
  <1>2. /\ call' = call
        /\ \/ Is(pc', "stopStreamer", p)
           \/ call = "start" /\ p = Primary /\ pc'.op \in {"startServer", "phase1", "buildSender"} /\ pc'.of = Primary
    BY <1>1, OwnersAre DEF Taken, Flow, LeavingFlow, ConnectFlow, GatherFlow, StartFlow, StartGroupFlow,
       PauseFlow, ResumeFlow, StopFlow, Is
  <1> USE DEF Inv, Taken, StopListener, clientVars, connVars, playVars, historyVars
  <1>3. TypeOK'
    BY <1>1, <1>2, OwnersAre DEF TypeOK, SessionStates, TimingTasks, Reports, Causes, Calls
  <1>4. Owned'
    BY <1>1, <1>2, OwnersAre DEF Owned, Torn, Joined, Silent, Unused, MemberConns, Joining,
       Leaving, LeavingOps, Is, TypeOK
  <1>5. Torn'
    BY <1>1, <1>2, OwnersAre DEF Torn, Owned, Covered, Silent, Unused, MemberConns, Leaving,
       Joining, LeavingOps, Is, TypeOK
  <1>6. Joined'
    BY <1>1, <1>2, OwnersAre DEF Joined, Owned, Torn, Unused, Silent, MemberConns, Joining,
       Leaving, LeavingOps, Is, TypeOK
  <1>7. Starting'
    BY <1>1, <1>2, OwnersAre DEF Starting, Joined, Owned, Silent, MemberConns, Joining,
       LeavingOps, Begun, Agreed, At, Is, TypeOK
  <1>8. Covered'
    BY <1>1, <1>2, OwnersAre DEF Covered, Torn, Starting, Begun, Owned, Silent, MemberConns, At,
       Is, TypeOK
  <1>9. Agreed'
    BY <1>1, <1>2, OwnersAre DEF Agreed, Torn, Owned, Joined, Silent, Starting, Joining, Leaving,
       LeavingOps, At, Is, TypeOK
  <1>10. Followed'
    BY <1>1, <1>2, OwnersAre DEF Followed, Agreed, Owned, Silent, Starting, Begun, Heard, Excused,
       Failed, Pausing, Resuming, At, Is, TypeOK
  <1>11. OnlyFailuresLoseTasks'
    BY <1>1, <1>2, OwnersAre DEF OnlyFailuresLoseTasks, Joined, Torn, Starting, Covered, Joining,
       LeavingOps, Is, TypeOK
  <1> QED
    BY <1>1, <1>3, <1>4, <1>5, <1>6, <1>7, <1>8, <1>9, <1>10, <1>11

LEMMA StopStreamerStep ==
  ASSUME Inv, NEW p \in Owners, StopStreamer(p)
  PROVE  Inv'
  <1>1. Taken("stopStreamer", p)
    BY Goes DEF StopStreamer, clientVars
  <1>2. /\ call' = call
        /\ \/ call \in {"connect", "connectGroup", "disconnect"} /\ p = Group /\ Is(pc', "stopListener", 2)
           \/ call \in {"connect", "connectGroup", "disconnect"} /\ p # Group /\ Is(pc', "endTasks", p)
           \/ call = "startGroup" /\ p = Group /\ Is(pc', "buildSender", Group)
           \/ call = "stop" /\ p = Group /\ Is(pc', "stopListener", Primary)
           \/ call = "stop" /\ p = Primary /\ Is(pc', "reportStopped", Primary)
    BY <1>1, OwnersAre DEF Taken, Flow, LeavingFlow, ConnectFlow, GatherFlow, StartFlow, StartGroupFlow,
       PauseFlow, ResumeFlow, StopFlow, Is
  <1> USE DEF Inv, Taken, StopStreamer, clientVars, connVars, playVars, historyVars
  <1>3. TypeOK'
    BY <1>1, <1>2, OwnersAre, FreshIs, MethodsAre DEF TypeOK, SessionStates, TimingTasks, Reports,
       Causes, Calls
  <1>4. Owned'
    BY <1>1, <1>2, OwnersAre, FreshIs, MethodsAre DEF Owned, Torn, Joined, Silent, Unused,
       MemberConns, Joining, Leaving, LeavingOps, Is, TypeOK
  <1>5. Torn'
    BY <1>1, <1>2, OwnersAre, FreshIs, MethodsAre DEF Torn, Owned, Covered, Silent, Unused,
       MemberConns, Leaving, Joining, LeavingOps, Is, TypeOK
  <1>6. Joined'
    BY <1>1, <1>2, OwnersAre, FreshIs, MethodsAre DEF Joined, Owned, Torn, Unused, Silent,
       MemberConns, Joining, Leaving, LeavingOps, Is, TypeOK
  <1>7. Starting'
    BY <1>1, <1>2, OwnersAre, FreshIs, MethodsAre DEF Starting, Joined, Owned, Silent,
       MemberConns, Joining, LeavingOps, Begun, Agreed, At, Is, TypeOK
  <1>8. Covered'
    BY <1>1, <1>2, OwnersAre, FreshIs, MethodsAre DEF Covered, Torn, Starting, Begun, Owned,
       Silent, MemberConns, At, Is, TypeOK
  <1>9. Agreed'
    BY <1>1, <1>2, OwnersAre, FreshIs, MethodsAre DEF Agreed, Torn, Owned, Joined, Silent,
       Starting, Joining, Leaving, LeavingOps, At, Is, TypeOK
  <1>10. Followed'
    BY <1>1, <1>2, OwnersAre, FreshIs, MethodsAre DEF Followed, Agreed, Owned, Silent, Starting,
       Begun, Heard, Excused, Failed, Pausing, Resuming, At, Is, TypeOK
  <1>11. OnlyFailuresLoseTasks'
    BY <1>1, <1>2, OwnersAre, FreshIs, MethodsAre DEF OnlyFailuresLoseTasks, Joined, Torn,
       Starting, Covered, Joining, LeavingOps, Is, TypeOK
  <1> QED
    BY <1>1, <1>3, <1>4, <1>5, <1>6, <1>7, <1>8, <1>9, <1>10, <1>11

LEMMA EndTasksStep ==
  ASSUME Inv, NEW c \in Conns, EndTasks(c)
  PROVE  Inv'
  <1>1. Taken("endTasks", c)
    BY Goes DEF EndTasks, clientVars
  <1>2. /\ call' = call
        /\ \/ call \in {"connect", "connectGroup", "disconnect"} /\ Is(pc', "teardown", c)
    BY <1>1, OwnersAre DEF Taken, Flow, LeavingFlow, ConnectFlow, GatherFlow, StartFlow, StartGroupFlow,
       PauseFlow, ResumeFlow, StopFlow, Is
  <1> USE DEF Inv, Taken, EndTasks, clientVars, connVars, playVars, historyVars
  <1>3. TypeOK'
    BY <1>1, <1>2, OwnersAre DEF TypeOK, SessionStates, TimingTasks, Reports, Causes, Calls
  <1>4. Owned'
    BY <1>1, <1>2, OwnersAre DEF Owned, Torn, Joined, Silent, Unused, MemberConns, Joining,
       Leaving, LeavingOps, Is, TypeOK
  <1>5. Torn'
    BY <1>1, <1>2, OwnersAre DEF Torn, Owned, Covered, Silent, Unused, MemberConns, Leaving,
       Joining, LeavingOps, Is, TypeOK
  <1>6. Joined'
    BY <1>1, <1>2, OwnersAre DEF Joined, Owned, Torn, Unused, Silent, MemberConns, Joining,
       Leaving, LeavingOps, Is, TypeOK
  <1>7. Starting'
    BY <1>1, <1>2, OwnersAre DEF Starting, Joined, Owned, Silent, MemberConns, Joining,
       LeavingOps, Begun, Agreed, At, Is, TypeOK
  <1>8. Covered'
    BY <1>1, <1>2, OwnersAre DEF Covered, Torn, Starting, Begun, Owned, Silent, MemberConns, At,
       Is, TypeOK
  <1>9. Agreed'
    BY <1>1, <1>2, OwnersAre DEF Agreed, Torn, Owned, Joined, Silent, Starting, Joining, Leaving,
       LeavingOps, At, Is, TypeOK
  <1>10. Followed'
    BY <1>1, <1>2, OwnersAre DEF Followed, Agreed, Owned, Silent, Starting, Begun, Heard, Excused,
       Failed, Pausing, Resuming, At, Is, TypeOK
  <1>11. OnlyFailuresLoseTasks'
    BY <1>1, <1>2, OwnersAre DEF OnlyFailuresLoseTasks, Joined, Torn, Starting, Covered, Joining,
       LeavingOps, Is, TypeOK
  <1> QED
    BY <1>1, <1>3, <1>4, <1>5, <1>6, <1>7, <1>8, <1>9, <1>10, <1>11

LEMMA TeardownStep ==
  ASSUME Inv, NEW c \in Conns, Teardown(c)
  PROVE  Inv'
  <1>1. Taken("teardown", c)
    BY Goes DEF Teardown, clientVars
  <1>2. /\ call' = call
        /\ \/ call \in {"connect", "connectGroup", "disconnect"} /\ Is(pc', "close", c)
    BY <1>1, OwnersAre DEF Taken, Flow, LeavingFlow, ConnectFlow, GatherFlow, StartFlow, StartGroupFlow,
       PauseFlow, ResumeFlow, StopFlow, Is
  <1> USE DEF Inv, Taken, Teardown, clientVars, connVars, playVars, historyVars
  <1>3. TypeOK'
    BY <1>1, <1>2, OwnersAre DEF TypeOK, SessionStates, TimingTasks, Reports, Causes, Calls
  <1>4. Owned'
    BY <1>1, <1>2, OwnersAre DEF Owned, Torn, Joined, Silent, Unused, MemberConns, Joining,
       Leaving, LeavingOps, Is, TypeOK
  <1>5. Torn'
    BY <1>1, <1>2, OwnersAre DEF Torn, Owned, Covered, Silent, Unused, MemberConns, Leaving,
       Joining, LeavingOps, Is, TypeOK
  <1>6. Joined'
    BY <1>1, <1>2, OwnersAre DEF Joined, Owned, Torn, Unused, Silent, MemberConns, Joining,
       Leaving, LeavingOps, Is, TypeOK
  <1>7. Starting'
    BY <1>1, <1>2, OwnersAre DEF Starting, Joined, Owned, Silent, MemberConns, Joining,
       LeavingOps, Begun, Agreed, At, Is, TypeOK
  <1>8. Covered'
    BY <1>1, <1>2, OwnersAre DEF Covered, Torn, Starting, Begun, Owned, Silent, MemberConns, At,
       Is, TypeOK
  <1>9. Agreed'
    BY <1>1, <1>2, OwnersAre DEF Agreed, Torn, Owned, Joined, Silent, Starting, Joining, Leaving,
       LeavingOps, At, Is, TypeOK
  <1>10. Followed'
    BY <1>1, <1>2, OwnersAre DEF Followed, Agreed, Owned, Silent, Starting, Begun, Heard, Excused,
       Failed, Pausing, Resuming, At, Is, TypeOK
  <1>11. OnlyFailuresLoseTasks'
    BY <1>1, <1>2, OwnersAre DEF OnlyFailuresLoseTasks, Joined, Torn, Starting, Covered, Joining,
       LeavingOps, Is, TypeOK
  <1> QED
    BY <1>1, <1>3, <1>4, <1>5, <1>6, <1>7, <1>8, <1>9, <1>10, <1>11

LEMMA CloseStep ==
  ASSUME Inv, NEW c \in Conns, Close(c)
  PROVE  Inv'
  <1>1. Taken("close", c)
    BY Goes DEF Close, clientVars
  <1>2. \/ call \in {"connect", "connectGroup", "disconnect"} /\ c # Primary /\ c < GroupSize /\ Is(pc', "stopListener", c + 1) /\ call' = call
        \/ call \in {"connect", "connectGroup", "disconnect"} /\ c # Primary /\ c = GroupSize /\ Is(pc', "ungroup", Group) /\ call' = call
        \/ call \in {"connect", "connectGroup"} /\ c = Primary /\ Is(pc', "handshake", Primary) /\ call' = call
        \/ call = "disconnect" /\ c = Primary /\ pc'.op = "done" /\ call' = "none"
    BY <1>1, OwnersAre DEF Taken, Flow, LeavingFlow, ConnectFlow, GatherFlow, StartFlow, StartGroupFlow,
       PauseFlow, ResumeFlow, StopFlow, Is
  <1> USE DEF Inv, Taken, Close, clientVars, connVars, playVars, historyVars
  <1>3. TypeOK'
    BY <1>1, <1>2, OwnersAre, FreshIs DEF TypeOK, SessionStates, TimingTasks, Reports, Causes,
       Calls, Torn, Leaving, LeavingOps, Is
  <1>4. Owned'
    BY <1>1, <1>2, OwnersAre, FreshIs DEF Owned, Torn, Joined, Silent, Unused, MemberConns,
       Joining, Leaving, LeavingOps, Is, TypeOK
  <1>5. Torn'
    BY <1>1, <1>2, OwnersAre, FreshIs DEF Torn, Owned, Covered, Silent, Unused, MemberConns,
       Leaving, Joining, LeavingOps, Is, TypeOK
  <1>6. Joined'
    BY <1>1, <1>2, OwnersAre, FreshIs DEF Joined, Owned, Torn, Unused, Silent, MemberConns,
       Joining, Leaving, LeavingOps, Is, TypeOK
  <1>7. Starting'
    BY <1>1, <1>2, OwnersAre, FreshIs DEF Starting, Joined, Owned, Silent, MemberConns, Joining,
       LeavingOps, Begun, Agreed, At, Is, TypeOK
  <1>8. Covered'
    BY <1>1, <1>2, OwnersAre, FreshIs DEF Covered, Torn, Starting, Begun, Owned, Silent,
       MemberConns, At, Is, TypeOK
  <1>9. Agreed'
    BY <1>1, <1>2, OwnersAre, FreshIs DEF Agreed, Torn, Owned, Joined, Silent, Starting, Joining,
       Leaving, LeavingOps, At, Is, TypeOK
  <1>10. Followed'
    BY <1>1, <1>2, OwnersAre, FreshIs DEF Followed, Agreed, Owned, Silent, Starting, Begun, Heard,
       Excused, Failed, Pausing, Resuming, At, Is, TypeOK
  <1>11. OnlyFailuresLoseTasks'
    BY <1>1, <1>2, OwnersAre, FreshIs DEF OnlyFailuresLoseTasks, Joined, Torn, Starting, Covered,
       Joining, LeavingOps, Is, TypeOK
  <1> QED
    BY <1>1, <1>3, <1>4, <1>5, <1>6, <1>7, <1>8, <1>9, <1>10, <1>11

LEMMA UngroupStep ==
  ASSUME Inv, Ungroup
  PROVE  Inv'
  <1>1. Taken("ungroup", Group)
    BY Goes DEF Ungroup, clientVars
  <1>2. /\ call' = call
        /\ \/ call \in {"connect", "connectGroup", "disconnect"} /\ Is(pc', "stopListener", Primary)
    BY <1>1, OwnersAre DEF Taken, Flow, LeavingFlow, ConnectFlow, GatherFlow, StartFlow, StartGroupFlow,
       PauseFlow, ResumeFlow, StopFlow, Is
  <1> USE DEF Inv, Taken, Ungroup, clientVars, connVars, playVars, historyVars
  <1>3. TypeOK'
    BY <1>1, <1>2, OwnersAre DEF TypeOK, SessionStates, TimingTasks, Reports, Causes, Calls
  <1>4. Owned'
    BY <1>1, <1>2, OwnersAre DEF Owned, Torn, Joined, Silent, Unused, MemberConns, Joining,
       Leaving, LeavingOps, Is, TypeOK
  <1>5. Torn'
    BY <1>1, <1>2, OwnersAre DEF Torn, Owned, Covered, Silent, Unused, MemberConns, Leaving,
       Joining, LeavingOps, Is, TypeOK
  <1>6. Joined'
    BY <1>1, <1>2, OwnersAre DEF Joined, Owned, Torn, Unused, Silent, MemberConns, Joining,
       Leaving, LeavingOps, Is, TypeOK
  <1>7. Starting'
    BY <1>1, <1>2, OwnersAre DEF Starting, Joined, Owned, Silent, MemberConns, Joining,
       LeavingOps, Begun, Agreed, At, Is, TypeOK
  <1>8. Covered'
    BY <1>1, <1>2, OwnersAre DEF Covered, Torn, Starting, Begun, Owned, Silent, MemberConns, At,
       Is, TypeOK
  <1>9. Agreed'
    BY <1>1, <1>2, OwnersAre DEF Agreed, Torn, Owned, Joined, Silent, Starting, Joining, Leaving,
       LeavingOps, At, Is, TypeOK
  <1>10. Followed'
    BY <1>1, <1>2, OwnersAre DEF Followed, Agreed, Owned, Silent, Starting, Begun, Heard, Excused,
       Failed, Pausing, Resuming, At, Is, TypeOK
  <1>11. OnlyFailuresLoseTasks'
    BY <1>1, <1>2, OwnersAre DEF OnlyFailuresLoseTasks, Joined, Torn, Starting, Covered, Joining,
       LeavingOps, Is, TypeOK
  <1> QED
    BY <1>1, <1>3, <1>4, <1>5, <1>6, <1>7, <1>8, <1>9, <1>10, <1>11

LEMMA HandshakeStep ==
  ASSUME Inv, NEW c \in Conns, Handshake(c)
  PROVE  Inv'
  <1>1. Taken("handshake", c)
    BY Goes DEF Handshake, clientVars
  <1>2. /\ call' = call
        /\ \/ call = "connect" /\ c = Primary /\ pc'.op \in {"startServer", "phase1"} /\ pc'.of = Primary
           \/ call = "connectGroup" /\ c < GroupSize /\ Is(pc', "handshake", c + 1)
           \/ call = "connectGroup" /\ c = GroupSize /\ Is(pc', "phase1", Primary)
    BY <1>1, OwnersAre DEF Taken, Flow, LeavingFlow, ConnectFlow, GatherFlow, StartFlow, StartGroupFlow,
       PauseFlow, ResumeFlow, StopFlow, Is
  <1> USE DEF Inv, Taken, Handshake, clientVars, connVars, playVars, historyVars
  <1>3. TypeOK'
    BY <1>1, <1>2, OwnersAre DEF TypeOK, SessionStates, TimingTasks, Reports, Causes, Calls
  <1>4. Owned'
    BY <1>1, <1>2, OwnersAre DEF Owned, Torn, Joined, Silent, Unused, MemberConns, Joining,
       Leaving, LeavingOps, Is, TypeOK
  <1>5. Torn'
    BY <1>1, <1>2, OwnersAre DEF Torn, Owned, Covered, Silent, Unused, MemberConns, Leaving,
       Joining, LeavingOps, Is, TypeOK
  <1>6. Joined'
    BY <1>1, <1>2, OwnersAre DEF Joined, Owned, Torn, Unused, Silent, MemberConns, Joining,
       Leaving, LeavingOps, Is, TypeOK
  <1>7. Starting'
    BY <1>1, <1>2, OwnersAre DEF Starting, Joined, Owned, Silent, MemberConns, Joining,
       LeavingOps, Begun, Agreed, At, Is, TypeOK
  <1>8. Covered'
    BY <1>1, <1>2, OwnersAre DEF Covered, Torn, Starting, Begun, Owned, Silent, MemberConns, At,
       Is, TypeOK
  <1>9. Agreed'
    BY <1>1, <1>2, OwnersAre DEF Agreed, Torn, Owned, Joined, Silent, Starting, Joining, Leaving,
       LeavingOps, At, Is, TypeOK
  <1>10. Followed'
    BY <1>1, <1>2, OwnersAre DEF Followed, Agreed, Owned, Silent, Starting, Begun, Heard, Excused,
       Failed, Pausing, Resuming, At, Is, TypeOK
  <1>11. OnlyFailuresLoseTasks'
    BY <1>1, <1>2, OwnersAre DEF OnlyFailuresLoseTasks, Joined, Torn, Starting, Covered, Joining,
       LeavingOps, Is, TypeOK
  <1> QED
    BY <1>1, <1>3, <1>4, <1>5, <1>6, <1>7, <1>8, <1>9, <1>10, <1>11

LEMMA StartServerStep ==
  ASSUME Inv, NEW c \in Conns, StartServer(c)
  PROVE  Inv'
  <1>1. Taken("startServer", c)
    BY Goes DEF StartServer, clientVars
  <1>2. /\ call' = call
        /\ \/ call \in {"connect", "start"} /\ c = Primary /\ Is(pc', "phase1", Primary)
    BY <1>1, OwnersAre DEF Taken, Flow, LeavingFlow, ConnectFlow, GatherFlow, StartFlow, StartGroupFlow,
       PauseFlow, ResumeFlow, StopFlow, Is
  <1> USE DEF Inv, Taken, StartServer, clientVars, connVars, playVars, historyVars
  <1>3. TypeOK'
    BY <1>1, <1>2, OwnersAre DEF TypeOK, SessionStates, TimingTasks, Reports, Causes, Calls
  <1>4. Owned'
    BY <1>1, <1>2, OwnersAre DEF Owned, Torn, Joined, Silent, Unused, MemberConns, Joining,
       Leaving, LeavingOps, Is, TypeOK
  <1>5. Torn'
    BY <1>1, <1>2, OwnersAre DEF Torn, Owned, Covered, Silent, Unused, MemberConns, Leaving,
       Joining, LeavingOps, Is, TypeOK
  <1>6. Joined'
    BY <1>1, <1>2, OwnersAre DEF Joined, Owned, Torn, Unused, Silent, MemberConns, Joining,
       Leaving, LeavingOps, Is, TypeOK
  <1>7. Starting'
    BY <1>1, <1>2, OwnersAre DEF Starting, Joined, Owned, Silent, MemberConns, Joining,
       LeavingOps, Begun, Agreed, At, Is, TypeOK
  <1>8. Covered'
    BY <1>1, <1>2, OwnersAre DEF Covered, Torn, Starting, Begun, Owned, Silent, MemberConns, At,
       Is, TypeOK
  <1>9. Agreed'
    BY <1>1, <1>2, OwnersAre DEF Agreed, Torn, Owned, Joined, Silent, Starting, Joining, Leaving,
       LeavingOps, At, Is, TypeOK
  <1>10. Followed'
    BY <1>1, <1>2, OwnersAre DEF Followed, Agreed, Owned, Silent, Starting, Begun, Heard, Excused,
       Failed, Pausing, Resuming, At, Is, TypeOK
  <1>11. OnlyFailuresLoseTasks'
    BY <1>1, <1>2, OwnersAre DEF OnlyFailuresLoseTasks, Joined, Torn, Starting, Covered, Joining,
       LeavingOps, Is, TypeOK
  <1> QED
    BY <1>1, <1>3, <1>4, <1>5, <1>6, <1>7, <1>8, <1>9, <1>10, <1>11

LEMMA Phase1Step ==
  ASSUME Inv, NEW c \in Conns, Phase1(c)
  PROVE  Inv'
  <1>1. Taken("phase1", c)
    BY Goes DEF Phase1, clientVars
  <1>2. /\ call' = call
        /\ \/ call \in {"connect", "start"} /\ c = Primary /\ Is(pc', "phase2", Primary)
           \/ call = "connectGroup" /\ Is(pc', "phase2", c)
    BY <1>1, OwnersAre DEF Taken, Flow, LeavingFlow, ConnectFlow, GatherFlow, StartFlow, StartGroupFlow,
       PauseFlow, ResumeFlow, StopFlow, Is
  <1> USE DEF Inv, Taken, Phase1, clientVars, connVars, playVars, historyVars, Refused, Now
  <1>3. TypeOK'
    BY <1>1, <1>2, OwnersAre, DoIs DEF TypeOK, SessionStates, TimingTasks, Reports, Causes, Calls
  <1>4. Owned'
    BY <1>1, <1>2, OwnersAre, DoIs DEF Owned, Torn, Joined, Silent, Unused, MemberConns, Joining,
       Leaving, LeavingOps, Is, TypeOK
  <1>5. Torn'
    BY <1>1, <1>2, OwnersAre, DoIs DEF Torn, Owned, Covered, Silent, Unused, MemberConns, Leaving,
       Joining, LeavingOps, Is, TypeOK
  <1>6. Joined'
    BY <1>1, <1>2, OwnersAre, DoIs DEF Joined, Owned, Torn, Unused, Silent, MemberConns, Joining,
       Leaving, LeavingOps, Is, TypeOK
  <1>7. Starting'
    BY <1>1, <1>2, OwnersAre, DoIs DEF Starting, Joined, Owned, Silent, MemberConns, Joining,
       LeavingOps, Begun, Agreed, At, Is, TypeOK
  <1>8. Covered'
    BY <1>1, <1>2, OwnersAre, DoIs DEF Covered, Torn, Starting, Begun, Owned, Silent, MemberConns,
       At, Is, TypeOK
  <1>9. Agreed'
    BY <1>1, <1>2, OwnersAre, DoIs DEF Agreed, Torn, Owned, Joined, Silent, Starting, Joining,
       Leaving, LeavingOps, At, Is, TypeOK
  <1>10. Followed'
    BY <1>1, <1>2, OwnersAre, DoIs DEF Followed, Agreed, Owned, Silent, Starting, Begun, Heard,
       Excused, Failed, Pausing, Resuming, At, Is, TypeOK
  <1>11. OnlyFailuresLoseTasks'
    BY <1>1, <1>2, OwnersAre, DoIs DEF OnlyFailuresLoseTasks, Joined, Torn, Starting, Covered,
       Joining, LeavingOps, Is, TypeOK
  <1> QED
    BY <1>1, <1>3, <1>4, <1>5, <1>6, <1>7, <1>8, <1>9, <1>10, <1>11

LEMMA Phase2Step ==
  ASSUME Inv, NEW c \in Conns, Phase2(c)
  PROVE  Inv'
  <1>1. Taken("phase2", c)
    BY Goes DEF Phase2, clientVars
  <1>2. /\ call' = call
        /\ \/ call = "connect" /\ c = Primary /\ pc'.op \in {"slave", "master", "keepConnection"} /\ pc'.of = Primary
           \/ call = "start" /\ c = Primary /\ pc'.op \in {"slave", "master", "buildSender"} /\ pc'.of = Primary
           \/ call = "connectGroup" /\ c = Primary /\ Is(pc', "master", Primary)
           \/ call = "connectGroup" /\ c # Primary /\ Is(pc', "relay", c)
    BY <1>1, OwnersAre DEF Taken, Flow, LeavingFlow, ConnectFlow, GatherFlow, StartFlow, StartGroupFlow,
       PauseFlow, ResumeFlow, StopFlow, Is
  <1> USE DEF Inv, Taken, Phase2, clientVars, connVars, playVars, historyVars
  <1>3. TypeOK'
    BY <1>1, <1>2, OwnersAre DEF TypeOK, SessionStates, TimingTasks, Reports, Causes, Calls
  <1>4. Owned'
    BY <1>1, <1>2, OwnersAre DEF Owned, Torn, Joined, Silent, Unused, MemberConns, Joining,
       Leaving, LeavingOps, Is, TypeOK
  <1>5. Torn'
    BY <1>1, <1>2, OwnersAre DEF Torn, Owned, Covered, Silent, Unused, MemberConns, Leaving,
       Joining, LeavingOps, Is, TypeOK
  <1>6. Joined'
    BY <1>1, <1>2, OwnersAre DEF Joined, Owned, Torn, Unused, Silent, MemberConns, Joining,
       Leaving, LeavingOps, Is, TypeOK
  <1>7. Starting'
    BY <1>1, <1>2, OwnersAre DEF Starting, Joined, Owned, Silent, MemberConns, Joining,
       LeavingOps, Begun, Agreed, At, Is, TypeOK
  <1>8. Covered'
    BY <1>1, <1>2, OwnersAre DEF Covered, Torn, Starting, Begun, Owned, Silent, MemberConns, At,
       Is, TypeOK
  <1>9. Agreed'
    BY <1>1, <1>2, OwnersAre DEF Agreed, Torn, Owned, Joined, Silent, Starting, Joining, Leaving,
       LeavingOps, At, Is, TypeOK
  <1>10. Followed'
    BY <1>1, <1>2, OwnersAre DEF Followed, Agreed, Owned, Silent, Starting, Begun, Heard, Excused,
       Failed, Pausing, Resuming, At, Is, TypeOK
  <1>11. OnlyFailuresLoseTasks'
    BY <1>1, <1>2, OwnersAre DEF OnlyFailuresLoseTasks, Joined, Torn, Starting, Covered, Joining,
       LeavingOps, Is, TypeOK
  <1> QED
    BY <1>1, <1>3, <1>4, <1>5, <1>6, <1>7, <1>8, <1>9, <1>10, <1>11

LEMMA StartTimingStep ==
  ASSUME Inv, NEW c \in Conns, NEW kind \in TimingTasks, StartTiming(c, kind)
  PROVE  Inv'
  <1>1. Taken(kind, c)
    BY Goes DEF StartTiming, clientVars
  <1>2. /\ call' = call
        /\ \/ call = "connect" /\ c = Primary /\ kind \in {"slave", "master"} /\ Is(pc', "keepConnection", Primary)
           \/ call = "start" /\ c = Primary /\ kind \in {"slave", "master"} /\ Is(pc', "buildSender", Primary)
           \/ call = "connectGroup" /\ c = Primary /\ kind = "master" /\ Is(pc', "request", Primary)
           \/ call = "connectGroup" /\ c # Primary /\ kind = "relay" /\ Is(pc', "request", c)
    BY <1>1, OwnersAre DEF Taken, Flow, LeavingFlow, ConnectFlow, GatherFlow, StartFlow, StartGroupFlow,
       PauseFlow, ResumeFlow, StopFlow, Is, StartTiming
  <1> USE DEF Inv, Taken, StartTiming, clientVars, connVars, playVars, historyVars
  <1>3. TypeOK'
    BY <1>1, <1>2, OwnersAre DEF TypeOK, SessionStates, TimingTasks, Reports, Causes, Calls
  <1>4. Owned'
    BY <1>1, <1>2, OwnersAre DEF Owned, Torn, Joined, Silent, Unused, MemberConns, Joining,
       Leaving, LeavingOps, Is, TypeOK
  <1>5. Torn'
    BY <1>1, <1>2, OwnersAre DEF Torn, Owned, Covered, Silent, Unused, MemberConns, Leaving,
       Joining, LeavingOps, Is, TypeOK
  <1>6. Joined'
    BY <1>1, <1>2, OwnersAre DEF Joined, Owned, Torn, Unused, Silent, MemberConns, Joining,
       Leaving, LeavingOps, Is, TypeOK
  <1>7. Starting'
    BY <1>1, <1>2, OwnersAre DEF Starting, Joined, Owned, Silent, MemberConns, Joining,
       LeavingOps, Begun, Agreed, At, Is, TypeOK
  <1>8. Covered'
    BY <1>1, <1>2, OwnersAre DEF Covered, Torn, Starting, Begun, Owned, Silent, MemberConns, At,
       Is, TypeOK
  <1>9. Agreed'
    BY <1>1, <1>2, OwnersAre DEF Agreed, Torn, Owned, Joined, Silent, Starting, Joining, Leaving,
       LeavingOps, At, Is, TypeOK
  <1>10. Followed'
    BY <1>1, <1>2, OwnersAre DEF Followed, Agreed, Owned, Silent, Starting, Begun, Heard, Excused,
       Failed, Pausing, Resuming, At, Is, TypeOK
  <1>11. OnlyFailuresLoseTasks'
    BY <1>1, <1>2, OwnersAre DEF OnlyFailuresLoseTasks, Joined, Torn, Starting, Covered, Joining,
       LeavingOps, Is, TypeOK
  <1> QED
    BY <1>1, <1>3, <1>4, <1>5, <1>6, <1>7, <1>8, <1>9, <1>10, <1>11

LEMMA RequestStep ==
  ASSUME Inv, NEW c \in Conns, Request(c)
  PROVE  Inv'
  <1>1. Taken("request", c)
    BY Goes DEF Request, clientVars
  <1>2. /\ call' = call
        /\ \/ call = "connectGroup" /\ c = Primary /\ Is(pc', "needClock", Primary)
           \/ call = "connectGroup" /\ c # Primary /\ c < GroupSize /\ Is(pc', "phase1", c + 1)
           \/ call = "connectGroup" /\ c # Primary /\ c = GroupSize /\ Is(pc', "keepGroup", Primary)
           \/ call = "pause" /\ c = Primary /\ Is(pc', "sessionPause", Primary)
           \/ call = "resume" /\ c = Primary /\ Is(pc', "sessionResume", Primary)
    BY <1>1, OwnersAre DEF Taken, Flow, LeavingFlow, ConnectFlow, GatherFlow, StartFlow, StartGroupFlow,
       PauseFlow, ResumeFlow, StopFlow, Is
  <1> USE DEF Inv, Taken, Request, clientVars, connVars, playVars, historyVars
  <1>3. TypeOK'
    BY <1>1, <1>2, OwnersAre DEF TypeOK, SessionStates, TimingTasks, Reports, Causes, Calls
  <1>4. Owned'
    BY <1>1, <1>2, OwnersAre DEF Owned, Torn, Joined, Silent, Unused, MemberConns, Joining,
       Leaving, LeavingOps, Is, TypeOK
  <1>5. Torn'
    BY <1>1, <1>2, OwnersAre DEF Torn, Owned, Covered, Silent, Unused, MemberConns, Leaving,
       Joining, LeavingOps, Is, TypeOK
  <1>6. Joined'
    BY <1>1, <1>2, OwnersAre DEF Joined, Owned, Torn, Unused, Silent, MemberConns, Joining,
       Leaving, LeavingOps, Is, TypeOK
  <1>7. Starting'
    BY <1>1, <1>2, OwnersAre DEF Starting, Joined, Owned, Silent, MemberConns, Joining,
       LeavingOps, Begun, Agreed, At, Is, TypeOK
  <1>8. Covered'
    BY <1>1, <1>2, OwnersAre DEF Covered, Torn, Starting, Begun, Owned, Silent, MemberConns, At,
       Is, TypeOK
  <1>9. Agreed'
    BY <1>1, <1>2, OwnersAre DEF Agreed, Torn, Owned, Joined, Silent, Starting, Joining, Leaving,
       LeavingOps, At, Is, TypeOK
  <1>10. Followed'
    BY <1>1, <1>2, OwnersAre DEF Followed, Agreed, Owned, Silent, Starting, Begun, Heard, Excused,
       Failed, Pausing, Resuming, At, Is, TypeOK
  <1>11. OnlyFailuresLoseTasks'
    BY <1>1, <1>2, OwnersAre DEF OnlyFailuresLoseTasks, Joined, Torn, Starting, Covered, Joining,
       LeavingOps, Is, TypeOK
  <1> QED
    BY <1>1, <1>3, <1>4, <1>5, <1>6, <1>7, <1>8, <1>9, <1>10, <1>11

LEMMA NeedClockStep ==
  ASSUME Inv, NEW c \in Conns, NeedClock(c)
  PROVE  Inv'
  <1>1. Taken("needClock", c)
    BY Goes DEF NeedClock, clientVars
  <1>2. /\ call' = call
        /\ \/ call = "connectGroup" /\ c = Primary /\ Is(pc', "phase1", 2)
           \/ call = "startGroup" /\ c = Primary /\ Is(pc', "startLive", Group)
    BY <1>1, OwnersAre DEF Taken, Flow, LeavingFlow, ConnectFlow, GatherFlow, StartFlow, StartGroupFlow,
       PauseFlow, ResumeFlow, StopFlow, Is
  <1> USE DEF Inv, Taken, NeedClock, clientVars, connVars, playVars, historyVars
  <1>3. TypeOK'
    BY <1>1, <1>2, OwnersAre DEF TypeOK, SessionStates, TimingTasks, Reports, Causes, Calls
  <1>4. Owned'
    BY <1>1, <1>2, OwnersAre DEF Owned, Torn, Joined, Silent, Unused, MemberConns, Joining,
       Leaving, LeavingOps, Is, TypeOK
  <1>5. Torn'
    BY <1>1, <1>2, OwnersAre DEF Torn, Owned, Covered, Silent, Unused, MemberConns, Leaving,
       Joining, LeavingOps, Is, TypeOK
  <1>6. Joined'
    BY <1>1, <1>2, OwnersAre DEF Joined, Owned, Torn, Unused, Silent, MemberConns, Joining,
       Leaving, LeavingOps, Is, TypeOK
  <1>7. Starting'
    BY <1>1, <1>2, OwnersAre DEF Starting, Joined, Owned, Silent, MemberConns, Joining,
       LeavingOps, Begun, Agreed, At, Is, TypeOK
  <1>8. Covered'
    BY <1>1, <1>2, OwnersAre DEF Covered, Torn, Starting, Begun, Owned, Silent, MemberConns, At,
       Is, TypeOK
  <1>9. Agreed'
    BY <1>1, <1>2, OwnersAre DEF Agreed, Torn, Owned, Joined, Silent, Starting, Joining, Leaving,
       LeavingOps, At, Is, TypeOK
  <1>10. Followed'
    BY <1>1, <1>2, OwnersAre DEF Followed, Agreed, Owned, Silent, Starting, Begun, Heard, Excused,
       Failed, Pausing, Resuming, At, Is, TypeOK
  <1>11. OnlyFailuresLoseTasks'
    BY <1>1, <1>2, OwnersAre DEF OnlyFailuresLoseTasks, Joined, Torn, Starting, Covered, Joining,
       LeavingOps, Is, TypeOK
  <1> QED
    BY <1>1, <1>3, <1>4, <1>5, <1>6, <1>7, <1>8, <1>9, <1>10, <1>11

LEMMA KeepStep ==
  ASSUME Inv, NEW op \in {"keepConnection", "keepGroup"}, Keep(op)
  PROVE  Inv'
  <1>1. Taken(op, Primary)
    <2>1. todo # <<>> /\ pc.op = op /\ pc.of = Primary
      BY NowIs DEF Keep
    <2>2. call \in {"connect", "connectGroup"}
      BY <2>1, FlowsOn, OwnersAre DEF Inv, Flow, LeavingFlow, ConnectFlow, GatherFlow, StartFlow,
         StartGroupFlow,
       PauseFlow, ResumeFlow, StopFlow, Is
    <2> HIDE DEF Flow
    <2> QED
      BY <2>2, Goes DEF Keep
  <1>2. /\ call' = "none" /\ pc'.op = "done"
        /\ \/ call = "connect" /\ op = "keepConnection"
           \/ call = "connectGroup" /\ op = "keepGroup"
    BY <1>1, OwnersAre DEF Taken, Flow, LeavingFlow, ConnectFlow, GatherFlow, StartFlow, StartGroupFlow,
       PauseFlow, ResumeFlow, StopFlow, Is, Keep
  <1> USE DEF Inv, Taken, Keep, clientVars, connVars, playVars, historyVars
  <1>3. TypeOK'
    BY <1>1, <1>2, OwnersAre DEF TypeOK, SessionStates, TimingTasks, Reports, Causes, Calls
  <1>4. Owned'
    <2>1. /\ playback'[Group] = "None" /\ \A c \in MemberConns : playback'[c] = playback[c]
          /\ \A p \in Owners : streamer'[p] = streamer[p] /\ listener'[p] = listener[p]
      BY OwnersAre DEF MemberConns, TypeOK
    <2>2. ~grouped /\ Joining
      BY <1>1, <1>2, OwnersAre DEF Joined, Joining, LeavingOps
    <2>3. Silent(Group)' /\ \A c \in MemberConns : Silent(c)'
      BY <2>1, <2>2, OwnersAre DEF Owned, Silent, MemberConns
    <2>4. ~grouped' => \A c \in MemberConns : Unused(c)'
      BY <1>1, <1>2, <2>2 DEF Joined, Unused
    <2> QED
      BY <1>2, <2>3, <2>4 DEF Owned
  <1>5. Torn'
    BY <1>1, <1>2, OwnersAre DEF Torn, Owned, Covered, Silent, Unused, MemberConns, Leaving,
       Joining, LeavingOps, Is, TypeOK
  <1>6. Joined'
    BY <1>1, <1>2, OwnersAre DEF Joined, Owned, Torn, Unused, Silent, MemberConns, Joining,
       Leaving, LeavingOps, Is, TypeOK
  <1>7. Starting'
    BY <1>1, <1>2, OwnersAre DEF Starting, Joined, Owned, Silent, MemberConns, Joining,
       LeavingOps, Begun, Agreed, At, Is, TypeOK
  <1>8. Covered'
    BY <1>1, <1>2, OwnersAre DEF Covered, Torn, Starting, Begun, Owned, Silent, MemberConns, At,
       Is, TypeOK
  <1>9. Agreed'
    BY <1>1, <1>2, OwnersAre DEF Agreed, Torn, Owned, Joined, Silent, Starting, Joining, Leaving,
       LeavingOps, At, Is, TypeOK
  <1>10. Followed'
    BY <1>1, <1>2, OwnersAre DEF Followed, Agreed, Owned, Silent, Starting, Begun, Heard, Excused,
       Failed, Pausing, Resuming, At, Is, TypeOK
  <1>11. OnlyFailuresLoseTasks'
    BY <1>1, <1>2, OwnersAre DEF OnlyFailuresLoseTasks, Joined, Torn, Starting, Covered, Joining,
       LeavingOps, Is, TypeOK
  <1> QED
    BY <1>1, <1>3, <1>4, <1>5, <1>6, <1>7, <1>8, <1>9, <1>10, <1>11

LEMMA BuildSenderStep ==
  ASSUME Inv, NEW p \in Owners, BuildSender(p)
  PROVE  Inv'
  <1>1. Taken("buildSender", p)
    BY Goes DEF BuildSender, clientVars
  <1>2. /\ call' = call
        /\ \/ call = "start" /\ p = Primary /\ Is(pc', "startLive", Primary)
           \/ call = "startGroup" /\ p = Group /\ Is(pc', "needClock", Primary)
    BY <1>1, OwnersAre DEF Taken, Flow, LeavingFlow, ConnectFlow, GatherFlow, StartFlow, StartGroupFlow,
       PauseFlow, ResumeFlow, StopFlow, Is
  <1> USE DEF Inv, Taken, BuildSender, clientVars, connVars, playVars, historyVars
  <1>3. TypeOK'
    BY <1>1, <1>2, OwnersAre DEF TypeOK, SessionStates, TimingTasks, Reports, Causes, Calls
  <1>4. Owned'
    BY <1>1, <1>2, OwnersAre DEF Owned, Torn, Joined, Silent, Unused, MemberConns, Joining,
       Leaving, LeavingOps, Is, TypeOK
  <1>5. Torn'
    BY <1>1, <1>2, OwnersAre DEF Torn, Owned, Covered, Silent, Unused, MemberConns, Leaving,
       Joining, LeavingOps, Is, TypeOK
  <1>6. Joined'
    BY <1>1, <1>2, OwnersAre DEF Joined, Owned, Torn, Unused, Silent, MemberConns, Joining,
       Leaving, LeavingOps, Is, TypeOK
  <1>7. Starting'
    BY <1>1, <1>2, OwnersAre DEF Starting, Joined, Owned, Silent, MemberConns, Joining,
       LeavingOps, Begun, Agreed, At, Is, TypeOK
  <1>8. Covered'
    BY <1>1, <1>2, OwnersAre DEF Covered, Torn, Starting, Begun, Owned, Silent, MemberConns, At,
       Is, TypeOK
  <1>9. Agreed'
    BY <1>1, <1>2, OwnersAre DEF Agreed, Torn, Owned, Joined, Silent, Starting, Joining, Leaving,
       LeavingOps, At, Is, TypeOK
  <1>10. Followed'
    BY <1>1, <1>2, OwnersAre DEF Followed, Agreed, Owned, Silent, Starting, Begun, Heard, Excused,
       Failed, Pausing, Resuming, At, Is, TypeOK
  <1>11. OnlyFailuresLoseTasks'
    BY <1>1, <1>2, OwnersAre DEF OnlyFailuresLoseTasks, Joined, Torn, Starting, Covered, Joining,
       LeavingOps, Is, TypeOK
  <1> QED
    BY <1>1, <1>3, <1>4, <1>5, <1>6, <1>7, <1>8, <1>9, <1>10, <1>11

LEMMA StartLiveStep ==
  ASSUME Inv, NEW p \in Owners, StartLive(p)
  PROVE  Inv'
  <1>1. Taken("startLive", p)
    BY Goes DEF StartLive, clientVars
  <1>2. /\ call' = call
        /\ \/ call = "start" /\ p = Primary /\ Is(pc', "sessionPlay", Primary)
           \/ call = "startGroup" /\ p = Group /\ Is(pc', "keepStreamer", Group)
    BY <1>1, OwnersAre DEF Taken, Flow, LeavingFlow, ConnectFlow, GatherFlow, StartFlow, StartGroupFlow,
       PauseFlow, ResumeFlow, StopFlow, Is
  <1> USE DEF Inv, Taken, StartLive, clientVars, connVars, playVars, historyVars
  <1>3. TypeOK'
    BY <1>1, <1>2, OwnersAre, FreshIs DEF TypeOK, SessionStates, TimingTasks, Reports, Causes, Calls
  <1>4. Owned'
    BY <1>1, <1>2, OwnersAre, FreshIs DEF Owned, Torn, Joined, Silent, Unused, MemberConns,
       Joining, Leaving, LeavingOps, Is, TypeOK
  <1>5. Torn'
    BY <1>1, <1>2, OwnersAre, FreshIs DEF Torn, Owned, Covered, Silent, Unused, MemberConns,
       Leaving, Joining, LeavingOps, Is, TypeOK
  <1>6. Joined'
    BY <1>1, <1>2, OwnersAre, FreshIs DEF Joined, Owned, Torn, Unused, Silent, MemberConns,
       Joining, Leaving, LeavingOps, Is, TypeOK
  <1>7. Starting'
    BY <1>1, <1>2, OwnersAre, FreshIs DEF Starting, Joined, Owned, Silent, MemberConns, Joining,
       LeavingOps, Begun, Agreed, At, Is, TypeOK
  <1>8. Covered'
    BY <1>1, <1>2, OwnersAre, FreshIs DEF Covered, Torn, Starting, Begun, Owned, Silent,
       MemberConns, At, Is, TypeOK
  <1>9. Agreed'
    BY <1>1, <1>2, OwnersAre, FreshIs DEF Agreed, Torn, Owned, Joined, Silent, Starting, Joining,
       Leaving, LeavingOps, At, Is, TypeOK
  <1>10. Followed'
    BY <1>1, <1>2, OwnersAre, FreshIs DEF Followed, Agreed, Owned, Silent, Starting, Begun, Heard,
       Excused, Failed, Pausing, Resuming, At, Is, TypeOK
  <1>11. OnlyFailuresLoseTasks'
    BY <1>1, <1>2, OwnersAre, FreshIs DEF OnlyFailuresLoseTasks, Joined, Torn, Starting, Covered,
       Joining, LeavingOps, Is, TypeOK
  <1> QED
    BY <1>1, <1>3, <1>4, <1>5, <1>6, <1>7, <1>8, <1>9, <1>10, <1>11

LEMMA SessionPlayStep ==
  ASSUME Inv, NEW c \in Conns, SessionPlay(c)
  PROVE  Inv'
  <1>1. Taken("sessionPlay", c)
    BY Goes DEF SessionPlay, clientVars
  <1>2. /\ call' = call
        /\ \/ call = "start" /\ c = Primary /\ Is(pc', "keepStreamer", Primary)
    BY <1>1, OwnersAre DEF Taken, Flow, LeavingFlow, ConnectFlow, GatherFlow, StartFlow, StartGroupFlow,
       PauseFlow, ResumeFlow, StopFlow, Is
  <1> USE DEF Inv, Taken, SessionPlay, clientVars, connVars, playVars, historyVars, Refused, Now
  <1>3. TypeOK'
    BY <1>1, <1>2, OwnersAre, DoIs DEF TypeOK, SessionStates, TimingTasks, Reports, Causes, Calls
  <1>4. Owned'
    BY <1>1, <1>2, OwnersAre, DoIs DEF Owned, Torn, Joined, Silent, Unused, MemberConns, Joining,
       Leaving, LeavingOps, Is, TypeOK
  <1>5. Torn'
    BY <1>1, <1>2, OwnersAre, DoIs DEF Torn, Owned, Covered, Silent, Unused, MemberConns, Leaving,
       Joining, LeavingOps, Is, TypeOK
  <1>6. Joined'
    BY <1>1, <1>2, OwnersAre, DoIs DEF Joined, Owned, Torn, Unused, Silent, MemberConns, Joining,
       Leaving, LeavingOps, Is, TypeOK
  <1>7. Starting'
    BY <1>1, <1>2, OwnersAre, DoIs DEF Starting, Joined, Owned, Silent, MemberConns, Joining,
       LeavingOps, Begun, Agreed, At, Is, TypeOK
  <1>8. Covered'
    BY <1>1, <1>2, OwnersAre, DoIs DEF Covered, Torn, Starting, Begun, Owned, Silent, MemberConns,
       At, Is, TypeOK
  <1>9. Agreed'
    BY <1>1, <1>2, OwnersAre, DoIs DEF Agreed, Torn, Owned, Joined, Silent, Starting, Joining,
       Leaving, LeavingOps, At, Is, TypeOK
  <1>10. Followed'
    BY <1>1, <1>2, OwnersAre, DoIs DEF Followed, Agreed, Owned, Silent, Starting, Begun, Heard,
       Excused, Failed, Pausing, Resuming, At, Is, TypeOK
  <1>11. OnlyFailuresLoseTasks'
    BY <1>1, <1>2, OwnersAre, DoIs DEF OnlyFailuresLoseTasks, Joined, Torn, Starting, Covered,
       Joining, LeavingOps, Is, TypeOK
  <1> QED
    BY <1>1, <1>3, <1>4, <1>5, <1>6, <1>7, <1>8, <1>9, <1>10, <1>11

LEMMA KeepStreamerStep ==
  ASSUME Inv, NEW p \in Owners, KeepStreamer(p)
  PROVE  Inv'
  <1>1. Taken("keepStreamer", p)
    BY Goes DEF KeepStreamer, clientVars
  <1>2. /\ call' = "none" /\ pc'.op = "done"
        /\ \/ call = "start" /\ p = Primary
           \/ call = "startGroup" /\ p = Group
    BY <1>1, OwnersAre DEF Taken, Flow, LeavingFlow, ConnectFlow, GatherFlow, StartFlow, StartGroupFlow,
       PauseFlow, ResumeFlow, StopFlow, Is
  <1> USE DEF Inv, Taken, KeepStreamer, clientVars, connVars, playVars, historyVars
  <1>3. TypeOK'
    BY <1>1, <1>2, OwnersAre, FreshIs DEF TypeOK, SessionStates, TimingTasks, Reports, Causes, Calls
  <1>4. Owned'
    BY <1>1, <1>2, OwnersAre, FreshIs DEF Owned, Torn, Joined, Silent, Unused, MemberConns,
       Joining, Leaving, LeavingOps, Is, TypeOK
  <1>5. Torn'
    BY <1>1, <1>2, OwnersAre, FreshIs DEF Torn, Owned, Covered, Silent, Unused, MemberConns,
       Leaving, Joining, LeavingOps, Is, TypeOK
  <1>6. Joined'
    BY <1>1, <1>2, OwnersAre, FreshIs DEF Joined, Owned, Torn, Unused, Silent, MemberConns,
       Joining, Leaving, LeavingOps, Is, TypeOK
  <1>7. Starting'
    BY <1>1, <1>2, OwnersAre, FreshIs DEF Starting, Joined, Owned, Silent, MemberConns, Joining,
       LeavingOps, Begun, Agreed, At, Is, TypeOK
  <1>8. Covered'
    BY <1>1, <1>2, OwnersAre, FreshIs DEF Covered, Torn, Starting, Begun, Owned, Silent,
       MemberConns, At, Is, TypeOK
  <1>9. Agreed'
    BY <1>1, <1>2, OwnersAre, FreshIs DEF Agreed, Torn, Owned, Joined, Silent, Starting, Joining,
       Leaving, LeavingOps, At, Is, TypeOK
  <1>10. Followed'
    BY <1>1, <1>2, OwnersAre, FreshIs DEF Followed, Agreed, Owned, Silent, Starting, Begun, Heard,
       Excused, Failed, Pausing, Resuming, At, Is, TypeOK
  <1>11. OnlyFailuresLoseTasks'
    BY <1>1, <1>2, OwnersAre, FreshIs DEF OnlyFailuresLoseTasks, Starting, At, Is, TypeOK
  <1> QED
    BY <1>1, <1>3, <1>4, <1>5, <1>6, <1>7, <1>8, <1>9, <1>10, <1>11

LEMMA PauseStreamerStep ==
  ASSUME Inv, NEW p \in Owners, PauseStreamer(p)
  PROVE  Inv'
  <1>1. Taken("pauseStreamer", p)
    BY Goes DEF PauseStreamer, clientVars
  <1>2. /\ call = "pause" /\ call' = call
        /\ \/ p = Group /\ Is(pc', "pauseStreamer", Primary)
           \/ p = Primary /\ Is(pc', "request", Primary)
    BY <1>1, OwnersAre DEF Taken, Flow, LeavingFlow, ConnectFlow, GatherFlow, StartFlow, StartGroupFlow,
       PauseFlow, ResumeFlow, StopFlow, Is
  <1> USE DEF Inv, Taken, PauseStreamer, clientVars, connVars, playVars, historyVars
  <1>3. TypeOK'
    BY <1>1, <1>2, OwnersAre, FreshIs, MethodsAre DEF TypeOK, SessionStates, TimingTasks, Reports,
       Causes, Calls
  <1>4. Owned'
    BY <1>1, <1>2, OwnersAre, FreshIs, MethodsAre DEF Owned, Torn, Joined, Silent, Unused,
       MemberConns, Joining, Leaving, LeavingOps, Is, TypeOK
  <1>5. Torn'
    BY <1>1, <1>2, OwnersAre, FreshIs, MethodsAre DEF Torn, Owned, Covered, Silent, Unused,
       MemberConns, Leaving, Joining, LeavingOps, Is, TypeOK
  <1>6. Joined'
    BY <1>1, <1>2, OwnersAre, FreshIs, MethodsAre DEF Joined, Owned, Torn, Unused, Silent,
       MemberConns, Joining, Leaving, LeavingOps, Is, TypeOK
  <1>7. Starting'
    BY <1>1, <1>2, OwnersAre, FreshIs, MethodsAre DEF Starting, Joined, Owned, Silent,
       MemberConns, Joining, LeavingOps, Begun, Agreed, At, Is, TypeOK
  <1>8. Covered'
    BY <1>1, <1>2, OwnersAre, FreshIs, MethodsAre DEF Covered, Torn, Starting, Begun, Owned,
       Silent, MemberConns, At, Is, TypeOK
  <1>9. Agreed'
    BY <1>1, <1>2, OwnersAre, FreshIs, MethodsAre DEF Agreed, Torn, Owned, Joined, Silent,
       Starting, Joining, Leaving, LeavingOps, At, Is, TypeOK
  <1>10. Followed'
    <2>1. /\ streamer' = [streamer EXCEPT ![p] = PausedBy(streamer[p])]
          /\ drift' = [drift EXCEPT ![p] = IF streamer[p].state = "Buffering" THEN {"missed"} ELSE {}]
          /\ playback' = playback /\ grouped' = grouped
      OBVIOUS
    <2> HIDE DEF PauseStreamer
    <2>2. Heard(p)' => Excused(p)'
      BY <2>1, MethodsAre DEF Heard, Excused, TypeOK
    <2>3. \A q \in {Group, Primary} \ {p} : streamer'[q] = streamer[q] /\ drift'[q] = drift[q]
      BY <2>1 DEF TypeOK
    <2>4. streamer'[p].state = "Paused" => Pausing(p)'
      BY <1>1, <1>2, <2>1, OwnersAre, FreshIs, MethodsAre DEF Pausing, Owned, Silent, At, Is, TypeOK
    <2>5. \A q \in {Group, Primary} : ~Resuming(q)' /\ ~Resuming(q)
      BY <1>1, <1>2 DEF Resuming
    <2>6. \A q \in {Group, Primary} \ {p} : Pausing(q)' <=> Pausing(q)
      BY <1>1, <1>2, <2>1, OwnersAre DEF Pausing, At, Is
    <2>7. ASSUME NEW q \in {Group, Primary} \ {p}
          PROVE  /\ playback'[q] = "Paused" /\ Heard(q)' => Excused(q)'
                 /\ Pausing(q)' /\ Heard(q)' => Excused(q)'
                 /\ playback'[q] = "Playing" /\ streamer'[q].state = "Paused" => Failed(q)' \/ Pausing(q)'
      BY <2>1, <2>3, <2>5, <2>6 DEF Followed, Heard, Excused, Failed
    <2> QED
      BY <2>2, <2>4, <2>5, <2>7 DEF Followed
  <1>11. OnlyFailuresLoseTasks'
    BY <1>1, <1>2, OwnersAre, FreshIs, MethodsAre DEF OnlyFailuresLoseTasks, Joined, Torn,
       Starting, Covered, Joining, LeavingOps, Is, TypeOK
  <1> QED
    BY <1>1, <1>3, <1>4, <1>5, <1>6, <1>7, <1>8, <1>9, <1>10, <1>11

LEMMA SessionPauseStep ==
  ASSUME Inv, NEW c \in Conns, SessionPause(c)
  PROVE  Inv'
  <1>1. Taken("sessionPause", c)
    BY Goes DEF SessionPause, clientVars
  <1>2. /\ call = "pause" /\ c = Primary
        /\ \/ ~grouped /\ pc'.op = "done" /\ call' = "none"
           \/ Is(pc', "reportPaused", Group) /\ call' = call
    BY <1>1, OwnersAre DEF Taken, Flow, LeavingFlow, ConnectFlow, GatherFlow, StartFlow, StartGroupFlow,
       PauseFlow, ResumeFlow, StopFlow, Is
  <1> USE DEF Inv, Taken, SessionPause, clientVars, connVars, playVars, historyVars, Refused, Now
  <1>3. TypeOK'
    BY <1>1, <1>2, OwnersAre, DoIs DEF TypeOK, SessionStates, TimingTasks, Reports, Causes, Calls
  <1>4. Owned'
    BY <1>1, <1>2, OwnersAre, DoIs DEF Owned, Torn, Joined, Silent, Unused, MemberConns, Joining,
       Leaving, LeavingOps, Is, TypeOK
  <1>5. Torn'
    BY <1>1, <1>2, OwnersAre, DoIs DEF Torn, Owned, Covered, Silent, Unused, MemberConns, Leaving,
       Joining, LeavingOps, Is, TypeOK
  <1>6. Joined'
    BY <1>1, <1>2, OwnersAre, DoIs DEF Joined, Owned, Torn, Unused, Silent, MemberConns, Joining,
       Leaving, LeavingOps, Is, TypeOK
  <1>7. Starting'
    BY <1>1, <1>2, OwnersAre, DoIs DEF Starting, Joined, Owned, Silent, MemberConns, Joining,
       LeavingOps, Begun, Agreed, At, Is, TypeOK
  <1>8. Covered'
    BY <1>1, <1>2, OwnersAre, DoIs DEF Covered, Torn, Starting, Begun, Owned, Silent, MemberConns,
       At, Is, TypeOK
  <1>9. Agreed'
    BY <1>1, <1>2, OwnersAre, DoIs DEF Agreed, Torn, Owned, Joined, Silent, Starting, Joining,
       Leaving, LeavingOps, At, Is, TypeOK
  <1>10. Followed'
    BY <1>1, <1>2, OwnersAre, DoIs DEF Followed, Agreed, Owned, Silent, Starting, Begun, Heard,
       Excused, Failed, Pausing, Resuming, At, Is, TypeOK
  <1>11. OnlyFailuresLoseTasks'
    BY <1>1, <1>2, OwnersAre, DoIs DEF OnlyFailuresLoseTasks, Joined, Torn, Starting, Covered,
       Joining, LeavingOps, Is, TypeOK
  <1> QED
    BY <1>1, <1>3, <1>4, <1>5, <1>6, <1>7, <1>8, <1>9, <1>10, <1>11

LEMMA ResumeStreamerStep ==
  ASSUME Inv, NEW p \in Owners, ResumeStreamer(p)
  PROVE  Inv'
  <1>1. Taken("resumeStreamer", p)
    BY Goes DEF ResumeStreamer, clientVars
  <1>2. /\ call = "resume" /\ call' = call
        /\ \/ p = Group /\ Is(pc', "reportPlaying", Group)
           \/ p = Primary /\ Is(pc', "request", Primary)
    BY <1>1, OwnersAre DEF Taken, Flow, LeavingFlow, ConnectFlow, GatherFlow, StartFlow, StartGroupFlow,
       PauseFlow, ResumeFlow, StopFlow, Is
  <1> USE DEF Inv, Taken, ResumeStreamer, clientVars, connVars, playVars, historyVars
  <1>3. TypeOK'
    BY <1>1, <1>2, OwnersAre, FreshIs, MethodsAre DEF TypeOK, SessionStates, TimingTasks, Reports,
       Causes, Calls
  <1>4. Owned'
    BY <1>1, <1>2, OwnersAre, FreshIs, MethodsAre DEF Owned, Torn, Joined, Silent, Unused,
       MemberConns, Joining, Leaving, LeavingOps, Is, TypeOK
  <1>5. Torn'
    BY <1>1, <1>2, OwnersAre, FreshIs, MethodsAre DEF Torn, Owned, Covered, Silent, Unused,
       MemberConns, Leaving, Joining, LeavingOps, Is, TypeOK
  <1>6. Joined'
    BY <1>1, <1>2, OwnersAre, FreshIs, MethodsAre DEF Joined, Owned, Torn, Unused, Silent,
       MemberConns, Joining, Leaving, LeavingOps, Is, TypeOK
  <1>7. Starting'
    BY <1>1, <1>2, OwnersAre, FreshIs, MethodsAre DEF Starting, Joined, Owned, Silent,
       MemberConns, Joining, LeavingOps, Begun, Agreed, At, Is, TypeOK
  <1>8. Covered'
    BY <1>1, <1>2, OwnersAre, FreshIs, MethodsAre DEF Covered, Torn, Starting, Begun, Owned,
       Silent, MemberConns, At, Is, TypeOK
  <1>9. Agreed'
    BY <1>1, <1>2, OwnersAre, FreshIs, MethodsAre DEF Agreed, Torn, Owned, Joined, Silent,
       Starting, Joining, Leaving, LeavingOps, At, Is, TypeOK
  <1>10. Followed'
    BY <1>1, <1>2, OwnersAre, FreshIs, MethodsAre DEF Followed, Agreed, Owned, Silent, Starting,
       Begun, Heard, Excused, Failed, Pausing, Resuming, At, Is, TypeOK
  <1>11. OnlyFailuresLoseTasks'
    BY <1>1, <1>2, OwnersAre, FreshIs, MethodsAre DEF OnlyFailuresLoseTasks, Joined, Torn,
       Starting, Covered, Joining, LeavingOps, Is, TypeOK
  <1> QED
    BY <1>1, <1>3, <1>4, <1>5, <1>6, <1>7, <1>8, <1>9, <1>10, <1>11

LEMMA SessionResumeStep ==
  ASSUME Inv, NEW c \in Conns, SessionResume(c)
  PROVE  Inv'
  <1>1. Taken("sessionResume", c)
    BY Goes DEF SessionResume, clientVars
  <1>2. /\ call = "resume" /\ c = Primary
        /\ \/ ~grouped /\ pc'.op = "done" /\ call' = "none"
           \/ Is(pc', "resumeStreamer", Group) /\ call' = call
    BY <1>1, OwnersAre DEF Taken, Flow, LeavingFlow, ConnectFlow, GatherFlow, StartFlow, StartGroupFlow,
       PauseFlow, ResumeFlow, StopFlow, Is
  <1> USE DEF Inv, Taken, SessionResume, clientVars, connVars, playVars, historyVars, Refused, Now
  <1>3. TypeOK'
    BY <1>1, <1>2, OwnersAre, DoIs DEF TypeOK, SessionStates, TimingTasks, Reports, Causes, Calls
  <1>4. Owned'
    BY <1>1, <1>2, OwnersAre, DoIs DEF Owned, Torn, Joined, Silent, Unused, MemberConns, Joining,
       Leaving, LeavingOps, Is, TypeOK
  <1>5. Torn'
    BY <1>1, <1>2, OwnersAre, DoIs DEF Torn, Owned, Covered, Silent, Unused, MemberConns, Leaving,
       Joining, LeavingOps, Is, TypeOK
  <1>6. Joined'
    BY <1>1, <1>2, OwnersAre, DoIs DEF Joined, Owned, Torn, Unused, Silent, MemberConns, Joining,
       Leaving, LeavingOps, Is, TypeOK
  <1>7. Starting'
    BY <1>1, <1>2, OwnersAre, DoIs DEF Starting, Joined, Owned, Silent, MemberConns, Joining,
       LeavingOps, Begun, Agreed, At, Is, TypeOK
  <1>8. Covered'
    BY <1>1, <1>2, OwnersAre, DoIs DEF Covered, Torn, Starting, Begun, Owned, Silent, MemberConns,
       At, Is, TypeOK
  <1>9. Agreed'
    BY <1>1, <1>2, OwnersAre, DoIs DEF Agreed, Torn, Owned, Joined, Silent, Starting, Joining,
       Leaving, LeavingOps, At, Is, TypeOK
  <1>10. Followed'
    BY <1>1, <1>2, OwnersAre, DoIs DEF Followed, Agreed, Owned, Silent, Starting, Begun, Heard,
       Excused, Failed, Pausing, Resuming, At, Is, TypeOK
  <1>11. OnlyFailuresLoseTasks'
    BY <1>1, <1>2, OwnersAre, DoIs DEF OnlyFailuresLoseTasks, Joined, Torn, Starting, Covered,
       Joining, LeavingOps, Is, TypeOK
  <1> QED
    BY <1>1, <1>3, <1>4, <1>5, <1>6, <1>7, <1>8, <1>9, <1>10, <1>11

LEMMA ReportStep ==
  ASSUME Inv, NEW p \in Owners, NEW op \in {"reportStopped", "reportPaused", "reportPlaying"}, Report(p, op)
  PROVE  Inv'
  <1>1. Taken(op, p)
    BY Goes DEF Report, clientVars
  <1>2. \/ call = "pause" /\ p = Group /\ op = "reportPaused" /\ pc'.op = "done" /\ call' = "none"
        \/ call = "resume" /\ p = Group /\ op = "reportPlaying" /\ pc'.op = "done" /\ call' = "none"
        \/ call = "stop" /\ p = Primary /\ op = "reportStopped" /\ ~grouped /\ pc'.op = "done" /\ call' = "none"
        \/ call = "stop" /\ p = Primary /\ op = "reportStopped" /\ Is(pc', "reportStopped", Group) /\ call' = call
        \/ call = "stop" /\ p = Group /\ op = "reportStopped" /\ pc'.op = "done" /\ call' = "none"
    BY <1>1, OwnersAre DEF Taken, Flow, LeavingFlow, ConnectFlow, GatherFlow, StartFlow, StartGroupFlow,
       PauseFlow, ResumeFlow, StopFlow, Is
  <1> USE DEF Inv, Taken, Report, clientVars, connVars, playVars, historyVars
  <1>3. TypeOK'
    BY <1>1, <1>2, OwnersAre DEF TypeOK, SessionStates, TimingTasks, Reports, Causes, Calls
  <1>4. Owned'
    <2> DEFINE v == IF op = "reportStopped" THEN IF p = Group THEN "None" ELSE "Stopped"
                  ELSE IF playback[p] = "None" THEN "None"
                  ELSE IF op = "reportPaused" THEN "Paused" ELSE "Playing"
    <2>0. playback' = [playback EXCEPT ![p] = v]
      OBVIOUS
    <2>9. /\ v = "Paused" => op = "reportPaused" /\ playback[p] # "None"
          /\ v = "Playing" => op = "reportPlaying"
          /\ p = Group /\ playback[p] = "None" => v = "None"
      OBVIOUS
    <2> HIDE DEF v
    <2>1. /\ \A q \in Owners \ {p} : playback'[q] = playback[q]
          /\ p = Group /\ playback[p] = "None" => playback'[p] = "None"
      BY <2>0, <2>9 DEF TypeOK
    <2>2. /\ connected' = connected /\ grouped' = grouped /\ UNCHANGED <<streamer, listener, session, tasks>>
          /\ call = "stop" /\ p = Primary => connected
          /\ \A q \in Owners : Silent(q) /\ q # Primary => Silent(q)'
      <3>1. \A q \in Owners : Silent(q) /\ q # Primary => Silent(q)'
        BY <1>2, <2>1 DEF Silent
      <3>2. call = "stop" => connected
        BY <1>1 DEF Owned, Joining
      <3> QED
        BY <3>1, <3>2
    <2>3. connected /\ ~Joining /\ ~Joining'
      BY <1>1, <1>2 DEF Owned, Joining
    <2> HIDE DEF Report
    <2> QED
      BY <1>1, <1>2, <2>2, <2>3, OwnersAre DEF Owned, MemberConns, Unused
  <1>5. Torn'
    BY <1>1, <1>2, OwnersAre DEF Torn, Owned, Covered, Silent, Unused, MemberConns, Leaving,
       Joining, LeavingOps, Is, TypeOK
  <1>6. Joined'
    BY <1>1, <1>2, OwnersAre DEF Joined, Owned, Torn, Unused, Silent, MemberConns, Joining,
       Leaving, LeavingOps, Is, TypeOK
  <1>7. Starting'
    BY <1>1, <1>2, OwnersAre DEF Starting, Joined, Owned, Silent, MemberConns, Joining,
       LeavingOps, Begun, Agreed, At, Is, TypeOK
  <1>8. Covered'
    BY <1>1, <1>2, OwnersAre DEF Covered, Torn, Starting, Begun, Owned, Silent, MemberConns, At,
       Is, TypeOK
  <1>9. Agreed'
    BY <1>1, <1>2, OwnersAre DEF Agreed, Torn, Owned, Joined, Silent, Starting, Joining, Leaving,
       LeavingOps, At, Is, TypeOK
  <1>10. Followed'
    <2> DEFINE v == IF op = "reportStopped" THEN IF p = Group THEN "None" ELSE "Stopped"
                  ELSE IF playback[p] = "None" THEN "None"
                  ELSE IF op = "reportPaused" THEN "Paused" ELSE "Playing"
    <2>0. playback' = [playback EXCEPT ![p] = v]
      OBVIOUS
    <2>9. /\ v = "Paused" => op = "reportPaused" /\ playback[p] # "None"
          /\ v = "Playing" => op = "reportPlaying"
          /\ p = Group /\ playback[p] = "None" => v = "None"
      OBVIOUS
    <2> HIDE DEF v
    <2>1. /\ \A q \in Owners \ {p} : playback'[q] = playback[q]
          /\ playback'[p] = "Paused" => call = "pause" /\ playback[p] # "None"
          /\ playback'[p] = "Playing" => call = "resume"
          /\ UNCHANGED <<streamer, drift, grouped>>
      BY <1>2, <2>0, <2>9 DEF TypeOK
    <2> HIDE DEF Report
    <2>2. \A q \in {Group, Primary} :
            /\ ~Pausing(q)' /\ ~Resuming(q)'
            /\ q # p => ~Pausing(q) /\ ~Resuming(q)
      BY <1>1, <1>2, OwnersAre DEF Pausing, Resuming, At, Is
    <2>3. ASSUME NEW q \in {Group, Primary}, q # p
          PROVE  /\ playback'[q] = "Paused" /\ Heard(q)' => Excused(q)'
                 /\ playback'[q] = "Playing" /\ streamer'[q].state = "Paused" => Failed(q)'
      BY <2>1, <2>2, <2>3, OwnersAre DEF Followed, Heard, Excused, Failed
    <2>4. playback'[p] = "Paused" /\ Heard(p)' => Excused(p)'
      <3>1. SUFFICES ASSUME playback'[p] = "Paused" PROVE Heard(p) => Excused(p)
        BY <2>1 DEF Heard, Excused
      <3>2. p = Group /\ grouped /\ Pausing(p)
        BY <1>1, <1>2, <2>1, <3>1, OwnersAre DEF Owned, Silent, Pausing, At, Is
      <3> QED
        BY <3>2 DEF Followed
    <2>5. playback'[p] = "Playing" => streamer'[p].state # "Paused"
      <3>1. SUFFICES ASSUME call = "resume" PROVE streamer[p].state # "Paused"
        BY <2>1
      <3>2. p = Group /\ Resuming(p)
        BY <1>1, <1>2, <3>1, OwnersAre DEF Resuming, At, Is
      <3> QED
        BY <3>2 DEF Followed
    <2>6. ASSUME NEW q \in {Group, Primary}
          PROVE  /\ playback'[q] = "Paused" /\ Heard(q)' => Excused(q)'
                 /\ playback'[q] = "Playing" /\ streamer'[q].state = "Paused" => Failed(q)'
                 /\ ~Pausing(q)' /\ ~Resuming(q)'
      <3>1. CASE q = p
        BY <2>2, <2>4, <2>5, <3>1 DEF Heard, Excused
      <3>2. CASE q # p
        BY <2>2, <2>3, <3>2
      <3> QED
        BY <3>1, <3>2
    <2> QED
      BY <2>6 DEF Followed
  <1>11. OnlyFailuresLoseTasks'
    BY <1>1, <1>2, OwnersAre DEF OnlyFailuresLoseTasks, Joined, Torn, Starting, Covered, Joining,
       LeavingOps, Is, TypeOK
  <1> QED
    BY <1>1, <1>3, <1>4, <1>5, <1>6, <1>7, <1>8, <1>9, <1>10, <1>11

LEMMA WaitSeesStoppedStep ==
  ASSUME Inv, WaitSeesStopped
  PROVE  Inv'
  <1>1. Taken("wait", Primary)
    BY Goes DEF WaitSeesStopped, clientVars
  <1>2. call = "wait" /\ call' = "none" /\ pc'.op = "done"
    BY <1>1, OwnersAre DEF Taken, Flow, LeavingFlow, ConnectFlow, GatherFlow, StartFlow, StartGroupFlow,
       PauseFlow, ResumeFlow, StopFlow, Is
  <1> USE DEF Inv, Taken, WaitSeesStopped, clientVars, connVars, playVars, historyVars
  <1>3. TypeOK'
    BY <1>1, <1>2, OwnersAre DEF TypeOK, SessionStates, TimingTasks, Reports, Causes, Calls
  <1>4. Owned'
    BY <1>1, <1>2, OwnersAre DEF Owned, Torn, Joined, Silent, Unused, MemberConns, Joining,
       Leaving, LeavingOps, Is, TypeOK
  <1>5. Torn'
    BY <1>1, <1>2, OwnersAre DEF Torn, Owned, Covered, Silent, Unused, MemberConns, Leaving,
       Joining, LeavingOps, Is, TypeOK
  <1>6. Joined'
    BY <1>1, <1>2, OwnersAre DEF Joined, Owned, Torn, Unused, Silent, MemberConns, Joining,
       Leaving, LeavingOps, Is, TypeOK
  <1>7. Starting'
    BY <1>1, <1>2, OwnersAre DEF Starting, Joined, Owned, Silent, MemberConns, Joining,
       LeavingOps, Begun, Agreed, At, Is, TypeOK
  <1>8. Covered'
    BY <1>1, <1>2, OwnersAre DEF Covered, Torn, Starting, Begun, Owned, Silent, MemberConns, At,
       Is, TypeOK
  <1>9. Agreed'
    BY <1>1, <1>2, OwnersAre DEF Agreed, Torn, Owned, Joined, Silent, Starting, Joining, Leaving,
       LeavingOps, At, Is, TypeOK
  <1>10. Followed'
    BY <1>1, <1>2, OwnersAre DEF Followed, Agreed, Owned, Silent, Starting, Begun, Heard, Excused,
       Failed, Pausing, Resuming, At, Is, TypeOK
  <1>11. OnlyFailuresLoseTasks'
    BY <1>1, <1>2, OwnersAre DEF OnlyFailuresLoseTasks, Joined, Torn, Starting, Covered, Joining,
       LeavingOps, Is, TypeOK
  <1> QED
    BY <1>1, <1>3, <1>4, <1>5, <1>6, <1>7, <1>8, <1>9, <1>10, <1>11

LEMMA BeginStep ==
  ASSUME Inv, NEW name \in Calls, Begin(name)
  PROVE  Inv'
  <1>1. /\ call' = name /\ todo' = Steps(name) /\ lost' = {}
        /\ call = "none" /\ todo = <<>> /\ pc = Done /\ Done.op = "done"
        /\ name \in {"connect", "connectGroup"} \/ connected
        /\ name = "startGroup" => grouped
        /\ UNCHANGED <<clientVars, connVars, playVars, drift, deaf>>
    BY DoIs DEF Inv, InFlow, Begin, Idle, Callable, pc, Done
  <1>2. /\ Flows(name, Steps(name)) /\ FirstOf(name, Steps(name)) /\ EndsWithGroup(name, Steps(name))
        /\ Steps(name) \in Seq(Step) /\ Len(Steps(name)) > 0
    <2>1. grouped => connected
      BY DEF Inv, TypeOK
    <2> QED
      BY <2>1, CallFlows DEF Inv, TypeOK, Begin, Flows
  <1>3. InFlow'
    <2>1. name # "none"
      BY DEF Calls
    <2>2. Steps(name) # <<>>
      <3>1. \A s : s = <<>> => Len(s) = 0
        OBVIOUS
      <3> QED
        BY <1>2, <3>1
    <2>3. Flows(call, todo)' /\ EndsWithGroup(call, todo)'
      BY <1>1, <1>2 DEF Flows, EndsWithGroup, clientVars
    <2> QED
      BY <1>1, <1>2, <2>1, <2>2, <2>3 DEF InFlow
  <1>4. /\ pc' = Steps(name)[1]
        /\ Ahead' = IF Len(Steps(name)) > 1 THEN Steps(name)[2] ELSE Done
    <2>1. /\ todo' \in Seq(Step) /\ Len(todo') > 0
          /\ Steps(name) = todo'
      BY <1>1, <1>2
    <2>2. todo' # <<>>
      BY <1>1, <1>3 DEF InFlow, Calls
    <2>3. Head(todo') = todo'[1]
      BY <2>1
    <2> QED
      BY <2>1, <2>2, <2>3 DEF pc, Ahead, Done
  <1>5. /\ name \in {"connect", "connectGroup", "disconnect"} =>
             IF connected THEN Is(pc', "stopListener", IF grouped THEN Group ELSE Primary)
             ELSE Is(pc', "handshake", Primary)
        /\ name = "start" => Is(pc', "stopListener", Primary)
        /\ name = "start" /\ session[Primary] # "Ready" => Ahead'.op # "buildSender"
        /\ name = "startGroup" => Is(pc', "stopListener", Group)
        /\ name = "pause" => Is(pc', "pauseStreamer", IF grouped THEN Group ELSE Primary)
        /\ name = "resume" => Is(pc', "resumeStreamer", Primary)
        /\ name = "stop" => Is(pc', "stopListener", IF grouped THEN Group ELSE Primary)
        /\ name = "wait" => Is(pc', "wait", Primary)
    BY <1>1, <1>2, <1>4 DEF FirstOf
  <1>6. /\ pc'.op \in {"stopListener", "handshake", "pauseStreamer", "resumeStreamer", "wait"}
        /\ pc'.of \in {Group, Primary}
        /\ pc'.op = "handshake" => name \in {"connect", "connectGroup"} /\ ~connected
        /\ pc'.op = "stopListener" => connected
        /\ pc'.op = "stopListener" /\ name \notin {"start", "startGroup"} => (pc'.of = Group <=> grouped)
        /\ pc'.op = "pauseStreamer" => name = "pause" /\ (pc'.of = Group <=> grouped)
        /\ name = "pause" => pc'.op = "pauseStreamer"
        /\ pc'.op = "wait" => name = "wait"
        /\ pc'.op = "resumeStreamer" => name = "resume" /\ pc'.of = Primary
        /\ name = "resume" => pc'.op = "resumeStreamer"
        /\ name = "start" /\ session[Primary] # "Ready" => Ahead'.op # "buildSender"
        /\ name = "startGroup" => pc'.op = "stopListener"
        /\ name = "start" => pc'.op = "stopListener"
    BY <1>1, <1>5, OwnersAre DEF Is, Calls
  <1> USE DEF Inv, clientVars, connVars, playVars, historyVars, Calls
  <1>7. TypeOK'
    BY <1>1, <1>6, OwnersAre DEF TypeOK, SessionStates, TimingTasks, Reports, Causes, Calls
  <1>8. Owned'
    BY <1>1, <1>6, OwnersAre DEF Owned, Torn, Joined, Silent, Unused, MemberConns, Joining,
       Leaving, LeavingOps, Is, TypeOK
  <1>9. Torn'
    BY <1>1, <1>6, OwnersAre DEF Torn, Owned, Covered, Silent, Unused, MemberConns, Leaving,
       Joining, LeavingOps, Is, TypeOK
  <1>10. Joined'
    <2>1. SUFFICES ASSUME Joining' PROVE Joined'
      BY DEF Joined
    <2>2. ~connected /\ ~grouped /\ ~Joining
      BY <1>1, <1>6, <2>1 DEF Joining, LeavingOps, TypeOK
    <2>3. Silent(Primary) /\ \A c \in Conns : Unused(c)
      BY <2>2 DEF Owned, MemberConns
    <2>4. Silent(Primary)' /\ \A c \in Conns : session'[c] = "None" /\ tasks'[c] = {}
      BY <1>1, <2>3 DEF Silent, Unused
    <2>5. ~connected' /\ ~grouped'
      BY <1>1, <2>2
    <2> HIDE DEF Inv
    <2> QED
      BY <2>4, <2>5, OwnersAre DEF Joined, Unused, MemberConns
  <1>11. Starting'
    BY <1>1, <1>6, OwnersAre DEF Starting, Joined, Owned, Silent, MemberConns, Joining,
       LeavingOps, Begun, Agreed, At, Is, TypeOK
  <1>12. Covered'
    BY <1>1, <1>6, OwnersAre DEF Covered, Torn, Starting, Begun, Owned, Silent, MemberConns, At,
       Is, TypeOK
  <1>13. Agreed'
    BY <1>1, <1>6, OwnersAre DEF Agreed, Torn, Owned, Joined, Silent, Starting, Joining, Leaving,
       LeavingOps, At, Is, TypeOK
  <1>14. Followed'
    BY <1>1, <1>6, OwnersAre DEF Followed, Agreed, Owned, Silent, Starting, Begun, Heard, Excused,
       Failed, Pausing, Resuming, At, Is, TypeOK
  <1>15. OnlyFailuresLoseTasks'
    BY <1>1, <1>6, OwnersAre DEF OnlyFailuresLoseTasks, Joined, Torn, Starting, Covered, Joining,
       LeavingOps, Is, TypeOK
  <1> QED
    BY <1>3, <1>7, <1>8, <1>9, <1>10, <1>11, <1>12, <1>13, <1>14, <1>15

LEMMA FailStep ==
  ASSUME Inv, Fail
  PROVE  Inv'
  <1>1. /\ todo # <<>> /\ pc = Head(todo) /\ todo' = <<>> /\ call' = "none" /\ call # "none"
        /\ pc' = Done /\ pc'.op = "done" /\ InFlow'
    <2>1. todo # <<>> /\ todo' = <<>> /\ call' = "none"
      BY DEF Fail
    <2>2. InFlow' /\ call # "none"
      BY <2>1 DEF Inv, InFlow
    <2> QED
      BY <2>1, <2>2, DoIs DEF pc, Done
  <1>2. pc \in Step /\ Flow(call, pc, Ahead) /\ call \in Calls
    BY <1>1, FlowsOn DEF Inv
  <1>3. /\ \/ pc.op \in Fallible
           \/ pc.op = "sessionPlay" /\ call = "start" /\ pc.of = Primary /\ session[Primary] \notin {"Ready", "Paused"}
           \/ pc.op = "sessionPause" /\ call = "pause" /\ pc.of = Primary /\ session[Primary] # "Playing"
           \/ pc.op = "sessionResume" /\ call = "resume" /\ pc.of = Primary /\ session[Primary] \notin {"Ready", "Paused"}
           \/ pc.op = "needClock" /\ call \in {"connectGroup", "startGroup"}
        /\ pc.op \notin LeavingOps
    <2>1. pc.op \in Fallible \/ pc.op \in {"sessionPlay", "sessionPause", "sessionResume", "needClock"}
      BY <1>1 DEF Fail, Refused, Fallible
    <2>2. pc.op \notin LeavingOps
      BY <2>1 DEF Fallible, LeavingOps
    <2>3. /\ pc.op = "sessionPlay" => call = "start" /\ pc.of = Primary
          /\ pc.op = "sessionPause" => call = "pause" /\ pc.of = Primary
          /\ pc.op = "sessionResume" => call = "resume" /\ pc.of = Primary
          /\ pc.op = "needClock" => call \in {"connectGroup", "startGroup"}
      BY <1>2 DEF Flow, LeavingFlow, ConnectFlow, GatherFlow, StartFlow, StartGroupFlow,
         PauseFlow, ResumeFlow, StopFlow, Is
    <2>4. pc.op \notin Fallible => Refused
      BY <1>1 DEF Fail
    <2>5. /\ Refused /\ pc.op = "sessionPlay" => session[pc.of] \notin {"Ready", "Paused"}
          /\ Refused /\ pc.op = "sessionPause" => session[pc.of] # "Playing"
          /\ Refused /\ pc.op = "sessionResume" => session[pc.of] \notin {"Ready", "Paused"}
      BY <1>1 DEF Refused
    <2> QED
      BY <2>1, <2>2, <2>3, <2>4, <2>5
  <1>4. /\ pc.op # "sessionPlay" /\ local = NoStreamer /\ local.task = "none"
        /\ pc.op \notin {"keepStreamer", "keepConnection", "keepGroup"}
    BY <1>3, FreshIs DEF Inv, Starting, Fallible
  <1>5. /\ local' = NoStreamer /\ UNCHANGED <<timing, connected, grouped, streamer, listener, playback>>
        /\ deaf' = (deaf \/ (call = "start" /\ streamer[Primary] # NoStreamer))
        /\ drift' = DriftOnError
    BY DEF Fail, clientVars
  <1>6. CASE call \in {"connect", "connectGroup"}
    <2>1. Joining
      BY <1>3, <1>6 DEF Joining
    <2>2. DropConnections
      BY <1>6 DEF Fail
    <2>3. /\ Silent(Primary) /\ \A c \in MemberConns : Silent(c)
          /\ Silent(Group) /\ ~connected /\ ~grouped
      BY <2>1 DEF Inv, Joined, Owned
    <2>4. \A q \in Owners : q = Group \/ q = Primary \/ q \in MemberConns
      BY OwnersAre DEF MemberConns
    <2>5. /\ \A c \in Conns : session'[c] = "None" /\ tasks'[c] = {} /\ clock'[c] = FALSE
          /\ \A q \in Owners : Silent(q)'
          /\ ~connected' /\ ~grouped'
      BY <1>5, <2>2, <2>3, <2>4 DEF DropConnections, Silent
    <2>6. lost' \subseteq {<<"ntp", "connect">>, <<"ntp", "start">>,
                        <<"master", "connectGroup">>, <<"relay", "connectGroup">>}
      <3>1. \A c \in Conns : tasks[c] \subseteq IF call = "connect" THEN {"ntp"} ELSE {"master", "relay"}
        BY <1>4, <1>6, <2>1, OwnersAre DEF Inv, Joined, Unused, MemberConns
      <3>2. lost' = lost \cup {<<t, call>> : t \in UNION {tasks[c] : c \in Conns}}
        BY <2>2 DEF DropConnections
      <3> QED
        BY <1>6, <3>1, <3>2 DEF Inv, OnlyFailuresLoseTasks
    <2>7. TypeOK'
      BY <1>1, <1>5, <2>2, FreshIs DEF Inv, TypeOK, DropConnections, DriftOnError, Causes,
         SessionStates
    <2>8. Owned' /\ Torn' /\ Joined' /\ Starting' /\ Covered' /\ Agreed' /\ Followed'
      <3>1. NoStreamer.task = "none" /\ NoStreamer.state = "Idle"
        BY FreshIs
      <3>2. \A c \in Conns : Unused(c)'
        BY <2>5 DEF Unused
      <3>3. Owned' /\ Torn' /\ Joined'
        BY <1>1, <2>5, <3>2, OwnersAre DEF Owned, Torn, Joined, Joining, Leaving, MemberConns
      <3>4. Starting' /\ Covered' /\ Agreed'
        BY <1>1, <1>5, <2>5, <3>1, OwnersAre DEF Starting, Covered, Agreed, Silent, At, Is
      <3>5. Followed'
        BY <1>1, <2>5, <3>1, OwnersAre DEF Followed, Silent, Heard, Pausing, Resuming
      <3> QED
        BY <3>3, <3>4, <3>5
    <2> QED
      BY <1>1, <2>6, <2>7, <2>8 DEF Inv, OnlyFailuresLoseTasks
  <1>7. CASE call \notin {"connect", "connectGroup"}
    <2>1. connected /\ UNCHANGED <<session, tasks, clock, lost>>
      BY <1>1, <1>4, <1>7 DEF Fail, connVars, Inv, Owned, Joining
    <2>2. TypeOK'
      BY <1>1, <1>3, <1>4, <1>5, <1>7, <2>1, OwnersAre, FreshIs DEF TypeOK, SessionStates,
         TimingTasks, Reports, Causes, Calls, Inv, DriftOnError, Fallible
    <2>3. Owned'
      BY <1>1, <1>3, <1>4, <1>5, <1>7, <2>1, OwnersAre, FreshIs DEF Owned, Torn, Joined, Silent,
         Unused, MemberConns, Joining, Leaving, LeavingOps, Is, TypeOK, Inv, DriftOnError,
         Fallible
    <2>4. Torn'
      BY <1>1, <1>3, <1>4, <1>5, <1>7, <2>1, OwnersAre, FreshIs DEF Torn, Owned, Covered, Silent,
         Unused, MemberConns, Leaving, Joining, LeavingOps, Is, TypeOK, Inv, DriftOnError,
         Fallible
    <2>5. Joined'
      BY <1>1, <1>3, <1>4, <1>5, <1>7, <2>1, OwnersAre, FreshIs DEF Joined, Owned, Torn, Unused,
         Silent, MemberConns, Joining, Leaving, LeavingOps, Is, TypeOK, Inv, DriftOnError,
         Fallible
    <2>6. Starting'
      BY <1>1, <1>3, <1>4, <1>5, <1>7, <2>1, OwnersAre, FreshIs DEF Starting, Joined, Owned,
         Silent, MemberConns, Joining, LeavingOps, Begun, Agreed, At, Is, TypeOK, Inv,
         DriftOnError, Fallible
    <2>7. Covered'
      BY <1>1, <1>3, <1>4, <1>5, <1>7, <2>1, OwnersAre, FreshIs DEF Covered, Torn, Starting,
         Begun, Owned, Silent, MemberConns, At, Is, TypeOK, Inv, DriftOnError, Fallible
    <2>8. Agreed'
      BY <1>1, <1>3, <1>4, <1>5, <1>7, <2>1, OwnersAre, FreshIs DEF Agreed, Torn, Owned, Joined,
         Silent, Starting, Joining, Leaving, LeavingOps, At, Is, TypeOK, Inv, DriftOnError,
         Fallible
    <2>9. Followed'
      <3>1. ASSUME NEW q \in {Group, Primary}
            PROVE  /\ playback'[q] = "Paused" /\ Heard(q)' => Excused(q)'
                   /\ playback'[q] = "Playing" /\ streamer'[q].state = "Paused" => Failed(q)'
                   /\ ~Pausing(q)' /\ ~Resuming(q)'
        <4>1. /\ playback[q] = "Paused" /\ Heard(q) => Excused(q) \/ Resuming(q)
              /\ playback[q] = "Playing" /\ streamer[q].state = "Paused" => Failed(q) \/ Pausing(q)
          BY DEF Inv, Followed
        <4>2. q \in Owners /\ (q = Group \/ q = Primary) /\ Group # Primary
          BY OwnersAre
        <4>3. /\ drift[q] \subseteq drift'[q]
              /\ pc.op = "request" /\ call = "pause" => "request" \in drift'[q]
              /\ pc.op = "request" /\ call = "resume" /\ q = Primary => "request" \in drift'[q]
              /\ pc.op = "sessionPause" /\ q = Group => "session" \in drift'[q]
          BY <1>1, <1>5, <4>2 DEF DriftOnError
        <4>4. Excused(q) => Excused(q)'
          BY <4>3 DEF Excused
        <4>5. Failed(q) => Failed(q)'
          BY <4>3 DEF Failed
        <4>6. Heard(q)' <=> Heard(q)
          BY <1>5 DEF Heard
        <4>7. Resuming(q) /\ playback[q] = "Paused" => Excused(q)'
          <5>1. SUFFICES ASSUME Resuming(q), playback[q] = "Paused" PROVE Excused(q)'
            OBVIOUS
          <5>2. q = Primary /\ pc.op \in {"request", "sessionResume"} /\ call = "resume"
            BY <1>3, <4>2, <5>1 DEF Resuming, At, Is, Fallible
          <5>3. session[Primary] = "Paused"
            BY <1>3, <5>1, <5>2 DEF Inv, Agreed, At, Is, Fallible
          <5>4. pc.op = "request"
            BY <1>3, <5>2, <5>3 DEF Fallible
          <5> QED
            BY <4>3, <5>2, <5>4 DEF Excused
        <4>8. Pausing(q) /\ playback[q] = "Playing" => Failed(q)'
          <5>1. SUFFICES ASSUME Pausing(q), playback[q] = "Playing" PROVE Failed(q)'
            OBVIOUS
          <5>2. call = "pause" /\ pc.op \in {"request", "sessionPause"}
            BY <1>2, <1>3, <5>1 DEF Pausing, Fallible, Flow, PauseFlow, Is
          <5>3. pc.op = "sessionPause" => q = Group
            BY <1>3, <4>2, <5>1 DEF Inv, Agreed, At, Is, Fallible
          <5> QED
            BY <4>3, <5>2, <5>3 DEF Failed
        <4> QED
          BY <1>1, <1>5, <4>1, <4>4, <4>5, <4>6, <4>7, <4>8 DEF Pausing, Resuming
      <3> QED
        BY <3>1 DEF Followed
    <2>10. OnlyFailuresLoseTasks'
      BY <1>1, <1>3, <1>4, <1>5, <1>7, <2>1, OwnersAre, FreshIs DEF OnlyFailuresLoseTasks, Joined,
         Torn, Starting, Covered, Joining, LeavingOps, Is, TypeOK, Inv, DriftOnError, Fallible
    <2> QED
      BY <1>1, <2>2, <2>3, <2>4, <2>5, <2>6, <2>7, <2>8, <2>9, <2>10 DEF Inv
  <1> QED
    BY <1>6, <1>7

LEMMA LiveStep ==
  ASSUME Inv, NEW p \in Owners, Live(p)
  PROVE  Inv'
  <1>1. PICK next \in Moves(streamer[p]) :
          /\ streamer' = [streamer EXCEPT ![p] = next]
          /\ drift' = [drift EXCEPT ![p] =
               IF streamer[p].state = "Paused" /\ next.state = "Buffering"
               THEN @ \cup {"underrun"} ELSE @]
    BY DEF Live
  <1>2. /\ UNCHANGED <<timing, connected, grouped, session, tasks, clock, listener, playback, local,
                      call, todo, lost, deaf>>
        /\ InFlow' /\ pc' = pc /\ Ahead' = Ahead
    BY DEF Live, clientVars, connVars, Inv, InFlow, Flows, EndsWithGroup, pc, Ahead
  <1> DEFINE s == streamer[p]
  <1>3. s \in Streamers
    BY DEF Inv, TypeOK
  <1>4. /\ next \in Streamers /\ s # NoStreamer /\ next # NoStreamer
        /\ s.task \in {"running", "aborted"} /\ next.task \in {"running", "aborted", "done"}
        /\ s.task = "running" => next.task \in {"running", "done"}
        /\ next.task = "running" => s.task = "running"
        /\ next.state = "Paused" => s.state = "Paused"
        /\ next.task = "running" /\ next.state \in {"Buffering", "Streaming"} =>
             \/ s.state \in {"Buffering", "Streaming"}
             \/ s.state = "Paused" /\ next.state = "Buffering"
    BY <1>1, <1>3, MovesAre
  <1>5. p \in {Group, Primary}
    BY <1>4, OwnersAre DEF Inv, Owned, Silent, MemberConns
  <1> USE DEF Inv
  <1>6. TypeOK'
    BY <1>1, <1>2, <1>4, <1>5, OwnersAre DEF TypeOK, SessionStates, TimingTasks, Reports, Causes,
       Calls
  <1>7. Owned'
    BY <1>1, <1>2, <1>4, <1>5, OwnersAre DEF Owned, Torn, Joined, Silent, Unused, MemberConns,
       Joining, Leaving, LeavingOps, Is, TypeOK
  <1>8. Torn'
    BY <1>1, <1>2, <1>4, <1>5, OwnersAre DEF Torn, Owned, Covered, Silent, Unused, MemberConns,
       Leaving, Joining, LeavingOps, Is, TypeOK
  <1>9. Joined'
    BY <1>1, <1>2, <1>4, <1>5, OwnersAre DEF Joined, Owned, Torn, Unused, Silent, MemberConns,
       Joining, Leaving, LeavingOps, Is, TypeOK
  <1>10. Starting'
    BY <1>1, <1>2, <1>4, <1>5, OwnersAre DEF Starting, Joined, Owned, Silent, MemberConns,
       Joining, LeavingOps, Begun, Agreed, At, Is, TypeOK
  <1>11. Covered'
    BY <1>1, <1>2, <1>4, <1>5, OwnersAre DEF Covered, Torn, Starting, Begun, Owned, Silent,
       MemberConns, At, Is, TypeOK
  <1>12. Agreed'
    BY <1>1, <1>2, <1>4, <1>5, OwnersAre DEF Agreed, Torn, Owned, Joined, Silent, Starting,
       Joining, Leaving, LeavingOps, At, Is, TypeOK
  <1>13. Followed'
    <2>1. ASSUME NEW q \in {Group, Primary}
          PROVE  /\ playback'[q] = "Paused" /\ Heard(q)' => Excused(q)' \/ Resuming(q)'
                 /\ Pausing(q)' /\ Heard(q)' => Excused(q)'
                 /\ playback'[q] = "Playing" /\ streamer'[q].state = "Paused" => Failed(q)' \/ Pausing(q)'
                 /\ Resuming(q)' => streamer'[q].state # "Paused"
      <3>1. (Pausing(q)' <=> Pausing(q)) /\ (Resuming(q)' <=> Resuming(q))
        BY <1>2 DEF Pausing, Resuming, At, Is
      <3>2. /\ playback[q] = "Paused" /\ Heard(q) => Excused(q) \/ Resuming(q)
            /\ Pausing(q) /\ Heard(q) => Excused(q)
            /\ playback[q] = "Playing" /\ streamer[q].state = "Paused" => Failed(q) \/ Pausing(q)
            /\ Resuming(q) => streamer[q].state # "Paused"
        BY DEF Followed
      <3>3. Excused(q) => Excused(q)'
        BY <1>1, OwnersAre DEF Excused, TypeOK
      <3>4. Failed(q) => Failed(q)'
        BY <1>1, OwnersAre DEF Failed, TypeOK
      <3>5. streamer'[q].state = "Paused" => streamer[q].state = "Paused"
        BY <1>1, <1>4, OwnersAre DEF TypeOK
      <3>6. Heard(q)' => Heard(q) \/ Excused(q)'
        BY <1>1, <1>4, OwnersAre DEF Heard, Excused, TypeOK
      <3> QED
        BY <1>2, <3>1, <3>2, <3>3, <3>4, <3>5, <3>6
    <2> QED
      BY <2>1 DEF Followed
  <1>14. OnlyFailuresLoseTasks'
    BY <1>1, <1>2, <1>4, <1>5, OwnersAre DEF OnlyFailuresLoseTasks, Joined, Torn, Starting,
       Covered, Joining, LeavingOps, Is, TypeOK
  <1> QED
    BY <1>2, <1>6, <1>7, <1>8, <1>9, <1>10, <1>11, <1>12, <1>13, <1>14

LEMMA LocalStep ==
  ASSUME Inv, LocalLives
  PROVE  Inv'
  <1>1. PICK next \in Moves(local) : local' = next
    BY DEF LocalLives
  <1>2. /\ UNCHANGED <<timing, connected, grouped, session, tasks, clock, streamer, listener, playback,
                      call, todo, lost, drift, deaf>>
        /\ InFlow' /\ pc' = pc /\ Ahead' = Ahead
    BY DEF LocalLives, clientVars, connVars, historyVars, Inv, InFlow, Flows, EndsWithGroup, pc,
       Ahead
  <1>3. /\ next \in Streamers /\ local # NoStreamer
        /\ local.task = "running" => next.task \in {"running", "done"}
        /\ local.task \in {"running", "aborted"}
        /\ next.state = "Paused" => local.state = "Paused"
    BY <1>1, MovesAre DEF Inv, TypeOK
  <1> USE DEF Inv
  <1>4. TypeOK'
    BY <1>1, <1>2, <1>3, OwnersAre DEF TypeOK, SessionStates, TimingTasks, Reports, Causes, Calls
  <1>5. Owned'
    BY <1>1, <1>2, <1>3, OwnersAre DEF Owned, Torn, Joined, Silent, Unused, MemberConns, Joining,
       Leaving, LeavingOps, Is, TypeOK
  <1>6. Torn'
    BY <1>1, <1>2, <1>3, OwnersAre DEF Torn, Owned, Covered, Silent, Unused, MemberConns, Leaving,
       Joining, LeavingOps, Is, TypeOK
  <1>7. Joined'
    BY <1>1, <1>2, <1>3, OwnersAre DEF Joined, Owned, Torn, Unused, Silent, MemberConns, Joining,
       Leaving, LeavingOps, Is, TypeOK
  <1>8. Starting'
    BY <1>1, <1>2, <1>3, OwnersAre DEF Starting, Joined, Owned, Silent, MemberConns, Joining,
       LeavingOps, Begun, Agreed, At, Is, TypeOK
  <1>9. Covered'
    BY <1>1, <1>2, <1>3, OwnersAre DEF Covered, Torn, Starting, Begun, Owned, Silent, MemberConns,
       At, Is, TypeOK
  <1>10. Agreed'
    BY <1>1, <1>2, <1>3, OwnersAre DEF Agreed, Torn, Owned, Joined, Silent, Starting, Joining,
       Leaving, LeavingOps, At, Is, TypeOK
  <1>11. Followed'
    BY <1>1, <1>2, <1>3, OwnersAre DEF Followed, Agreed, Owned, Silent, Starting, Begun, Heard,
       Excused, Failed, Pausing, Resuming, At, Is, TypeOK
  <1>12. OnlyFailuresLoseTasks'
    BY <1>1, <1>2, <1>3, OwnersAre DEF OnlyFailuresLoseTasks, Joined, Torn, Starting, Covered,
       Joining, LeavingOps, Is, TypeOK
  <1> QED
    BY <1>2, <1>4, <1>5, <1>6, <1>7, <1>8, <1>9, <1>10, <1>11, <1>12

-----------------------------------------------------------------------------
(* Whatever happens, Inv stays. *)

LEMMA StutterStep ==
  ASSUME Inv, UNCHANGED vars
  PROVE  Inv'
  <1> USE DEF vars, clientVars, connVars, playVars, historyVars
  <1>1. pc' = pc /\ Ahead' = Ahead
    BY DEF pc, Ahead
  <1>2. TypeOK' /\ InFlow' /\ OnlyFailuresLoseTasks'
    BY DEF Inv, TypeOK, InFlow, Flows, EndsWithGroup, OnlyFailuresLoseTasks
  <1>3. Owned' /\ Torn' /\ Joined'
    BY <1>1 DEF Inv, Owned, Torn, Joined, Silent, Unused, Joining, Leaving
  <1>4. Starting' /\ Covered' /\ Agreed'
    BY <1>1 DEF Inv, Starting, Covered, Agreed, At, Is
  <1>5. Followed'
    BY <1>1 DEF Inv, Followed, Heard, Excused, Failed, Pausing, Resuming, At, Is
  <1> QED
    BY <1>2, <1>3, <1>4, <1>5 DEF Inv

LEMMA InvNext ==
  ASSUME Inv, [Next]_vars
  PROVE  Inv'
  <1>1. ASSUME NEW name \in Calls, Begin(name) PROVE Inv'
    BY <1>1, BeginStep
  <1>2. ASSUME Fail PROVE Inv'
    BY <1>2, FailStep
  <1>3. ASSUME NEW c \in Conns,
               \/ Handshake(c) \/ StartServer(c) \/ Phase1(c) \/ Phase2(c) \/ Request(c) \/ NeedClock(c)
        PROVE  Inv'
    BY <1>3, HandshakeStep, StartServerStep, Phase1Step, Phase2Step, RequestStep, NeedClockStep
  <1>4. ASSUME NEW c \in Conns,
               \/ SessionPlay(c) \/ SessionPause(c) \/ SessionResume(c)
               \/ EndTasks(c) \/ Teardown(c) \/ Close(c)
        PROVE  Inv'
    BY <1>4, SessionPlayStep, SessionPauseStep, SessionResumeStep, EndTasksStep, TeardownStep,
       CloseStep
  <1>5. ASSUME NEW c \in Conns, NEW kind \in TimingTasks, StartTiming(c, kind) PROVE Inv'
    BY <1>5, StartTimingStep
  <1>6. ASSUME NEW op \in {"keepConnection", "keepGroup"}, Keep(op) PROVE Inv'
    BY <1>6, KeepStep
  <1>7. ASSUME NEW p \in Owners,
               \/ StopListener(p) \/ StopStreamer(p) \/ BuildSender(p) \/ StartLive(p)
               \/ KeepStreamer(p) \/ PauseStreamer(p) \/ ResumeStreamer(p) \/ Live(p)
        PROVE  Inv'
    BY <1>7, StopListenerStep, StopStreamerStep, BuildSenderStep, StartLiveStep, KeepStreamerStep,
       PauseStreamerStep, ResumeStreamerStep, LiveStep
  <1>8. ASSUME NEW p \in Owners, NEW op \in {"reportStopped", "reportPaused", "reportPlaying"}, Report(p, op)
        PROVE  Inv'
    BY <1>8, ReportStep
  <1>9. ASSUME Ungroup \/ WaitSeesStopped \/ LocalLives PROVE Inv'
    BY <1>9, UngroupStep, WaitSeesStoppedStep, LocalStep
  <1>10. ASSUME UNCHANGED vars PROVE Inv'
    BY <1>10, StutterStep
  <1> QED
    BY <1>1, <1>2, <1>3, <1>4, <1>5, <1>6, <1>7, <1>8, <1>9, <1>10 DEF Next

\* What the assertions say holds at every step of every call, for all sequences of calls.
THEOREM InvAlways == Spec => []Inv
  BY InitInv, InvNext, PTL DEF Spec

-----------------------------------------------------------------------------
(* What follows for the application. *)

\* Every variable has its type; only a connected client has a group.
THEOREM Typed == Spec => []TypeOK
  <1>1. Inv => TypeOK
    BY DEF Inv
  <1> QED
    BY <1>1, InvAlways, PTL

\* No way out of a call leaves what is reported ahead of the RTSP session.
THEOREM Agrees == Spec => []SessionAgrees
  <1>1. Inv => SessionAgrees
    <2> SUFFICES ASSUME Inv, Idle PROVE SessionAgrees
      BY DEF SessionAgrees
    <2>1. call = "none" /\ pc.op = "done"
      BY DoIs DEF Inv, InFlow, Idle, pc, Done
    <2>2. \A c \in Conns : c = Primary \/ playback[c] = "None"
      BY DEF Inv, Owned, Silent, MemberConns
    <2> QED
      BY <2>1, <2>2 DEF Inv, Agreed, SessionAgrees, At, Is
  <1> QED
    BY <1>1, InvAlways, PTL

\* A player does what is reported, but for the reasons that are named.
THEOREM Follows == Spec => []StreamerFollows
  <1>1. Inv => StreamerFollows
    <2> SUFFICES ASSUME Inv, Idle, NEW p \in {Group, Primary}
                 PROVE  /\ playback[p] = "Paused" /\ streamer[p] = [state |-> "Streaming", task |-> "running"]
                             => Excused(p)
                        /\ playback[p] = "Playing" /\ streamer[p].state = "Paused" => Failed(p)
      BY DEF StreamerFollows, Excused, Failed
    <2>1. ~Pausing(p) /\ ~Resuming(p)
      BY DEF Idle, Pausing, Resuming
    <2>2. streamer[p] = [state |-> "Streaming", task |-> "running"] => Heard(p)
      BY DEF Heard
    <2> QED
      BY <2>1, <2>2 DEF Inv, Followed
  <1> QED
    BY <1>1, InvAlways, PTL

\* Only a call that fails loses a task, and never a streamer.
THEOREM LosesByFailure == Spec => []OnlyFailuresLoseTasks
  <1>1. Inv => OnlyFailuresLoseTasks
    BY DEF Inv
  <1> QED
    BY <1>1, InvAlways, PTL

\* A listener serves a streamer that plays, and a player has one.
THEOREM Covers == Spec => []ListenerCovers
  <1>1. Inv => ListenerCovers
    <2> SUFFICES ASSUME Inv PROVE ListenerCovers
      OBVIOUS
    <2>1. Idle => pc.op = "done"
      BY DoIs DEF Inv, InFlow, Idle, pc, Done
    <2>2. Idle => call # "start"
      BY DEF Idle
    <2> QED
      BY <2>1, <2>2 DEF Inv, Covered, ListenerCovers, At, Is
  <1> QED
    BY <1>1, InvAlways, PTL

\* Only a start on a connection that has no streamer brings one that runs.
LEMMA OnceAtATime ==
  ASSUME Inv, [Next]_vars, NEW c \in Conns, streamer[c].task \in {"aborted", "done"}
  PROVE  streamer'[c].task # "running"
  <1> USE DEF clientVars, connVars, playVars, historyVars
  <1>0. /\ streamer \in [Owners -> Streamers] /\ c \in Owners /\ c # Group
        /\ NoStreamer.task = "none"
    BY FreshIs, OwnersAre DEF Inv, TypeOK
  <1>1. ASSUME UNCHANGED streamer PROVE streamer'[c].task # "running"
    BY <1>1
  <1>2. ASSUME NEW p \in Owners, StopStreamer(p) PROVE streamer'[c].task # "running"
    BY <1>0, <1>2, MethodsAre DEF StopStreamer
  <1>3. ASSUME NEW p \in Owners, PauseStreamer(p) \/ ResumeStreamer(p) PROVE streamer'[c].task # "running"
    BY <1>0, <1>3, MethodsAre DEF PauseStreamer, ResumeStreamer
  <1>4. ASSUME NEW p \in Owners, KeepStreamer(p) PROVE streamer'[c].task # "running"
    <2>1. todo # <<>> /\ pc.op = "keepStreamer" /\ pc.of = p
      BY <1>4, NowIs DEF KeepStreamer
    <2>2. p \in {Group, Primary}
      BY <2>1, FlowsOn DEF Inv, Flow, LeavingFlow, ConnectFlow, GatherFlow, StartFlow,
         StartGroupFlow,
         PauseFlow, ResumeFlow, StopFlow, Is
    <2>3. p = Primary => streamer[p] = NoStreamer
      BY <2>1 DEF Inv, Starting, At, Is
    <2>4. p # c
      BY <1>0, <2>2, <2>3
    <2> QED
      BY <1>0, <1>4, <2>4 DEF KeepStreamer
  <1>5. ASSUME NEW d \in Conns, Close(d) PROVE streamer'[c].task # "running"
    BY <1>0, <1>5 DEF Close
  <1>6. ASSUME NEW p \in Owners, Live(p) PROVE streamer'[c].task # "running"
    <2>1. PICK next \in Moves(streamer[p]) : streamer' = [streamer EXCEPT ![p] = next]
      BY <1>6 DEF Live
    <2>2. next.task = "running" => streamer[p].task = "running"
      BY <1>0, <2>1, MovesAre
    <2> QED
      BY <1>0, <2>1, <2>2
  <1>7. ASSUME \/ \E name \in Calls : Begin(name)
               \/ Fail
               \/ \E d \in Conns :
                    \/ Handshake(d) \/ StartServer(d) \/ Phase1(d) \/ Phase2(d)
                    \/ \E kind \in TimingTasks : StartTiming(d, kind)
                    \/ Request(d) \/ NeedClock(d)
                    \/ SessionPlay(d) \/ SessionPause(d) \/ SessionResume(d)
                    \/ EndTasks(d) \/ Teardown(d)
        PROVE  UNCHANGED streamer
    BY <1>7 DEF Begin, Fail, Handshake, StartServer, Phase1, Phase2, StartTiming, Request,
       NeedClock,
       SessionPlay, SessionPause, SessionResume, EndTasks, Teardown
  <1>8. ASSUME \/ \E op \in {"keepConnection", "keepGroup"} : Keep(op)
               \/ \E p \in Owners :
                    \/ StopListener(p) \/ BuildSender(p) \/ StartLive(p)
                    \/ \E op \in {"reportStopped", "reportPaused", "reportPlaying"} : Report(p, op)
               \/ Ungroup \/ WaitSeesStopped \/ LocalLives \/ UNCHANGED vars
        PROVE  UNCHANGED streamer
    BY <1>8 DEF Keep, StopListener, BuildSender, StartLive, Report, Ungroup, WaitSeesStopped,
       LocalLives, vars
  <1> QED
    BY <1>1, <1>2, <1>3, <1>4, <1>5, <1>6, <1>7, <1>8 DEF Next

\* A connection streams once.
THEOREM Once == Spec => StreamsOnce
  <1>1. Inv /\ [Next]_vars =>
          [\A c \in Conns : streamer[c].task \in {"aborted", "done"} => streamer'[c].task # "running"]_vars
    BY OnceAtATime
  <1> QED
    BY <1>1, InvAlways, PTL DEF Spec, StreamsOnce
=============================================================================
