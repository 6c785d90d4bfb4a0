--------------------------- MODULE PtpSlave_proofs ---------------------------
(***************************************************************************)
(* For every interval, clock skew, number of exchanges and amount of       *)
(* trouble: an undisturbed exchange gives the right offset, an offset      *)
(* takes a request, and how far delays move an offset.                     *)
(***************************************************************************)
EXTENDS PtpSlave, TLAPS

-----------------------------------------------------------------------------
(* The arithmetic of an offset. *)

\* Rust's division by two is at most half a unit off, and exact for even numbers.
LEMMA HalfIsClose ==
  ASSUME NEW x \in Int
  PROVE  Half(x) \in Int /\ 2 * Half(x) - x \in {-1, 0, 1}
BY DEF Half

LEMMA HalfOfTwice == \A x \in Int : Half(x + x) = x
BY DEF Half

LEMMA OffsetType ==
  ASSUME NEW s1 \in Int, NEW s2 \in Int, NEW s3 \in Int, NEW s4 \in Int
  PROVE  OffsetOf(s1, s2, s3, s4) \in Int
BY HalfIsClose DEF OffsetOf

\* If the Sync is under way for d1 and the Delay_Req for d2, twice the offset that
\* run_ptp_slave publishes is off by d1 - d2, whenever the client sends the request, and by
\* one unit of rounding.
THEOREM OffsetError ==
  ASSUME NEW skew \in Int, NEW syncSent \in Int, NEW d1 \in Nat,
         NEW requestSent \in Int, NEW d2 \in Nat
  PROVE  2 * OffsetOf(syncSent, syncSent + d1 + skew, requestSent + skew, requestSent + d2)
           - 2 * skew - (d1 - d2) \in {-1, 0, 1}
<1> DEFINE x == (syncSent + d1 + skew - syncSent) + (requestSent + skew - (requestSent + d2))
<1>1. x = 2 * skew + (d1 - d2) /\ x \in Int
  OBVIOUS
<1>2. 2 * Half(x) - x \in {-1, 0, 1} /\ Half(x) \in Int
  BY <1>1, HalfIsClose
<1>3. 2 * Half(x) - 2 * skew - (d1 - d2) = 2 * Half(x) - x
  BY <1>1, <1>2
<1> QED
  BY <1>2, <1>3 DEF OffsetOf

-----------------------------------------------------------------------------
(* Types. *)

LEMMA NowTypes == TypeOK => Now \in Int /\ LocalTime \in Int
BY ClocksAssumption, BoundsAssumption DEF TypeOK, Now, LocalTime

LEMMA ArriveTypes ==
  ASSUME TypeOK, NEW m \in network, NEW sent, Arrive(m, sent),
         sent \subseteq [kind : {"Sync", "FollowUp", "DelayReq", "DelayResp"},
                         exchange : Exchanges, at : Int, copy : 0 .. 2]
  PROVE  /\ network' \subseteq [kind : {"Sync", "FollowUp", "DelayReq", "DelayResp"},
                                exchange : Exchanges, at : Int, copy : 0 .. 2]
         /\ troubled' \subseteq Exchanges
BY DEF TypeOK, Arrive, Troubling

LEMMA TypesKept == TypeOK /\ [Next]_vars => TypeOK'
<1> SUFFICES ASSUME TypeOK, [Next]_vars PROVE TypeOK'
  OBVIOUS
<1> USE ClocksAssumption, BoundsAssumption
<1>1. CASE SendSync
  <2>1. exchange' \in Exchanges /\ exchange' * Interval \in Int
    BY <1>1 DEF SendSync, TypeOK, Exchanges
  <2>2. network' \subseteq [kind : {"Sync", "FollowUp", "DelayReq", "DelayResp"},
                            exchange : Exchanges, at : Int, copy : 0 .. 2]
    BY <1>1, <2>1 DEF SendSync, TypeOK, Message
  <2>3. troubled' \subseteq Exchanges /\ clean' \subseteq Exchanges
    BY <1>1, <2>1 DEF SendSync, TypeOK, Troubling
  <2> QED
    BY <1>1, <2>1, <2>2, <2>3 DEF SendSync, TypeOK, Exchanges, stampVars, outVars, Stamps
<1>2. CASE OpeningSent \/ SendFails \/ Elected
  BY <1>2 DEF OpeningSent, SendFails, Elected, TypeOK, stampVars, outVars, historyVars
<1>3. ASSUME NEW m \in network, Disturb(m) PROVE TypeOK'
  BY <1>3 DEF Disturb, Troubling, TypeOK, stampVars, outVars
<1>4. ASSUME NEW m \in network, Answer(m) PROVE TypeOK'
  <2>1. {Message("DelayResp", m.exchange, Now, m.copy)} \subseteq
          [kind : {"Sync", "FollowUp", "DelayReq", "DelayResp"},
           exchange : Exchanges, at : Int, copy : 0 .. 2]
    BY NowTypes DEF TypeOK, Message
  <2> QED
    BY <1>4, <2>1, ArriveTypes DEF Answer, TypeOK, stampVars, outVars
<1>5. ASSUME NEW m \in network, Ignore(m) PROVE TypeOK'
  BY <1>5, ArriveTypes DEF Ignore, TypeOK, stampVars, outVars
<1>6. ASSUME NEW m \in network, OnSync(m) PROVE TypeOK'
  BY <1>6, ArriveTypes, NowTypes DEF OnSync, TypeOK, Stamp, Stamps, Exchanges, outVars
<1>7. ASSUME NEW m \in network, OnFollowUp(m) PROVE TypeOK'
  <2>1. {Message("DelayReq", m.exchange, LocalTime, m.copy)} \subseteq
          [kind : {"Sync", "FollowUp", "DelayReq", "DelayResp"},
           exchange : Exchanges, at : Int, copy : 0 .. 2]
    BY NowTypes DEF TypeOK, Message
  <2> QED
    BY <1>7, <2>1, ArriveTypes, NowTypes DEF OnFollowUp, TypeOK, Stamp, Stamps, Exchanges
<1>8. ASSUME NEW m \in network, OnDelayResp(m) PROVE TypeOK'
  <2>1. OffsetOf(t1.at, t2.at, t3.at, m.at) \in Int
    BY OffsetType DEF TypeOK, Stamps
  <2>2. offset' \in [ns : Int, exchange : 0 .. LastExchange] /\ published' \in Nat
    BY <1>8, <2>1 DEF OnDelayResp, TypeOK, Stamps
  <2> QED
    BY <1>8, <2>2, ArriveTypes DEF OnDelayResp, TypeOK, NoStamp, Stamp, Stamps
<1>9. CASE UNCHANGED vars
  BY <1>9 DEF vars, TypeOK, stampVars, outVars, historyVars
<1> QED
  BY <1>1, <1>2, <1>3, <1>4, <1>5, <1>6, <1>7, <1>8, <1>9 DEF Next

LEMMA InitTypes == Init => TypeOK
BY BoundsAssumption, ClocksAssumption
DEF Init, TypeOK, NoStamp, NoOffset, Stamp, Stamps, Exchanges

\* The task's timestamps, counters and messages keep their types; t1 and t3 go together.
THEOREM SlaveTypeCorrect == Spec => []TypeOK
BY InitTypes, TypesKept, PTL DEF Spec

-----------------------------------------------------------------------------
(* An offset takes a request: t3, which a Delay_Req sets and a Delay_Resp   *)
(* clears, stands for the request that has not been used.                   *)

Unused == IF t3 = NoStamp THEN 0 ELSE 1

Counted == published + Unused <= sequence

LEMMA CountedKept == TypeOK /\ Counted /\ [Next]_vars => Counted'
<1> SUFFICES ASSUME TypeOK, Counted, [Next]_vars PROVE Counted'
  OBVIOUS
<1>1. CASE UNCHANGED <<t3, sequence, published>>
  BY <1>1 DEF Counted, Unused
<1>2. ASSUME NEW m \in network, OnFollowUp(m) PROVE Counted'
  BY <1>2 DEF OnFollowUp, TypeOK, Counted, Unused
<1>3. ASSUME NEW m \in network, OnDelayResp(m) PROVE Counted'
  BY <1>3 DEF OnDelayResp, TypeOK, Counted, Unused
<1> QED
  BY <1>1, <1>2, <1>3
  DEF Next, SendSync, OpeningSent, SendFails, Elected, Disturb, Answer, Ignore, OnSync,
      stampVars, outVars, vars

\* However many Delay_Resps come, an offset uses up a Delay_Req.
THEOREM OffsetsTakeRequests == Spec => []OneOffsetPerRequest
<1>1. Init => Counted
  BY DEF Init, Counted, Unused
<1>2. TypeOK /\ Counted => OneOffsetPerRequest
  BY DEF TypeOK, Counted, Unused, OneOffsetPerRequest
<1> QED
  BY InitTypes, TypesKept, CountedKept, <1>1, <1>2, PTL DEF Spec

-----------------------------------------------------------------------------
(* The current exchange, if nothing has gone wrong in it, is in one of      *)
(* seven places; what was left behind by others is out of date.             *)

Good == clean \ troubled

TheSync      == Message("Sync", exchange, Now, 0)
TheFollowUp  == Message("FollowUp", exchange, Now, 0)
TheDelayReq  == Message("DelayReq", exchange, LocalTime, 0)
TheDelayResp == Message("DelayResp", exchange, Now, 0)

Requested == t1 = Stamp(Now, exchange) /\ t3 = Stamp(LocalTime, exchange)

SyncPending ==
  \/ network = {TheSync, TheFollowUp}
  \/ network = {TheSync, TheDelayReq} /\ Requested
  \/ network = {TheSync, TheDelayResp} /\ Requested

SyncHandled ==
  /\ t2 = Stamp(LocalTime, exchange)
  /\ \/ network = {TheFollowUp}
     \/ network = {TheDelayReq} /\ Requested
     \/ network = {TheDelayResp} /\ Requested

Finished ==
  /\ network = {}
  /\ t1 = NoStamp /\ t2 = NoStamp /\ t3 = NoStamp
  /\ offset = [ns |-> Skew, exchange |-> exchange]

OnTrack == phase = "slave" /\ (SyncPending \/ SyncHandled \/ Finished)

\* Nothing is of an exchange to come, and what is of an earlier one is not good.
OutOfDate ==
  /\ clean \subseteq 1 .. exchange
  /\ \A m \in network : m.exchange <= exchange /\ (m.exchange < exchange => m.exchange \in troubled)
  /\ t2.exchange <= exchange /\ offset.exchange <= exchange
  /\ t2.exchange \in Good => t2.exchange = exchange

PInv ==
  /\ TypeOK
  /\ OutOfDate
  /\ exchange \in Good => OnTrack
  /\ TroubleIsForgotten

LEMMA SyncInv == PInv /\ SendSync => PInv'
<1> SUFFICES ASSUME PInv, SendSync PROVE PInv'
  OBVIOUS
<1>1. TypeOK'
  BY TypesKept DEF PInv, Next
<1>2. /\ exchange \in Nat /\ exchange' = exchange + 1 /\ exchange' \in Exchanges
      /\ network' = network \cup {TheSync', TheFollowUp'}
      /\ troubled' = troubled \cup {m.exchange : m \in network}
      /\ clean' = IF phase = "slave" /\ network = {} THEN clean \cup {exchange'} ELSE clean
      /\ UNCHANGED <<phase, t1, t2, t3, offset>>
  <2>1. exchange \in Nat /\ exchange' = exchange + 1 /\ exchange' \in Exchanges
    BY BoundsAssumption DEF SendSync, PInv, TypeOK, Exchanges
  <2>2. {Message(kind, exchange', exchange' * Interval, 0) : kind \in {"Sync", "FollowUp"}}
          = {TheSync', TheFollowUp'}
    BY DEF TheSync, TheFollowUp, Now
  <2>3. network' = network \cup {TheSync', TheFollowUp'}
    BY <2>2 DEF SendSync
  <2> QED
    BY <2>1, <2>3 DEF SendSync, Troubling, stampVars, outVars
<1>3. clean' \subseteq 1 .. exchange'
  BY <1>2 DEF PInv, OutOfDate
<1>4. ASSUME NEW m \in network'
      PROVE  m.exchange <= exchange' /\ (m.exchange < exchange' => m.exchange \in troubled')
  <2>1. CASE m \in network
    BY <1>2, <2>1 DEF PInv, OutOfDate, TypeOK, Exchanges
  <2>2. CASE m \in {TheSync', TheFollowUp'}
    BY <1>2, <2>2 DEF TheSync, TheFollowUp, Message
  <2> QED
    BY <1>2, <1>4, <2>1, <2>2
<1>5. t2.exchange \notin Good'
  <2>1. t2.exchange \in Nat /\ t2.exchange <= exchange
    BY DEF PInv, OutOfDate, TypeOK, Stamps
  <2>2. CASE network = {}
    <3>1. SUFFICES ASSUME t2.exchange \in Good PROVE FALSE
      BY <1>2, <2>1 DEF Good
    <3>2. Finished
      BY <2>2, <3>1 DEF PInv, OutOfDate, OnTrack, SyncPending, SyncHandled
    <3>3. t2.exchange = 0
      BY <3>2 DEF Finished, NoStamp, Stamp
    <3> QED
      BY <3>1, <3>3 DEF Good, PInv, OutOfDate
  <2>3. CASE network # {}
    <3>1. SUFFICES ASSUME t2.exchange \in Good, t2.exchange \notin troubled' PROVE FALSE
      BY <1>2, <2>3 DEF Good
    <3>2. t2.exchange = exchange /\ OnTrack
      BY <3>1 DEF PInv, OutOfDate
    <3>3. \E m \in network : m.exchange = exchange
      BY <2>3, <3>2
      DEF OnTrack, SyncPending, SyncHandled, Finished, TheSync, TheFollowUp, TheDelayReq,
          TheDelayResp, Message
    <3> QED
      BY <1>2, <3>1, <3>2, <3>3
  <2> QED
    BY <2>2, <2>3
<1>6. OutOfDate'
  BY <1>2, <1>3, <1>4, <1>5 DEF OutOfDate, PInv, TypeOK, Stamps
<1>7. exchange' \in Good' => OnTrack'
  <2>1. SUFFICES ASSUME exchange' \in clean' PROVE OnTrack'
    BY DEF Good
  <2>2. phase = "slave" /\ network = {}
    BY <1>2, <2>1 DEF PInv, OutOfDate
  <2> QED
    BY <1>2, <2>2 DEF OnTrack, SyncPending
<1>8. TroubleIsForgotten'
  BY <1>2 DEF PInv, OutOfDate, TypeOK, TroubleIsForgotten, Good
<1> QED
  BY <1>1, <1>6, <1>7, <1>8 DEF PInv

\* A current exchange that is good has begun.
LEMMA GoodHasBegun == PInv /\ exchange \in Good => exchange \in Nat \ {0} /\ OnTrack
BY BoundsAssumption DEF PInv, OutOfDate, Good, TypeOK

\* On track, a message is one of four, and told apart by its kind.
LEMMA FourMessages ==
  ASSUME OnTrack, NEW m \in network
  PROVE  /\ m.exchange = exchange /\ m.copy = 0
         /\ m.kind = "Sync" => m = TheSync
         /\ m.kind = "FollowUp" => m = TheFollowUp
         /\ m.kind = "DelayReq" => m = TheDelayReq
         /\ m.kind = "DelayResp" => m = TheDelayResp
BY DEF OnTrack, SyncPending, SyncHandled, Finished, TheSync, TheFollowUp, TheDelayReq,
       TheDelayResp, Message

LEMMA KindsDiffer ==
  /\ TheSync.kind = "Sync" /\ TheFollowUp.kind = "FollowUp"
  /\ TheDelayReq.kind = "DelayReq" /\ TheDelayResp.kind = "DelayResp"
  /\ TheSync # TheFollowUp /\ TheSync # TheDelayReq /\ TheSync # TheDelayResp
BY DEF TheSync, TheFollowUp, TheDelayReq, TheDelayResp, Message

\* What stays of PInv when messages come and go and no timestamp is touched.
LEMMA StampsKept ==
  ASSUME PInv, TypeOK', UNCHANGED <<t2, offset, exchange, clean>>, troubled \subseteq troubled',
         \A m \in network' : \E old \in network : m.exchange = old.exchange,
         exchange \in Good' => OnTrack'
  PROVE  PInv'
<1>1. OutOfDate'
  BY DEF PInv, OutOfDate, Good
<1>2. TroubleIsForgotten'
  BY DEF PInv, TroubleIsForgotten, Good
<1> QED
  BY <1>1, <1>2 DEF PInv

LEMMA PhaseInv == PInv /\ (OpeningSent \/ SendFails \/ Elected) => PInv'
<1> SUFFICES ASSUME PInv, OpeningSent \/ SendFails \/ Elected PROVE PInv'
  OBVIOUS
<1>1. TypeOK'
  BY TypesKept DEF PInv, Next
<1>2. exchange \notin Good
  BY DEF PInv, OnTrack, OpeningSent, SendFails, Elected
<1> QED
  BY <1>1, <1>2, StampsKept
  DEF OpeningSent, SendFails, Elected, stampVars, outVars, historyVars, Good

LEMMA DisturbInv == ASSUME PInv, NEW m \in network, Disturb(m) PROVE PInv'
<1>1. TypeOK'
  BY TypesKept DEF PInv, Next
<1>2. m.exchange \in troubled' /\ troubled \subseteq troubled'
  BY DEF Disturb, Troubling
<1>3. exchange' = exchange /\ clean' = clean
  BY DEF Disturb
<1>4. exchange \notin Good'
  BY <1>2, <1>3, GoodHasBegun, FourMessages DEF Good
<1>5. \A new \in network' : \E old \in network : new.exchange = old.exchange
  <2> SUFFICES ASSUME NEW new \in network', new \notin network PROVE new.exchange = m.exchange
    OBVIOUS
  <2>1. PICK c \in 1 .. 2 : new = [m EXCEPT !.copy = c]
    BY DEF Disturb
  <2> QED
    BY <2>1 DEF PInv, TypeOK
<1> QED
  BY <1>1, <1>2, <1>4, <1>5, StampsKept DEF Disturb, stampVars, outVars

LEMMA AnswerInv == ASSUME PInv, NEW m \in network, Answer(m) PROVE PInv'
<1> DEFINE resp == Message("DelayResp", m.exchange, Now, m.copy)
<1>1. TypeOK'
  BY TypesKept DEF PInv, Next
<1>2. m.kind = "DelayReq" /\ network' = (network \ {m}) \cup {resp} /\ troubled' = troubled
  BY DEF Answer, Arrive
<1>3. \A new \in network' : \E old \in network : new.exchange = old.exchange
  BY <1>2 DEF Message
<1>4. ASSUME exchange \in Good PROVE OnTrack'
  <2>1. OnTrack /\ m = TheDelayReq /\ resp = TheDelayResp
    BY <1>2, <1>4, GoodHasBegun, FourMessages DEF TheDelayResp
  <2>2. /\ UNCHANGED <<phase, t1, t2, t3, exchange>> /\ TheSync' = TheSync
        /\ TheDelayResp' = TheDelayResp /\ Now' = Now /\ LocalTime' = LocalTime
    BY DEF Answer, stampVars, TheSync, TheDelayResp, Now, LocalTime
  <2>3. CASE SyncPending
    <3>1. network = {TheSync, TheDelayReq} /\ Requested
      BY <2>1, <2>3, KindsDiffer DEF SyncPending
    <3>2. network' = {TheSync, TheDelayResp}
      BY <1>2, <2>1, <3>1, KindsDiffer
    <3> QED
      BY <2>1, <2>2, <3>1, <3>2 DEF OnTrack, SyncPending, Requested
  <2>4. CASE SyncHandled
    <3>1. network = {TheDelayReq} /\ Requested /\ t2 = Stamp(LocalTime, exchange)
      BY <2>1, <2>4, KindsDiffer DEF SyncHandled
    <3>2. network' = {TheDelayResp}
      BY <1>2, <2>1, <3>1
    <3> QED
      BY <2>1, <2>2, <3>1, <3>2 DEF OnTrack, SyncHandled, Requested
  <2> QED
    BY <2>1, <2>3, <2>4 DEF OnTrack, Finished
<1>5. UNCHANGED <<t2, offset, exchange, clean>>
  BY DEF Answer, stampVars, outVars
<1> QED
  BY <1>1, <1>2, <1>3, <1>4, <1>5, StampsKept DEF Good

LEMMA IgnoreInv == ASSUME PInv, NEW m \in network, Ignore(m) PROVE PInv'
<1>1. TypeOK'
  BY TypesKept DEF PInv, Next
<1>2. exchange \notin Good
  BY DEF PInv, OnTrack, Ignore
<1>3. troubled \subseteq troubled' /\ network' \subseteq network
  BY DEF Ignore, Arrive, Troubling
<1> QED
  BY <1>1, <1>2, <1>3, StampsKept DEF Ignore, stampVars, outVars, Good

\* What a message that arrives leaves of OutOfDate: t2 and the offset are each action's.
LEMMA MessagesKept ==
  ASSUME PInv, NEW m \in network, NEW sent, Arrive(m, sent), UNCHANGED <<exchange, clean>>,
         \A new \in sent : new.exchange = m.exchange
  PROVE  /\ clean' \subseteq 1 .. exchange'
         /\ \A new \in network' :
              new.exchange <= exchange' /\ (new.exchange < exchange' => new.exchange \in troubled')
         /\ troubled \subseteq troubled' /\ Good' \subseteq Good
BY DEF PInv, OutOfDate, Arrive, Troubling, Good

LEMMA OnSyncInv == ASSUME PInv, NEW m \in network, OnSync(m) PROVE PInv'
<1>1. TypeOK'
  BY TypesKept DEF PInv, Next
<1>2. /\ m.kind = "Sync" /\ Arrive(m, {}) /\ network' = network \ {m}
      /\ troubled' = troubled /\ t2' = Stamp(LocalTime, m.exchange)
      /\ UNCHANGED <<phase, t1, t3, offset, exchange, clean>>
  BY DEF OnSync, Arrive, outVars
<1>3. OutOfDate'
  <2>1. m.exchange \in Nat /\ m.exchange <= exchange /\ exchange \in Nat
        /\ (m.exchange < exchange => m.exchange \in troubled)
    BY DEF PInv, OutOfDate, TypeOK, Exchanges
  <2>2. t2'.exchange = m.exchange
    BY <1>2 DEF Stamp
  <2>3. t2'.exchange \in Good' => t2'.exchange = exchange'
    BY <1>2, <2>1, <2>2 DEF Good
  <2> QED
    BY <1>2, <2>1, <2>2, <2>3, MessagesKept DEF OutOfDate, PInv
<1>4. ASSUME exchange \in Good PROVE OnTrack'
  <2>1. OnTrack /\ m = TheSync
    BY <1>2, <1>4, GoodHasBegun, FourMessages
  <2>2. /\ TheFollowUp' = TheFollowUp /\ TheDelayReq' = TheDelayReq
        /\ TheDelayResp' = TheDelayResp /\ Now' = Now /\ LocalTime' = LocalTime
    BY <1>2 DEF TheFollowUp, TheDelayReq, TheDelayResp, Now, LocalTime
  <2>3. SyncPending
    BY <2>1, KindsDiffer DEF OnTrack, SyncHandled, Finished
  <2>4. t2' = Stamp(LocalTime', exchange')
    BY <1>2, <2>1, <2>2 DEF TheSync, Message
  <2>5. \/ network' = {TheFollowUp}
        \/ network' = {TheDelayReq} /\ Requested
        \/ network' = {TheDelayResp} /\ Requested
    BY <1>2, <2>1, <2>3, KindsDiffer DEF SyncPending
  <2> QED
    BY <1>2, <2>1, <2>2, <2>4, <2>5 DEF OnTrack, SyncHandled, Requested
<1>5. exchange' \in Good' => OnTrack'
  BY <1>2, <1>4 DEF Good
<1>6. TroubleIsForgotten'
  BY <1>2 DEF PInv, TroubleIsForgotten, Good
<1> QED
  BY <1>1, <1>3, <1>5, <1>6 DEF PInv

LEMMA OnFollowUpInv == ASSUME PInv, NEW m \in network, OnFollowUp(m) PROVE PInv'
<1> DEFINE req == Message("DelayReq", m.exchange, LocalTime, m.copy)
<1>1. TypeOK'
  BY TypesKept DEF PInv, Next
<1>2. /\ m.kind = "FollowUp" /\ network' = (network \ {m}) \cup {req} /\ troubled' = troubled
      /\ t1' = Stamp(m.at, m.exchange) /\ t3' = Stamp(LocalTime, m.exchange)
      /\ UNCHANGED <<phase, t2, offset, exchange, clean>>
  BY DEF OnFollowUp, Arrive
<1>3. \A new \in network' : \E old \in network : new.exchange = old.exchange
  BY <1>2 DEF Message
<1>4. ASSUME exchange \in Good PROVE OnTrack'
  <2>1. OnTrack /\ m = TheFollowUp /\ req = TheDelayReq
    BY <1>2, <1>4, GoodHasBegun, FourMessages DEF TheDelayReq
  <2>2. /\ TheSync' = TheSync /\ TheDelayReq' = TheDelayReq
        /\ Now' = Now /\ LocalTime' = LocalTime
    BY <1>2 DEF TheSync, TheDelayReq, Now, LocalTime
  <2>3. Requested'
    BY <1>2, <2>1, <2>2 DEF Requested, TheFollowUp, Message
  <2>4. CASE SyncPending
    <3>1. network = {TheSync, TheFollowUp}
      BY <2>1, <2>4, KindsDiffer DEF SyncPending
    <3>2. network' = {TheSync, TheDelayReq}
      BY <1>2, <2>1, <3>1, KindsDiffer
    <3> QED
      BY <1>2, <2>1, <2>2, <2>3, <3>2 DEF OnTrack, SyncPending
  <2>5. CASE SyncHandled
    <3>1. network = {TheFollowUp} /\ t2 = Stamp(LocalTime, exchange)
      BY <2>1, <2>5, KindsDiffer DEF SyncHandled
    <3>2. network' = {TheDelayReq}
      BY <1>2, <2>1, <3>1
    <3> QED
      BY <1>2, <2>1, <2>2, <2>3, <3>1, <3>2 DEF OnTrack, SyncHandled
  <2> QED
    BY <2>1, <2>4, <2>5 DEF OnTrack, Finished
<1> QED
  BY <1>1, <1>2, <1>3, <1>4, StampsKept DEF Good

\* The Delay_Resp of a good exchange comes last, and gives its offset.
LEMMA RightOffset ==
  ASSUME PInv, NEW m \in network, OnDelayResp(m), exchange \in Good'
  PROVE  Finished' /\ phase = "slave"
<1>1. /\ m.kind = "DelayResp" /\ network' = network \ {m}
      /\ t1' = NoStamp /\ t2' = NoStamp /\ t3' = NoStamp
      /\ troubled \subseteq troubled' /\ UNCHANGED <<exchange, clean>>
  BY DEF OnDelayResp, Arrive, Troubling
<1>2. exchange \in Good
  BY <1>1 DEF Good
<1>3. OnTrack /\ m = TheDelayResp /\ exchange \in Nat \ {0}
  BY <1>1, <1>2, GoodHasBegun, FourMessages
<1>4. TheSync \notin network
  <2>1. SUFFICES ASSUME TheSync \in network PROVE exchange \in troubled'
    BY DEF Good
  <2>2. TheSync.kind = "Sync" /\ TheSync.exchange = exchange /\ m.exchange = exchange
    BY <1>3 DEF TheSync, TheDelayResp, Message
  <2>3. Troubling({m.exchange})
    BY <1>1, <2>1, <2>2 DEF OnDelayResp, Arrive
  <2> QED
    BY <2>2, <2>3 DEF Troubling
<1>5. /\ network = {TheDelayResp} /\ Requested /\ t2 = Stamp(LocalTime, exchange)
  BY <1>3, <1>4, KindsDiffer DEF OnTrack, SyncPending, SyncHandled, Finished
<1>6. NoStamp \notin {t1, t2, t3}
  BY <1>3, <1>5 DEF Requested, NoStamp, Stamp
<1>7. offset' = [ns |-> OffsetOf(t1.at, t2.at, t3.at, m.at), exchange |-> t2.exchange]
  BY <1>6 DEF OnDelayResp
<1>8. /\ t1.at = Now /\ t2.at = LocalTime /\ t3.at = LocalTime /\ m.at = Now
      /\ t2.exchange = exchange
  BY <1>3, <1>5 DEF Requested, Stamp, TheDelayResp, Message
<1>9. OffsetOf(Now, LocalTime, LocalTime, Now) = Skew
  <2>1. Now \in Int /\ LocalTime - Now = Skew /\ Skew \in Int
    BY NowTypes, ClocksAssumption DEF PInv, LocalTime
  <2>2. OffsetOf(Now, LocalTime, LocalTime, Now) = Half(Skew + Skew)
    BY <2>1 DEF OffsetOf
  <2> QED
    BY <2>1, <2>2, HalfOfTwice
<1>10. network' = {} /\ phase = "slave"
  BY <1>1, <1>3, <1>5 DEF OnDelayResp
<1> QED
  BY <1>1, <1>7, <1>8, <1>9, <1>10 DEF Finished

LEMMA OnDelayRespInv == ASSUME PInv, NEW m \in network, OnDelayResp(m) PROVE PInv'
<1>1. TypeOK'
  BY TypesKept DEF PInv, Next
<1>2. /\ Arrive(m, {}) /\ t2' = NoStamp /\ UNCHANGED <<phase, exchange, clean>>
      /\ offset' = offset \/ offset'.exchange = t2.exchange
  BY DEF OnDelayResp
<1>3. Good' \subseteq Good
  BY <1>2, MessagesKept
<1>4. OutOfDate'
  <2>1. t2'.exchange = 0 /\ 0 \notin Good' /\ 0 <= exchange'
    BY <1>2, <1>3 DEF NoStamp, Stamp, Good, PInv, OutOfDate, TypeOK
  <2>2. offset'.exchange <= exchange'
    BY <1>2 DEF PInv, OutOfDate
  <2> QED
    BY <1>2, <2>1, <2>2, MessagesKept DEF OutOfDate
<1>5. exchange' \in Good' => OnTrack'
  BY <1>2, RightOffset DEF OnTrack
<1>6. ASSUME offset'.exchange \in Good' PROVE offset'.ns = Skew
  <2>1. CASE exchange \in Good'
    BY <2>1, RightOffset DEF Finished
  <2>2. CASE exchange \notin Good'
    <3>1. offset'.exchange # t2.exchange
      BY <1>3, <1>6, <2>2 DEF PInv, OutOfDate
    <3> QED
      BY <1>2, <1>3, <1>6, <3>1 DEF PInv, TroubleIsForgotten, Good
  <2> QED
    BY <2>1, <2>2
<1> QED
  BY <1>1, <1>4, <1>5, <1>6 DEF PInv, TroubleIsForgotten, Good

LEMMA PInvKept == PInv /\ [Next]_vars => PInv'
<1> SUFFICES ASSUME PInv, [Next]_vars PROVE PInv'
  OBVIOUS
<1>1. CASE UNCHANGED vars
  BY <1>1
  DEF vars, stampVars, outVars, historyVars, PInv, TypeOK, OutOfDate, Good, OnTrack, SyncPending,
      SyncHandled, Finished, Requested, TroubleIsForgotten, TheSync, TheFollowUp, TheDelayReq,
      TheDelayResp, Now, LocalTime
<1> QED
  BY <1>1, SyncInv, PhaseInv, DisturbInv, AnswerInv, IgnoreInv, OnSyncInv, OnFollowUpInv,
     OnDelayRespInv DEF Next

LEMMA PInvInit == Init => PInv
BY InitTypes, BoundsAssumption
DEF Init, PInv, OutOfDate, Good, TroubleIsForgotten, NoStamp, NoOffset, Stamp

\* An exchange that begins with nothing older under way and is not disturbed gives the
\* right offset, whatever the loop has in t1, t2 and t3 from before.
THEOREM TroubleDoesNotLast == Spec => []TroubleIsForgotten
<1>1. PInv => TroubleIsForgotten
  BY DEF PInv
<1> QED
  BY PInvInit, PInvKept, <1>1, PTL DEF Spec

\* Such an exchange does give an offset once its messages are through.
THEOREM ExchangesCount == Spec => []EveryExchangeCounts
<1>1. PInv => EveryExchangeCounts
  BY DEF PInv, EveryExchangeCounts, Good, OnTrack, SyncPending, SyncHandled, Finished
<1> QED
  BY PInvInit, PInvKept, <1>1, PTL DEF Spec
=============================================================================
