------------------------------ MODULE PtpSlave ------------------------------
(***************************************************************************)
(* How the client follows the receiver's PTP clock: run_ptp_slave          *)
(* (timing/ptp/flows/slave.rs), and run_bmca_yield_flow (flows/bmca.rs),   *)
(* which ends in the same loop once the election is over. Two UDP sockets  *)
(* bring the messages of the receiver, and none of them is matched to any  *)
(* other: t1, t2 and t3 hold whatever came last. The network may lose,     *)
(* duplicate, delay and reorder; the history variables remember in which   *)
(* exchange (one Sync and what follows from it) it did.                    *)
(*                                                                         *)
(* The receiver's clock goes from Sync to Sync, as if messages took no     *)
(* time unless a later Sync overtakes them; what shorter delays do to an   *)
(* offset is OffsetError in PtpSlave_proofs. The client's clock is Skew    *)
(* ahead. Source addresses and sequence numbers, which the loop does not   *)
(* use to match, and the client's own periodic Announce are left out. So   *)
(* are the sockets: Sync and Delay_Resp are taken on the event socket, and *)
(* Follow_Up on the general one. On the other socket they are ignored,     *)
(* which is a loss here.                                                   *)
(***************************************************************************)
EXTENDS Integers, FiniteSets

CONSTANTS
  Interval,      \* of the receiver's Syncs
  Skew,          \* client clock minus receiver clock
  LastExchange,  \* bound: the receiver's last Sync
  MaxTroubled    \* bound: exchanges the network disturbs

ASSUME ClocksAssumption == Interval \in Nat \ {0} /\ Skew \in Int
ASSUME BoundsAssumption == LastExchange \in Nat \ {0} /\ MaxTroubled \in Nat

VARIABLES
  phase,      \* where the task is: "opening" and "waiting" are the election's
  clockId,    \* what clock_id_tx has carried
  t1, t2, t3, \* the timestamps; NoStamp for None
  sequence,   \* sequence_id: Delay_Req sent
  offset,     \* the value in the watch channel, and the exchange of its t2
  published,  \* how many have been sent to it
  exchange,   \* the receiver's last Sync
  network,    \* messages under way: kind, exchange, contents, and which copy it is
  clean,      \* history: exchanges begun in the loop with nothing older under way
  troubled    \* history: exchanges with a message lost, duplicated, late or overtaken

stampVars   == <<t1, t2, t3>>
outVars     == <<sequence, offset, published>>
historyVars == <<clean, troubled>>
vars == <<phase, clockId, stampVars, outVars, exchange, network, historyVars>>

\* A timestamp, with the exchange it was taken in, which the code does not know.
Stamp(at, n) == [at |-> at, exchange |-> n]
NoStamp   == Stamp(0, 0)
NoOffset  == [ns |-> 0, exchange |-> 0]

Message(kind, n, at, copy) == [kind |-> kind, exchange |-> n, at |-> at, copy |-> copy]

Now == exchange * Interval
LocalTime == Now + Skew

\* Integer division of Rust: towards zero.
Half(x) == IF x >= 0 THEN x \div 2 ELSE -((-x) \div 2)

OffsetOf(s1, s2, s3, s4) == Half((s2 - s1) + (s3 - s4))

-----------------------------------------------------------------------------
(* The receiver, and the network. *)

Troubling(exchanges) ==
  /\ troubled' = troubled \cup exchanges
  /\ Cardinality(troubled') <= MaxTroubled

\* A Sync and the Follow_Up that says when it was sent. What is still under way is late.
SendSync ==
  /\ exchange < LastExchange
  /\ exchange' = exchange + 1
  /\ network' = network \cup
       {Message(kind, exchange', exchange' * Interval, 0) : kind \in {"Sync", "FollowUp"}}
  /\ clean' = IF phase = "slave" /\ network = {} THEN clean \cup {exchange'} ELSE clean
  /\ Troubling({m.exchange : m \in network})
  /\ UNCHANGED <<phase, clockId, stampVars, outVars>>

\* A message is lost; or doubled, as the first disturbance of its exchange (a bound).
Disturb(m) ==
  /\ \/ network' = network \ {m}
     \/ /\ m.exchange \notin troubled
        /\ network' = (network \ {m}) \cup {[m EXCEPT !.copy = c] : c \in 1 .. 2}
  /\ Troubling({m.exchange})
  /\ UNCHANGED <<phase, clockId, stampVars, outVars, exchange, clean>>

\* m arrives, and `sent' sets out. A Delay_Resp that overtakes its Sync is trouble as well.
Arrive(m, sent) ==
  /\ network' = (network \ {m}) \cup sent
  /\ IF m.kind = "DelayResp" /\ \E s \in network : s.kind = "Sync" /\ s.exchange = m.exchange
     THEN Troubling({m.exchange}) ELSE UNCHANGED troubled

\* The receiver answers a Delay_Req with the time at which it came.
Answer(m) ==
  /\ m.kind = "DelayReq"
  /\ Arrive(m, {Message("DelayResp", m.exchange, Now, m.copy)})
  /\ UNCHANGED <<phase, clockId, stampVars, outVars, exchange, clean>>

-----------------------------------------------------------------------------
(* The election that precedes the loop in the yield flow. *)

\* Three Syncs, two Announces and a Signaling.
OpeningSent ==
  /\ phase = "opening"
  /\ phase' = "waiting"
  /\ UNCHANGED <<clockId, stampVars, outVars, exchange, network, historyVars>>

\* An error of a send, here or of the stop signaling, ends the task, and drops clock_id_tx.
SendFails ==
  /\ phase \in {"opening", "waiting"}
  /\ phase' = "ended"
  /\ UNCHANGED <<clockId, stampVars, outVars, exchange, network, historyVars>>

\* The receiver's Announce, or the deadline, after which the id is still all zeros. Who
\* has won only decides whether signaling is stopped: the loop follows in any case.
Elected ==
  /\ phase = "waiting"
  /\ phase' = "slave"
  /\ clockId' \in {"announced", "zeros"}
  /\ UNCHANGED <<stampVars, outVars, exchange, network, historyVars>>

\* While it waits for an Announce, the task takes other messages out of the sockets.
Ignore(m) ==
  /\ phase = "waiting"
  /\ m.kind # "DelayReq"
  /\ Arrive(m, {})
  /\ UNCHANGED <<phase, clockId, stampVars, outVars, exchange, clean>>

-----------------------------------------------------------------------------
(* The loop. *)

OnSync(m) ==
  /\ phase = "slave"
  /\ m.kind = "Sync"
  /\ Arrive(m, {})
  /\ t2' = Stamp(LocalTime, m.exchange)
  /\ UNCHANGED <<phase, clockId, t1, t3, outVars, exchange, clean>>

\* Mutant: the request keeps the time of one that was not answered.
OnFollowUpKeepingT3(m) ==
  /\ phase = "slave"
  /\ m.kind = "FollowUp"
  /\ Arrive(m, {Message("DelayReq", m.exchange, LocalTime, m.copy)})
  /\ t1' = Stamp(m.at, m.exchange)
  /\ t3' = IF t3 = NoStamp THEN Stamp(LocalTime, m.exchange) ELSE t3
  /\ sequence' = sequence + 1
  /\ UNCHANGED <<phase, clockId, t2, offset, published, exchange, clean>>

\* Mutant: a Follow_Up that comes before its Sync is thrown away.
OnFollowUpAfterSync(m) ==
  /\ phase = "slave"
  /\ m.kind = "FollowUp"
  /\ IF t2 = NoStamp
     THEN Arrive(m, {}) /\ UNCHANGED <<t1, t3, sequence>>
     ELSE /\ Arrive(m, {Message("DelayReq", m.exchange, LocalTime, m.copy)})
          /\ t1' = Stamp(m.at, m.exchange)
          /\ t3' = Stamp(LocalTime, m.exchange)
          /\ sequence' = sequence + 1
  /\ UNCHANGED <<phase, clockId, t2, offset, published, exchange, clean>>

\* Follow_Up: t1, and a Delay_Req at t3. That the send may fail is a loss.
OnFollowUp(m) ==
  /\ phase = "slave"
  /\ m.kind = "FollowUp"
  /\ Arrive(m, {Message("DelayReq", m.exchange, LocalTime, m.copy)})
  /\ t1' = Stamp(m.at, m.exchange)
  /\ t3' = Stamp(LocalTime, m.exchange)
  /\ sequence' = sequence + 1
  /\ UNCHANGED <<phase, clockId, t2, offset, published, exchange, clean>>

\* Mutant: the time of the Sync is not cleared with the others.
OnDelayRespKeepingT2(m) ==
  /\ phase = "slave"
  /\ m.kind = "DelayResp"
  /\ Arrive(m, {})
  /\ IF NoStamp \notin {t1, t2, t3}
     THEN /\ offset' = [ns |-> OffsetOf(t1.at, t2.at, t3.at, m.at), exchange |-> t2.exchange]
          /\ published' = published + 1
     ELSE UNCHANGED <<offset, published>>
  /\ t1' = NoStamp /\ t3' = NoStamp
  /\ UNCHANGED <<phase, clockId, t2, sequence, exchange, clean>>

\* Delay_Resp carries t4. It clears all three timestamps, complete or not.
OnDelayResp(m) ==
  /\ phase = "slave"
  /\ m.kind = "DelayResp"
  /\ Arrive(m, {})
  /\ IF NoStamp \notin {t1, t2, t3}
     THEN /\ offset' = [ns |-> OffsetOf(t1.at, t2.at, t3.at, m.at), exchange |-> t2.exchange]
          /\ published' = published + 1
     ELSE UNCHANGED <<offset, published>>
  /\ t1' = NoStamp /\ t2' = NoStamp /\ t3' = NoStamp
  /\ UNCHANGED <<phase, clockId, sequence, exchange, clean>>

-----------------------------------------------------------------------------
Init ==
  /\ phase \in {"opening", "slave"}   \* the yield flow, and run_ptp_slave
  /\ clockId = "none"
  /\ t1 = NoStamp /\ t2 = NoStamp /\ t3 = NoStamp
  /\ sequence = 0 /\ offset = NoOffset /\ published = 0
  /\ exchange = 0 /\ network = {}
  /\ clean = {} /\ troubled = {}

Next ==
  \/ SendSync
  \/ OpeningSent \/ SendFails \/ Elected
  \/ \E m \in network :
       \/ Disturb(m) \/ Answer(m) \/ Ignore(m)
       \/ OnSync(m) \/ OnFollowUp(m) \/ OnDelayResp(m)

Spec == Init /\ [][Next]_vars

-----------------------------------------------------------------------------
(* Properties. *)

Exchanges == 1 .. LastExchange
Stamps == [at : Int, exchange : 0 .. LastExchange]

\* Every variable has its type; t1 and t3 are set and cleared together.
TypeOK ==
  /\ phase \in {"opening", "waiting", "slave", "ended"}
  /\ clockId \in {"none", "announced", "zeros"}
  /\ t1 \in Stamps /\ t2 \in Stamps /\ t3 \in Stamps
  /\ t1.exchange = t3.exchange
  /\ sequence \in Nat /\ published \in Nat
  /\ offset \in [ns : Int, exchange : 0 .. LastExchange]
  /\ exchange \in 0 .. LastExchange
  /\ network \subseteq [kind : {"Sync", "FollowUp", "DelayReq", "DelayResp"},
                        exchange : Exchanges, at : Int, copy : 0 .. 2]
  /\ clean \subseteq Exchanges /\ troubled \subseteq Exchanges

\* An exchange that begins with nothing older under way, and goes through untroubled,
\* gives the right offset, whatever timestamps earlier losses, duplicates and reorderings
\* had left behind.
TroubleIsForgotten == offset.exchange \in clean \ troubled => offset.ns = Skew

\* And it does give one, as soon as its messages have all arrived.
EveryExchangeCounts ==
  exchange \in clean \ troubled /\ network = {} => offset.exchange = exchange

\* However often Delay_Resps arrive, no two offsets come from one Delay_Req.
OneOffsetPerRequest == published <= sequence
=============================================================================
