--------------------------- MODULE ServiceBrowser ---------------------------
(***************************************************************************)
(* Discovery: ServiceBrowser (src/discovery/browser.rs) keeps one table of *)
(* devices and one flag `running' for all its callers. A caller browses (a *)
(* stream of events, which advances only while it is polled) or scans (a   *)
(* loop until a timeout); both take events from two queues of the mDNS     *)
(* daemon, one for AirPlay and one for RAOP services, and wait for them by *)
(* blocking the worker thread of the runtime they are polled on.           *)
(*                                                                         *)
(* A service is announced, some before anybody looks, or withdrawn; what   *)
(* its record says is left out, and with it the merging of records, and    *)
(* records that do not parse.                                              *)
(***************************************************************************)
EXTENDS Naturals, Sequences, SequencesExt, FiniteSets

CONSTANTS
  Devices,
  Callers,     \* tasks that browse or scan, each of them once
  Workers,     \* worker threads of the runtime
  MaxChanges   \* bound: announcements and withdrawals

ASSUME WorkersAssumption == Workers \in Nat \ {0} /\ MaxChanges \in Nat
ASSUME NamesAssumption == IsFiniteSet(Devices) /\ "nobody" \notin Callers

VARIABLES
  announced,   \* the services of each device that the network announces
  changes,     \* how often that has changed
  listener,    \* whom the daemon tells of a kind of service; "nobody"
  queue,       \* what it has told each caller, by kind
  table,       \* ServiceBrowser.devices
  running,     \* ServiceBrowser.running
  role,        \* what each caller does
  pc,          \* and where in it it is
  polled,      \* whether it occupies a worker
  stopping,    \* the call of stop: "no", "wanted", "lowered", "done"
  restarted,   \* history: running was raised again since stop was wanted
  missed,      \* history: services whose latest change has reached no caller
  raced,       \* history: devices of which two events were handled out of order
  handled,     \* history: the latest event handled of each device
  withdrawn    \* history: the service of each device that was last withdrawn

networkVars == <<announced, changes, withdrawn>>
daemonVars  == <<listener, queue, missed>>
callerVars  == <<role, pc, polled>>
tableVars   == <<table, raced, handled>>
flagVars    == <<running, stopping, restarted>>
vars == <<networkVars, daemonVars, callerVars, tableVars, flagVars>>

Kinds == {"airplay", "raop"}
Event(type, d) == [type |-> type, device |-> d, at |-> changes']
FreeWorker == Cardinality({a \in Callers : polled[a]}) < Workers

-----------------------------------------------------------------------------
(* The network and the daemon, which has one listener for a kind. *)

Tell(k, event) ==
  IF \E a \in Callers : listener[k] = a /\ role[a] # "done"
  THEN /\ queue' = [queue EXCEPT ![listener[k]][k] = Append(@, event)]
       /\ UNCHANGED missed
  ELSE /\ missed' = missed \cup {<<event.device, k>>}
       /\ UNCHANGED queue

Announce(d, k) ==
  /\ k \notin announced[d] /\ changes < MaxChanges
  /\ announced' = [announced EXCEPT ![d] = @ \cup {k}]
  /\ changes' = changes + 1
  /\ Tell(k, Event("resolved", d))
  /\ UNCHANGED <<listener, callerVars, tableVars, flagVars, withdrawn>>

Withdraw(d, k) ==
  /\ k \in announced[d] /\ changes < MaxChanges
  /\ announced' = [announced EXCEPT ![d] = @ \ {k}]
  /\ withdrawn' = [withdrawn EXCEPT ![d] = k]
  /\ changes' = changes + 1
  /\ Tell(k, Event("removed", d))
  /\ UNCHANGED <<listener, callerVars, tableVars, flagVars>>

-----------------------------------------------------------------------------
(* browse and scan. *)

\* A caller that is done drops its receivers, with what is left in them.
Leave(a) ==
  /\ role' = [role EXCEPT ![a] = "done"]
  /\ pc' = [pc EXCEPT ![a] = "end"]
  /\ polled' = [polled EXCEPT ![a] = FALSE]
  /\ queue' = [queue EXCEPT ![a] = [k \in Kinds |-> <<>>]]
  /\ missed' = missed \cup
       {s \in Devices \X Kinds : \E event \in Range(queue[a][s[2]]) : event.device = s[1]}

\* The flag is raised; then the daemon is asked for both kinds.
Open(a, what) ==
  /\ role[a] = "none" /\ FreeWorker
  /\ role' = [role EXCEPT ![a] = what]
  /\ pc' = [pc EXCEPT ![a] = "subscribe airplay"]
  /\ polled' = [polled EXCEPT ![a] = TRUE]
  /\ running' = TRUE
  /\ restarted' = (restarted \/ stopping # "no")
  /\ UNCHANGED <<networkVars, daemonVars, tableVars, stopping>>

\* The new listener replaces another, and is told what is known. browse returns its stream.
Subscribe(a, k) ==
  /\ pc[a] = IF k = "airplay" THEN "subscribe airplay" ELSE "subscribe raop"
  /\ listener' = [listener EXCEPT ![k] = a]
  /\ \E known \in SetToSeqs({d \in Devices : k \in announced[d]}) :
       queue' = [queue EXCEPT ![a][k] =
         [i \in DOMAIN known |-> [type |-> "resolved", device |-> known[i], at |-> changes]]]
  /\ missed' = {s \in missed : s[2] # k \/ k \notin announced[s[1]]}
  /\ pc' = [pc EXCEPT ![a] = IF k = "airplay" THEN "subscribe raop" ELSE "check"]
  /\ polled' = [polled EXCEPT ![a] = k = "airplay" \/ role[a] = "scan"]
  /\ UNCHANGED <<networkVars, role, tableVars, flagVars>>

SubscribeFails(a) ==
  /\ pc[a] \in {"subscribe airplay", "subscribe raop"}
  /\ Leave(a)
  /\ UNCHANGED <<networkVars, listener, tableVars, flagVars>>

Poll(a) ==
  /\ role[a] = "stream" /\ ~polled[a] /\ FreeWorker
  /\ polled' = [polled EXCEPT ![a] = TRUE]
  /\ UNCHANGED <<networkVars, daemonVars, role, pc, tableVars, flagVars>>

\* Mutant: a stream only looks at the flag when it starts.
CheckNever(a) ==
  /\ pc[a] = "check" /\ polled[a]
  /\ pc' = [pc EXCEPT ![a] = "airplay"]
  /\ UNCHANGED <<networkVars, daemonVars, role, polled, tableVars, flagVars>>

\* The head of the loop. A scan may find its time over.
Check(a) ==
  /\ pc[a] = "check" /\ polled[a]
  /\ \/ /\ running
        /\ pc' = [pc EXCEPT ![a] = "airplay"]
        /\ UNCHANGED <<role, polled, queue, missed>>
     \/ ~running /\ role[a] = "stream" /\ Leave(a)
     \/ /\ role[a] = "scan"
        /\ pc' = [pc EXCEPT ![a] = "unsubscribe"]
        /\ UNCHANGED <<role, polled, queue, missed>>
  /\ UNCHANGED <<networkVars, listener, tableVars, flagVars>>

\* Mutant: the removals of AirPlay services are understood, those of RAOP are not.
HandledSwapped(event, k) ==
  IF event.type = "resolved" THEN [table |-> table \cup {event.device}, yields |-> TRUE]
  ELSE IF k = "airplay" THEN [table |-> table \ {event.device}, yields |-> event.device \in table]
  ELSE [table |-> table, yields |-> FALSE]

\* handle_service_event: the table after it, and whether there is something to yield. A
\* removal names its device only if the service is RAOP.
Handled(event, k) ==
  IF event.type = "resolved" THEN [table |-> table \cup {event.device}, yields |-> TRUE]
  ELSE IF k = "raop" THEN [table |-> table \ {event.device}, yields |-> event.device \in table]
  ELSE [table |-> table, yields |-> FALSE]

\* One of the two recv_timeout: an event, or none in time. A stream that yields one leaves
\* its worker.
Receive(a, k) ==
  /\ pc[a] = k /\ polled[a]
  /\ pc' = [pc EXCEPT ![a] = IF k = "airplay" THEN "raop" ELSE "check"]
  /\ IF queue[a][k] = <<>> THEN UNCHANGED <<queue, polled, tableVars>>
     ELSE LET event  == Head(queue[a][k])
              result == Handled(event, k)
              d      == event.device
          IN /\ queue' = [queue EXCEPT ![a][k] = Tail(@)]
             /\ table' = result.table
             /\ polled' = [polled EXCEPT ![a] = role[a] = "scan" \/ ~result.yields]
             /\ raced' = IF event.at < handled[d] THEN raced \cup {d} ELSE raced
             /\ handled' = [handled EXCEPT ![d] = event.at]
  /\ UNCHANGED <<networkVars, listener, missed, role, flagVars>>

\* The end of a scan: the daemon is to stop, whoever listens; then the flag is lowered.
Unsubscribe(a) ==
  /\ pc[a] = "unsubscribe"
  /\ listener' = [k \in Kinds |-> "nobody"]
  /\ pc' = [pc EXCEPT ![a] = "lower"]
  /\ UNCHANGED <<networkVars, queue, missed, role, polled, tableVars, flagVars>>

Lower(a) ==
  /\ pc[a] = "lower"
  /\ running' = FALSE
  /\ Leave(a)
  /\ UNCHANGED <<networkVars, listener, tableVars, stopping, restarted>>

-----------------------------------------------------------------------------
(* stop. *)

WantStop ==
  /\ stopping = "no"
  /\ stopping' = "wanted"
  /\ UNCHANGED <<networkVars, daemonVars, callerVars, tableVars, running, restarted>>

StopLowers ==
  /\ stopping = "wanted" /\ FreeWorker
  /\ running' = FALSE
  /\ stopping' = "lowered"
  /\ UNCHANGED <<networkVars, daemonVars, callerVars, tableVars, restarted>>

StopUnsubscribes ==
  /\ stopping = "lowered"
  /\ listener' = [k \in Kinds |-> "nobody"]
  /\ stopping' = "done"
  /\ UNCHANGED <<networkVars, queue, missed, callerVars, tableVars, running, restarted>>

-----------------------------------------------------------------------------
Init ==
  /\ announced \in [Devices -> SUBSET Kinds] /\ changes = 0
  /\ withdrawn = [d \in Devices |-> "none"]
  /\ listener = [k \in Kinds |-> "nobody"]
  /\ queue = [a \in Callers |-> [k \in Kinds |-> <<>>]]
  /\ role = [a \in Callers |-> "none"] /\ pc = [a \in Callers |-> "start"]
  /\ polled = [a \in Callers |-> FALSE]
  /\ missed = {s \in Devices \X Kinds : s[2] \in announced[s[1]]}
  /\ table = {} /\ raced = {} /\ handled = [d \in Devices |-> 0]
  /\ running = FALSE /\ stopping = "no" /\ restarted = FALSE

Loop(a) == Check(a) \/ \E k \in Kinds : Receive(a, k)
Runs(a) == Loop(a) \/ (\E k \in Kinds : Subscribe(a, k)) \/ Unsubscribe(a) \/ Lower(a)
Stops   == StopLowers \/ StopUnsubscribes

Next ==
  \/ \E d \in Devices, k \in Kinds : Announce(d, k) \/ Withdraw(d, k)
  \/ \E a \in Callers :
       \/ \E what \in {"stream", "scan"} : Open(a, what)
       \/ SubscribeFails(a) \/ Poll(a) \/ Runs(a)
  \/ WantStop \/ Stops

Spec == Init /\ [][Next]_vars

\* A worker goes on with what it has begun; a call of stop gets the worker that is free.
FairSpec == Spec /\ (\A a \in Callers : WF_vars(Runs(a))) /\ WF_vars(Stops)

-----------------------------------------------------------------------------
(* Properties. *)

Pending(d) == \E a \in Callers, k \in Kinds : \E event \in Range(queue[a][k]) : event.device = d

\* Once the latest change of each service of a device has been told to a caller and handled,
\* and no two events of the device were handled out of order, the table lists a device that is gone only if an AirPlay service was the last to go, and
\* lacks one that is there only if its RAOP service went and AirPlay stays.
TableIsFresh ==
  \A d \in Devices \ raced : ~Pending(d) /\ (\A k \in Kinds : <<d, k>> \notin missed) =>
    /\ d \in table /\ announced[d] = {} => withdrawn[d] = "airplay"
    /\ d \notin table /\ announced[d] # {} => announced[d] = {"airplay"} /\ withdrawn[d] = "raop"

\* A stream that is being polled when stop is wanted returns from the poll, unless browse or
\* scan raise the flag again, or no worker is left to run stop because streams hold them all.
StopIsHeard ==
  \A a \in Callers :
    stopping # "no" /\ role[a] = "stream" /\ polled[a]
      ~> ~polled[a] \/ restarted \/ ~FreeWorker
=============================================================================
