----------------------- MODULE ServiceBrowser_proofs -----------------------
(***************************************************************************)
(* The device table of ServiceBrowser is fresh, for all numbers of devices,*)
(* callers, workers and changes of the network.                            *)
(*                                                                         *)
(* What is under way to the callers is seen as one set of events for each  *)
(* kind of service (Pend). Of a device that is there, the event that tells *)
(* so of its main service is still to be handled and later than every      *)
(* removal, or the table has it and every removal comes too late (Listed); *)
(* of a device that is gone, the other way round (Delisted).               *)
(***************************************************************************)
EXTENDS ServiceBrowser, FiniteSetTheorems, TLAPS

-----------------------------------------------------------------------------
(* Types. *)

Events == [type : {"resolved", "removed"}, device : Devices, at : Nat]
Queues == [Callers -> [Kinds -> Seq(Events)]]

\* Every variable has its type.
TypeOK ==
  /\ announced \in [Devices -> SUBSET Kinds] /\ changes \in Nat
  /\ withdrawn \in [Devices -> Kinds \cup {"none"}]
  /\ queue \in Queues
  /\ role \in [Callers -> {"none", "stream", "scan", "done"}]
  /\ pc \in [Callers -> {"start", "subscribe airplay", "subscribe raop", "check", "airplay", "raop",
                         "unsubscribe", "lower", "end"}]
  /\ missed \subseteq Devices \X Kinds
  /\ table \subseteq Devices /\ raced \subseteq Devices
  /\ handled \in [Devices -> Nat]

\* A caller that has still to ask for the services of kind k.
Before(a, k) == pc[a] \in {"start", "subscribe airplay"} \cup (IF k = "raop" THEN {"subscribe raop"} ELSE {})

\* Nobody has been told anything of a kind it has not asked for.
NothingYet ==
  \A a \in Callers :
    /\ role[a] = "none" => pc[a] = "start"
    /\ \A k \in Kinds : Before(a, k) => queue[a][k] = <<>> /\ listener[k] # a

\* A sequence with one more element, and without its first.
LEMMA OneMore ==
  ASSUME NEW S, NEW s \in Seq(S), NEW e \in S
  PROVE  Append(s, e) \in Seq(S) /\ Range(Append(s, e)) = Range(s) \cup {e}
  <1>1. /\ Append(s, e) \in Seq(S) /\ DOMAIN s = 1 .. Len(s) /\ Len(s) \in Nat
        /\ DOMAIN Append(s, e) = 1 .. Len(s) + 1
        /\ \A i \in 1 .. Len(s) + 1 : Append(s, e)[i] = IF i = Len(s) + 1 THEN e ELSE s[i]
    OBVIOUS
  <1>2. \A i \in 1 .. Len(s) : i \in 1 .. Len(s) + 1 /\ i # Len(s) + 1
    BY <1>1
  <1>3. Len(s) + 1 \in 1 .. Len(s) + 1 /\ \A i \in 1 .. Len(s) + 1 : i = Len(s) + 1 \/ i \in 1 .. Len(s)
    BY <1>1
  <1> HIDE <1>1
  <1> QED
    BY <1>1, <1>2, <1>3 DEF Range

LEMMA OneLess ==
  ASSUME NEW S, NEW s \in Seq(S), s # <<>>
  PROVE  Tail(s) \in Seq(S) /\ Head(s) \in S /\ Range(s) = Range(Tail(s)) \cup {Head(s)}
  <1>1. /\ Tail(s) \in Seq(S) /\ DOMAIN s = 1 .. Len(s) /\ Len(s) \in Nat /\ Len(s) > 0
        /\ DOMAIN Tail(s) = 1 .. Len(s) - 1
        /\ \A i \in 1 .. Len(s) - 1 : Tail(s)[i] = s[i + 1]
        /\ Head(s) = s[1] /\ Head(s) \in S
    OBVIOUS
  <1>2. \A i \in 1 .. Len(s) - 1 : i + 1 \in 1 .. Len(s)
    BY <1>1
  <1>3. 1 \in 1 .. Len(s) /\ \A i \in 1 .. Len(s) : i = 1 \/ (i - 1 \in 1 .. Len(s) - 1 /\ i - 1 + 1 = i)
    BY <1>1
  <1>4. ASSUME NEW x \in Range(s)
        PROVE  x = Head(s) \/ x \in Range(Tail(s))
    <2>1. PICK i \in 1 .. Len(s) : x = s[i]
      BY <1>1 DEF Range
    <2>2. CASE i # 1
      BY <1>1, <1>3, <2>1, <2>2 DEF Range
    <2> QED
      BY <1>1, <2>1, <2>2
  <1>5. Range(Tail(s)) \subseteq Range(s) /\ Head(s) \in Range(s)
    BY <1>1, <1>2, <1>3 DEF Range
  <1> QED
    BY <1>1, <1>4, <1>5

LEMMA NoneIn == Range(<<>>) = {}
  BY DEF Range

\* SetToSeqs makes sequences of exactly the elements of a finite set.
LEMMA Listing ==
  ASSUME NEW S \in SUBSET Devices, NEW s \in SetToSeqs(S)
  PROVE  s \in Seq(S) /\ Range(s) = S
  <1> DEFINE D == 1 .. Cardinality(S)
  <1>1. IsFiniteSet(S) /\ Cardinality(S) \in Nat
    BY NamesAssumption, FS_Subset, FS_CardinalityType
  <1>2. s \in [D -> S] /\ \A i, j \in D : i # j => s[i] # s[j]
    BY DEF SetToSeqs
  <1>3. IsFiniteSet(D) /\ Cardinality(D) = Cardinality(S)
    BY <1>1, FS_Interval
  <1> HIDE DEF D
  <1>4. s \in Injection(D, S)
    BY <1>2 DEF Injection, IsInjective
  <1>5. s \in Surjection(D, S)
    BY <1>1, <1>3, <1>4, FS_Injection
  <1>6. Range(s) = S
    BY <1>2, <1>5 DEF Surjection, Range
  <1> QED
    BY <1>1, <1>2, <1>6 DEF D
-----------------------------------------------------------------------------
(* What is under way. *)

\* The events of a kind that callers have still to handle.
Pend(k) == UNION {Range(queue[a][k]) : a \in Callers}

\* The queue of a caller a for a kind k becomes s, and no other queue changes.
Becomes(a, k, s) ==
  /\ queue' \in Queues
  /\ \A b \in Callers, j \in Kinds : queue'[b][j] = queue[b][j] \/ (b = a /\ j = k)
  /\ \A j \in Kinds \ {k} : Pend(j)' = Pend(j)
  /\ Pend(k)' = Range(s) \cup UNION {Range(queue[b][k]) : b \in Callers \ {a}}

LEMMA OneQueue ==
  ASSUME queue \in Queues, NEW a \in Callers, NEW k \in Kinds, NEW s \in Seq(Events),
         queue' = [queue EXCEPT ![a][k] = s]
  PROVE  Becomes(a, k, s)
  <1>1. queue' \in Queues /\ queue'[a][k] = s
    BY DEF Queues
  <1>2. \A b \in Callers, j \in Kinds : queue'[b][j] = queue[b][j] \/ (b = a /\ j = k)
    BY DEF Queues
  <1>3. \A j \in Kinds \ {k} : Pend(j)' = Pend(j)
    BY <1>2 DEF Pend
  <1>4. \A b \in Callers \ {a} : queue'[b][k] = queue[b][k]
    BY <1>2
  <1>5. Pend(k)' = Range(s) \cup UNION {Range(queue[b][k]) : b \in Callers \ {a}}
    BY <1>1, <1>4 DEF Pend
  <1> QED
    BY <1>1, <1>2, <1>3, <1>5 DEF Becomes

LEMMA PendTyped ==
  ASSUME queue \in Queues, NEW k \in Kinds
  PROVE  /\ Pend(k) \subseteq Events
         /\ \A a \in Callers : queue[a][k] \in Seq(Events) /\ Range(queue[a][k]) \subseteq Pend(k)
         /\ \A a \in Callers : Pend(k) = Range(queue[a][k]) \cup UNION {Range(queue[b][k]) : b \in Callers \ {a}}
  <1>1. \A a \in Callers : queue[a][k] \in Seq(Events)
    BY DEF Queues
  <1>2. \A s \in Seq(Events) : Range(s) \subseteq Events
    BY DEF Range
  <1>3. Pend(k) \subseteq Events
    BY <1>1, <1>2 DEF Pend
  <1> QED
    BY <1>1, <1>3 DEF Pend

\* The daemon adds an event to what is under way, or nobody learns of it.
LEMMA TellIs ==
  ASSUME queue \in Queues, NEW k \in Kinds, NEW e \in Events, Tell(k, e)
  PROVE  /\ queue' \in Queues
         /\ \A b \in Callers, j \in Kinds : queue'[b][j] = queue[b][j] \/ listener[j] = b
         /\ \A j \in Kinds \ {k} : Pend(j)' = Pend(j)
         /\ \/ Pend(k)' = Pend(k) \cup {e} /\ missed' = missed
            \/ Pend(k)' = Pend(k) /\ missed' = missed \cup {<<e.device, k>>}
  <1>1. CASE \E a \in Callers : listener[k] = a /\ role[a] # "done"
    <2>1. PICK a \in Callers : listener[k] = a
      BY <1>1
    <2>2. queue[a][k] \in Seq(Events)
      BY DEF Queues
    <2> DEFINE s == Append(queue[a][k], e)
    <2>3. s \in Seq(Events) /\ Range(s) = Range(queue[a][k]) \cup {e}
      BY <2>2, OneMore
    <2>4. queue' = [queue EXCEPT ![a][k] = s] /\ missed' = missed
      BY <1>1, <2>1 DEF Tell, Queues
    <2> HIDE DEF s
    <2>5. Becomes(a, k, s)
      BY <2>3, <2>4, OneQueue
    <2>6. Pend(k)' = Pend(k) \cup {e}
      BY <2>3, <2>5, PendTyped DEF Becomes
    <2> QED
      BY <2>1, <2>4, <2>5, <2>6 DEF Becomes
  <1>2. CASE ~ \E a \in Callers : listener[k] = a /\ role[a] # "done"
    <2>1. queue' = queue /\ missed' = missed \cup {<<e.device, k>>}
      BY <1>2 DEF Tell
    <2> QED
      BY <2>1 DEF Pend
  <1> QED
    BY <1>1, <1>2

\* A caller that leaves loses what is under way to it, and all of that is missed.
LEMMA LeaveIs ==
  ASSUME TypeOK, NEW a \in Callers, Leave(a)
  PROVE  /\ queue' \in Queues /\ missed' \subseteq Devices \X Kinds /\ missed \subseteq missed'
         /\ \A b \in Callers, j \in Kinds : queue'[b][j] = queue[b][j] \/ (b = a /\ queue'[b][j] = <<>>)
         /\ \A k \in Kinds : /\ Pend(k)' \subseteq Pend(k)
                             /\ \A e \in Pend(k) \ Pend(k)' : <<e.device, k>> \in missed'
  <1>1. queue \in Queues /\ missed \subseteq Devices \X Kinds
    BY DEF TypeOK
  <1>2. queue' \in Queues
    BY <1>1 DEF Leave, Queues
  <1>3. /\ \A b \in Callers, j \in Kinds : queue'[b][j] = queue[b][j] \/ (b = a /\ queue'[b][j] = <<>>)
        /\ \A j \in Kinds : queue'[a][j] = <<>>
    BY <1>1 DEF Leave, Queues
  <1>4. missed' \subseteq Devices \X Kinds /\ missed \subseteq missed'
    BY <1>1 DEF Leave
  <1>5. ASSUME NEW k \in Kinds
        PROVE  /\ Pend(k)' \subseteq Pend(k)
               /\ \A e \in Pend(k) \ Pend(k)' : <<e.device, k>> \in missed'
    <2>1. Pend(k)' \subseteq Pend(k) /\ Pend(k) \subseteq Pend(k)' \cup Range(queue[a][k])
      BY <1>3, NoneIn DEF Pend
    <2>2. ASSUME NEW e \in Range(queue[a][k])
          PROVE  <<e.device, k>> \in missed'
      <3>1. e \in Events
        BY <1>1, PendTyped
      <3>2. <<e.device, k>> \in Devices \X Kinds
        BY <3>1 DEF Events
      <3> DEFINE s == <<e.device, k>>
      <3>3. s[1] = e.device /\ s[2] = k
        OBVIOUS
      <3> HIDE DEF s
      <3>4. \E event \in Range(queue[a][s[2]]) : event.device = s[1]
        BY <3>3
      <3>5. s \in missed'
        BY <3>2, <3>4 DEF Leave, s
      <3> QED
        BY <3>5 DEF s
    <2> QED
      BY <2>1, <2>2
  <1> QED
    BY <1>2, <1>3, <1>4, <1>5
\* The event of a service that is known when a caller asks.
Known(d) == [type |-> "resolved", device |-> d, at |-> changes]

\* A caller that asks is told of every device that has the service.
LEMMA SubscribeIs ==
  ASSUME TypeOK, NothingYet, NEW a \in Callers, NEW k \in Kinds, Subscribe(a, k)
  PROVE  /\ queue' \in Queues
         /\ \A b \in Callers, j \in Kinds : queue'[b][j] = queue[b][j] \/ (b = a /\ j = k)
         /\ \A j \in Kinds \ {k} : Pend(j)' = Pend(j)
         /\ Pend(k)' = Pend(k) \cup {Known(d) : d \in {x \in Devices : k \in announced[x]}}
  <1> DEFINE D == {x \in Devices : k \in announced[x]}
             Told(s) == [i \in DOMAIN s |-> Known(s[i])]
  <1>1. queue \in Queues /\ changes \in Nat
    BY DEF TypeOK
  <1>2. queue[a][k] = <<>>
    BY DEF Subscribe, NothingYet, Before, Kinds
  <1>3. PICK s \in SetToSeqs(D) : queue' = [queue EXCEPT ![a][k] = Told(s)]
    BY DEF Subscribe, Known
  <1>4. s \in Seq(D) /\ Range(s) = D
    BY Listing
  <1>5. \A d \in D : Known(d) \in Events
    BY <1>1 DEF Known, Events
  <1> HIDE DEF D
  <1>6. DOMAIN s = 1 .. Len(s) /\ Len(s) \in Nat /\ \A i \in 1 .. Len(s) : s[i] \in D
    BY <1>4
  <1>7. Told(s) \in Seq(Events)
    <2>1. Told(s) \in [1 .. Len(s) -> Events]
      BY <1>5, <1>6
    <2> QED
      BY <1>6, <2>1
  <1>8. Range(Told(s)) = {Known(d) : d \in D}
    BY <1>4 DEF Range
  <1> HIDE DEF Told
  <1>9. Becomes(a, k, Told(s))
    BY <1>1, <1>3, <1>7, OneQueue
  <1>10. Pend(k)' = Pend(k) \cup {Known(d) : d \in D}
    BY <1>1, <1>2, <1>8, <1>9, NoneIn, PendTyped DEF Becomes
  <1> QED
    BY <1>9, <1>10 DEF D, Becomes

\* A caller takes an event out of its queue; another caller may have the same.
LEMMA ReceiveIs ==
  ASSUME queue \in Queues, NEW a \in Callers, NEW k \in Kinds, Receive(a, k), queue[a][k] # <<>>
  PROVE  /\ queue' \in Queues
         /\ \A b \in Callers, j \in Kinds : queue'[b][j] = queue[b][j] \/ (b = a /\ j = k)
         /\ Head(queue[a][k]) \in Pend(k) /\ Head(queue[a][k]) \in Events
         /\ \A j \in Kinds \ {k} : Pend(j)' = Pend(j)
         /\ Pend(k)' \subseteq Pend(k) /\ Pend(k) \subseteq Pend(k)' \cup {Head(queue[a][k])}
  <1> DEFINE s == Tail(queue[a][k])
  <1>1. queue[a][k] \in Seq(Events)
    BY PendTyped
  <1>2. /\ s \in Seq(Events) /\ Head(queue[a][k]) \in Events
        /\ Range(queue[a][k]) = Range(s) \cup {Head(queue[a][k])}
    BY <1>1, OneLess
  <1>3. queue' = [queue EXCEPT ![a][k] = s]
    BY DEF Receive, Queues
  <1> HIDE DEF s
  <1>4. Becomes(a, k, s)
    BY <1>2, <1>3, OneQueue
  <1> QED
    BY <1>2, <1>4, PendTyped DEF Becomes

\* What a step that only moves callers, flags and listeners leaves alone.
LEMMA NothingPends == UNCHANGED queue => \A k : Pend(k)' = Pend(k)
  BY DEF Pend

-----------------------------------------------------------------------------
(* Types and listeners are kept. *)

LEMMA TypeInit == Init => TypeOK /\ NothingYet
  <1>1. ASSUME Init PROVE queue \in Queues
    <2>1. <<>> \in Seq(Events)
      OBVIOUS
    <2>2. [k \in Kinds |-> <<>>] \in [Kinds -> Seq(Events)]
      BY <2>1
    <2> QED
      BY <1>1, <2>2 DEF Init, Queues
  <1>2. ASSUME Init PROVE TypeOK
    <2>1. missed \subseteq Devices \X Kinds /\ raced \subseteq Devices /\ table \subseteq Devices
      BY <1>2 DEF Init
    <2>2. /\ announced \in [Devices -> SUBSET Kinds] /\ changes \in Nat
          /\ withdrawn \in [Devices -> Kinds \cup {"none"}]
          /\ role \in [Callers -> {"none", "stream", "scan", "done"}]
          /\ handled \in [Devices -> Nat]
      BY <1>2 DEF Init
    <2>3. \A a \in Callers : pc[a] = "start"
      BY <1>2 DEF Init
    <2> QED
      BY <1>1, <1>2, <2>1, <2>2, <2>3 DEF Init, TypeOK
  <1>3. ASSUME Init PROVE NothingYet
    BY <1>3, NamesAssumption DEF Init, NothingYet
  <1> QED
    BY <1>2, <1>3

LEMMA TypeStep == TypeOK /\ NothingYet /\ [Next]_vars => TypeOK'
  <1> SUFFICES ASSUME TypeOK, NothingYet, [Next]_vars PROVE TypeOK'
    OBVIOUS
  <1> USE DEF TypeOK
  <1>1. ASSUME NEW d \in Devices, NEW k \in Kinds, Announce(d, k) \/ Withdraw(d, k) PROVE TypeOK'
    <2>1. PICK type \in {"resolved", "removed"} : Tell(k, Event(type, d))
      BY <1>1 DEF Announce, Withdraw
    <2>2. /\ changes' = changes + 1
          /\ announced' \in [Devices -> SUBSET Kinds]
          /\ withdrawn' = withdrawn \/ withdrawn' = [withdrawn EXCEPT ![d] = k]
          /\ UNCHANGED <<callerVars, tableVars>>
      <3>1. CASE Announce(d, k)
        <4>1. announced' = [announced EXCEPT ![d] = announced[d] \cup {k}]
          BY <3>1 DEF Announce
        <4>2. announced' \in [Devices -> SUBSET Kinds]
          BY <4>1
        <4> QED
          BY <3>1, <4>2 DEF Announce
      <3>2. CASE Withdraw(d, k)
        <4>1. announced' = [announced EXCEPT ![d] = announced[d] \ {k}]
          BY <3>2 DEF Withdraw
        <4>2. announced' \in [Devices -> SUBSET Kinds]
          BY <4>1
        <4> QED
          BY <3>2, <4>2 DEF Withdraw
      <3> QED
        BY <1>1, <3>1, <3>2
    <2> HIDE DEF TypeOK
    <2>0. changes' \in Nat
      <3>1. changes \in Nat
        BY DEF TypeOK
      <3> QED
        BY <2>2, <3>1
    <2>3. Event(type, d) \in Events /\ Event(type, d).device = d
      BY <2>0 DEF Event, Events
    <2> USE DEF TypeOK
    <2>4. queue' \in Queues /\ (missed' = missed \/ missed' = missed \cup {<<d, k>>})
      <3> DEFINE e == Event(type, d)
      <3>1. e \in Events /\ e.device = d /\ Tell(k, e)
        BY <2>1, <2>3
      <3> HIDE DEF e
      <3> QED
        BY <3>1, TellIs
    <2> QED
      <3>1. withdrawn' \in [Devices -> Kinds \cup {"none"}]
        BY <2>2
      <3>2. UNCHANGED <<role, pc, table, raced, handled>>
        BY <2>2 DEF callerVars, tableVars
      <3>3. announced' \in [Devices -> SUBSET Kinds]
        BY <2>2
      <3>4. missed' \subseteq Devices \X Kinds
        <4>1. <<d, k>> \in Devices \X Kinds /\ missed \subseteq Devices \X Kinds
          OBVIOUS
        <4> HIDE DEF TypeOK
        <4> QED
          BY <2>4, <4>1
      <3> QED
        BY <2>0, <2>4, <3>1, <3>2, <3>3, <3>4
  <1>2. ASSUME NEW a \in Callers, Leave(a), UNCHANGED <<networkVars, tableVars>> PROVE TypeOK'
    <2>1. queue' \in Queues /\ missed' \subseteq Devices \X Kinds
      BY <1>2, LeaveIs
    <2> QED
      BY <1>2, <2>1 DEF Leave, networkVars, tableVars
  <1>3. ASSUME NEW a \in Callers, NEW what \in {"stream", "scan"}, Open(a, what) PROVE TypeOK'
    BY <1>3 DEF Open, networkVars, daemonVars, tableVars
  <1>4. ASSUME NEW a \in Callers, SubscribeFails(a) PROVE TypeOK'
    BY <1>2, <1>4 DEF SubscribeFails
  <1>5. ASSUME NEW a \in Callers, Poll(a) PROVE TypeOK'
    BY <1>5 DEF Poll, networkVars, daemonVars, tableVars
  <1>6. ASSUME NEW a \in Callers, Check(a) PROVE TypeOK'
    <2>1. CASE Leave(a)
      BY <1>2, <1>6, <2>1 DEF Check
    <2>2. CASE ~Leave(a)
      BY <1>6, <2>2 DEF Check, networkVars, tableVars
    <2> QED
      BY <2>1, <2>2
  <1>7. ASSUME NEW a \in Callers, NEW k \in Kinds, Receive(a, k) PROVE TypeOK'
    <2>1. CASE queue[a][k] = <<>>
      BY <1>7, <2>1 DEF Receive, networkVars, tableVars
    <2>2. CASE queue[a][k] # <<>>
      <3> DEFINE e == Head(queue[a][k])
      <3>1. queue' \in Queues /\ e \in Events
        BY <1>7, <2>2, ReceiveIs
      <3>2. e.device \in Devices /\ e.at \in Nat
        BY <3>1 DEF Events
      <3>3. /\ pc' = [pc EXCEPT ![a] = IF k = "airplay" THEN "raop" ELSE "check"]
            /\ table' = Handled(e, k).table
            /\ raced' = IF e.at < handled[e.device] THEN raced \cup {e.device} ELSE raced
            /\ handled' = [handled EXCEPT ![e.device] = e.at]
            /\ UNCHANGED <<networkVars, missed, role>>
        BY <1>7, <2>2 DEF Receive
      <3> HIDE DEF e
      <3>4. table' \subseteq Devices
        BY <3>2, <3>3 DEF Handled
      <3> QED
        BY <3>1, <3>2, <3>3, <3>4 DEF networkVars
    <2> QED
      BY <2>1, <2>2
  <1>8. ASSUME NEW a \in Callers, NEW k \in Kinds, Subscribe(a, k) PROVE TypeOK'
    <2>1. queue' \in Queues
      BY <1>8, SubscribeIs
    <2> QED
      BY <1>8, <2>1 DEF Subscribe, networkVars, tableVars
  <1>9. ASSUME NEW a \in Callers, Unsubscribe(a) PROVE TypeOK'
    BY <1>9 DEF Unsubscribe, networkVars, tableVars
  <1>10. ASSUME NEW a \in Callers, Lower(a) PROVE TypeOK'
    BY <1>2, <1>10 DEF Lower
  <1>11. CASE WantStop \/ Stops
    BY <1>11 DEF WantStop, Stops, StopLowers, StopUnsubscribes, networkVars, daemonVars, callerVars, tableVars
  <1>12. CASE UNCHANGED vars
    BY <1>12 DEF vars, networkVars, daemonVars, callerVars, tableVars
  <1> QED
    BY <1>1, <1>3, <1>4, <1>5, <1>6, <1>7, <1>8, <1>9, <1>10, <1>11, <1>12 DEF Next, Runs, Loop
LEMMA NothingYetStep == TypeOK /\ NothingYet /\ [Next]_vars => NothingYet'
  <1> SUFFICES ASSUME TypeOK, NothingYet, [Next]_vars PROVE NothingYet'
    OBVIOUS
  <1>0. /\ pc \in [Callers -> {"start", "subscribe airplay", "subscribe raop", "check", "airplay",
                               "raop", "unsubscribe", "lower", "end"}]
        /\ role \in [Callers -> {"none", "stream", "scan", "done"}]
        /\ queue \in Queues
    BY DEF TypeOK
  \* It is enough that callers do not go back, and that those who have not asked hear nothing.
  <1>a. ASSUME \A b \in Callers : role'[b] = "none" => role[b] = "none" /\ pc'[b] = pc[b],
               \A b \in Callers, k \in Kinds : Before(b, k)' =>
                 /\ Before(b, k)
                 /\ queue'[b][k] = queue[b][k] \/ queue'[b][k] = <<>> \/ listener[k] = b
                 /\ listener'[k] = listener[k] \/ listener'[k] # b
        PROVE  NothingYet'
    BY <1>a DEF NothingYet
  <1>1. ASSUME NEW d \in Devices, NEW k \in Kinds, Announce(d, k) \/ Withdraw(d, k) PROVE NothingYet'
    <2>1. PICK type \in {"resolved", "removed"} : Tell(k, Event(type, d))
      BY <1>1 DEF Announce, Withdraw
    <2>2. changes' \in Nat
      BY <1>1, TypeStep DEF Next, TypeOK
    <2> DEFINE e == Event(type, d)
    <2>3. e \in Events
      BY <2>2 DEF Event, Events
    <2>4. UNCHANGED <<role, pc, listener>>
      BY <1>1 DEF Announce, Withdraw, callerVars
    <2> HIDE DEF e
    <2>5. \A b \in Callers, j \in Kinds : queue'[b][j] = queue[b][j] \/ listener[j] = b
      <3>1. Tell(k, e)
        BY <2>1 DEF e
      <3> QED
        BY <1>0, <2>3, <3>1, TellIs
    <2>6. \A b \in Callers, j \in Kinds : Before(b, j)' <=> Before(b, j)
      BY <2>4 DEF Before
    <2> QED
      BY <1>a, <2>4, <2>5, <2>6
  <1>2. ASSUME NEW a \in Callers, Leave(a), UNCHANGED listener PROVE NothingYet'
    <2>1. \A b \in Callers, j \in Kinds : queue'[b][j] = queue[b][j] \/ queue'[b][j] = <<>>
      BY <1>2, LeaveIs
    <2>2. pc' = [pc EXCEPT ![a] = "end"] /\ role' = [role EXCEPT ![a] = "done"]
      BY <1>2 DEF Leave
    <2>3. \A b \in Callers, j \in Kinds : Before(b, j)' => Before(b, j)
      BY <1>0, <2>2 DEF Before
    <2>4. \A b \in Callers : role'[b] = "none" => role[b] = "none" /\ pc'[b] = pc[b]
      BY <1>0, <2>2
    <2> QED
      BY <1>a, <1>2, <2>1, <2>3, <2>4
  <1>3. ASSUME NEW a \in Callers, NEW what \in {"stream", "scan"}, Open(a, what) PROVE NothingYet'
    <2>1. /\ UNCHANGED <<queue, listener>> /\ role[a] = "none" /\ role' = [role EXCEPT ![a] = what]
          /\ pc' = [pc EXCEPT ![a] = "subscribe airplay"]
      BY <1>3 DEF Open, daemonVars
    <2>2. pc[a] = "start"
      BY <2>1 DEF NothingYet
    <2>3. \A b \in Callers, j \in Kinds : Before(b, j)' => Before(b, j)
      BY <1>0, <2>1, <2>2 DEF Before
    <2>4. \A b \in Callers : role'[b] = "none" => role[b] = "none" /\ pc'[b] = pc[b]
      BY <1>0, <2>1
    <2> QED
      BY <1>a, <2>1, <2>3, <2>4
  <1>4. ASSUME NEW a \in Callers, SubscribeFails(a) PROVE NothingYet'
    BY <1>2, <1>4 DEF SubscribeFails
  \* A caller in its loop stays in it.
  <1>b. ASSUME NEW a \in Callers, pc[a] \in {"check", "airplay", "raop", "unsubscribe"}, UNCHANGED role,
               NEW next \in {"check", "airplay", "raop", "unsubscribe", "lower"}, pc' = [pc EXCEPT ![a] = next],
               \A b \in Callers, j \in Kinds : queue'[b][j] = queue[b][j] \/ b = a,
               \A j \in Kinds : listener'[j] = listener[j] \/ listener'[j] \notin Callers
        PROVE  NothingYet'
    <2>1. \A b \in Callers, j \in Kinds : Before(b, j)' => Before(b, j) /\ b # a
      BY <1>0, <1>b DEF Before
    <2>2. \A b \in Callers : role'[b] = "none" => role[b] = "none" /\ pc'[b] = pc[b]
      BY <1>0, <1>b DEF NothingYet
    <2> QED
      BY <1>a, <1>b, <2>1, <2>2
  <1>5. ASSUME NEW a \in Callers, Poll(a) PROVE NothingYet'
    <2>1. UNCHANGED <<role, pc, queue, listener>>
      BY <1>5 DEF Poll, daemonVars
    <2> QED
      BY <1>a, <2>1 DEF Before
  <1>6. ASSUME NEW a \in Callers, Check(a) PROVE NothingYet'
    <2>1. CASE Leave(a)
      BY <1>2, <1>6, <2>1 DEF Check
    <2>2. CASE ~Leave(a)
      <3>1. /\ UNCHANGED <<queue, listener, role>> /\ pc[a] = "check"
            /\ pc' = [pc EXCEPT ![a] = "airplay"] \/ pc' = [pc EXCEPT ![a] = "unsubscribe"]
        BY <1>6, <2>2 DEF Check
      <3> QED
        BY <1>b, <3>1
    <2> QED
      BY <2>1, <2>2
  <1>7. ASSUME NEW a \in Callers, NEW k \in Kinds, Receive(a, k) PROVE NothingYet'
    <2>1. CASE queue[a][k] = <<>>
      BY <1>7, <2>1, <1>b DEF Receive, Kinds
    <2>2. CASE queue[a][k] # <<>>
      <3>1. \A b \in Callers, j \in Kinds : queue'[b][j] = queue[b][j] \/ b = a
        <4>1. queue \in Queues
          BY <1>0
        <4>2. \A b \in Callers, j \in Kinds : queue'[b][j] = queue[b][j] \/ (b = a /\ j = k)
          BY <1>7, <2>2, <4>1, ReceiveIs
        <4> QED
          BY <4>2
      <3>2. /\ UNCHANGED <<listener, role>> /\ pc[a] \in {"airplay", "raop"}
            /\ pc' = [pc EXCEPT ![a] = "raop"] \/ pc' = [pc EXCEPT ![a] = "check"]
        BY <1>7 DEF Receive, Kinds
      <3> QED
        BY <1>b, <3>1, <3>2
    <2> QED
      BY <2>1, <2>2
  <1>8. ASSUME NEW a \in Callers, NEW k \in Kinds, Subscribe(a, k) PROVE NothingYet'
    <2>1. \A b \in Callers, j \in Kinds : queue'[b][j] = queue[b][j] \/ (b = a /\ j = k)
      BY <1>8, SubscribeIs
    <2>2. UNCHANGED role /\ listener' = [listener EXCEPT ![k] = a]
      BY <1>8 DEF Subscribe
    <2>3. \A b \in Callers, j \in Kinds : listener'[j] = listener[j] \/ listener'[j] # b \/ (b = a /\ j = k)
      BY <2>2
    <2>4. \/ k = "airplay" /\ pc[a] = "subscribe airplay" /\ pc' = [pc EXCEPT ![a] = "subscribe raop"]
          \/ k = "raop" /\ pc[a] = "subscribe raop" /\ pc' = [pc EXCEPT ![a] = "check"]
      BY <1>8 DEF Subscribe, Kinds
    <2>5. \A b \in Callers, j \in Kinds : Before(b, j)' => Before(b, j) /\ ~(b = a /\ j = k)
      BY <1>0, <2>4 DEF Before, Kinds
    <2>6. \A b \in Callers : role'[b] = "none" => role[b] = "none" /\ pc'[b] = pc[b]
      BY <1>0, <2>2, <2>4 DEF NothingYet
    <2> QED
      BY <1>a, <2>1, <2>3, <2>5, <2>6
  <1>9. ASSUME NEW a \in Callers, Unsubscribe(a) PROVE NothingYet'
    <2>1. /\ UNCHANGED <<queue, role>> /\ pc[a] = "unsubscribe" /\ pc' = [pc EXCEPT ![a] = "lower"]
          /\ \A j \in Kinds : listener'[j] = "nobody"
      BY <1>9 DEF Unsubscribe
    <2> QED
      BY <1>b, <2>1, NamesAssumption
  <1>10. ASSUME NEW a \in Callers, Lower(a) PROVE NothingYet'
    BY <1>2, <1>10 DEF Lower
  <1>11. CASE WantStop \/ Stops
    <2>1. /\ UNCHANGED <<queue, role, pc>>
          /\ UNCHANGED listener \/ \A j \in Kinds : listener'[j] = "nobody"
      BY <1>11 DEF WantStop, Stops, StopLowers, StopUnsubscribes, daemonVars, callerVars
    <2>2. \A b \in Callers, j \in Kinds : listener'[j] = listener[j] \/ listener'[j] # b
      BY <2>1, NamesAssumption
    <2>3. \A b \in Callers, j \in Kinds : Before(b, j)' <=> Before(b, j)
      BY <2>1 DEF Before
    <2> QED
      BY <1>a, <2>1, <2>2, <2>3
  <1>12. CASE UNCHANGED vars
    BY <1>a, <1>12 DEF vars, daemonVars, callerVars, Before
  <1> QED
    BY <1>1, <1>3, <1>4, <1>5, <1>6, <1>7, <1>8, <1>9, <1>10, <1>11, <1>12 DEF Next, Runs, Loop
-----------------------------------------------------------------------------
(* The table. *)

\* The events of a device that are under way: those by which it enters the table, and those
\* by which it leaves.
Told(k, d, type) == {e \in Pend(k) : e.device = d /\ e.type = type}
Found(d) == Told("airplay", d, "resolved") \cup Told("raop", d, "resolved")
Gone(d)  == Told("raop", d, "removed")

\* A device that is there, and whose removal, if one was understood, is behind it; the
\* service that says so.
Stays(d) == announced[d] # {} /\ (announced[d] = {"airplay"} => withdrawn[d] # "raop")
Main(d)  == IF "raop" \in announced[d] THEN "raop" ELSE "airplay"

\* Nothing is told before it happens, and a removal comes before what makes it undone.
InTime ==
  \A d \in Devices :
    /\ \A e \in Found(d) \cup Gone(d) : e.at <= changes
    /\ Stays(d) => \A g \in Gone(d) : g.at < changes

\* A device that is there and not missed will be in the table: what says so comes after
\* every removal, or the table has it and every removal that comes is out of order.
ListedAt(k, d) ==
  \/ \E e \in Told(k, d, "resolved") : \A g \in Gone(d) : g.at < e.at
  \/ d \in table /\ \A g \in Gone(d) : g.at < handled[d]
Listed ==
  \A d \in Devices \ raced, k \in Kinds :
    Stays(d) /\ Main(d) = k /\ <<d, k>> \notin missed => ListedAt(k, d)

\* A device that is gone, and last by RAOP, will not be.
DelistedAt(d) ==
  \/ \E g \in Gone(d) : \A e \in Found(d) : e.at < g.at
  \/ d \notin table /\ \A e \in Found(d) : e.at < handled[d]
Vanishes(d) == announced[d] = {} /\ withdrawn[d] # "airplay"
Delisted == \A d \in Devices \ raced : Vanishes(d) /\ <<d, "raop">> \notin missed => DelistedAt(d)

Core == InTime /\ Listed /\ Delisted

LEMMA CoreInit == Init => Core
  <1> SUFFICES ASSUME Init PROVE Core
    OBVIOUS
  <1>1. \A d \in Devices : Found(d) = {} /\ Gone(d) = {}
    <2>1. \A k \in Kinds : Pend(k) = {}
      BY NoneIn DEF Init, Pend
    <2>2. Pend("airplay") = {} /\ Pend("raop") = {}
      BY <2>1 DEF Kinds
    <2> QED
      BY <2>2 DEF Found, Gone, Told
  <1>2. \A d \in Devices : Stays(d) => <<d, Main(d)>> \in missed
    <2> SUFFICES ASSUME NEW d \in Devices, Stays(d) PROVE <<d, Main(d)>> \in missed
      OBVIOUS
    <2> DEFINE s == <<d, Main(d)>>
    <2>1. announced[d] \subseteq Kinds
      BY DEF Init
    <2>2. Main(d) \in announced[d] /\ Main(d) \in Kinds
      BY <2>1 DEF Main, Stays, Kinds
    <2>3. s \in Devices \X Kinds /\ s[1] = d /\ s[2] = Main(d)
      BY <2>2
    <2> HIDE DEF s
    <2>4. s \in missed
      BY <2>2, <2>3 DEF Init
    <2> QED
      BY <2>4 DEF s
  <1>3. table = {}
    BY DEF Init
  <1> QED
    BY <1>1, <1>2, <1>3 DEF Core, InTime, Listed, Delisted, DelistedAt

LEMMA ToldTyped ==
  ASSUME TypeOK, NEW d
  PROVE  /\ Found(d) \subseteq Events /\ Gone(d) \subseteq Events
         /\ \A e \in Events : e.at \in Nat
         /\ \A k \in Kinds : Told(k, d, "resolved") \subseteq Found(d)
  <1>1. "airplay" \in Kinds /\ "raop" \in Kinds
    BY DEF Kinds
  <1>2. Pend("airplay") \subseteq Events /\ Pend("raop") \subseteq Events
    BY <1>1, PendTyped DEF TypeOK
  <1> QED
    BY <1>2 DEF Found, Gone, Told, Events, Kinds

\* Of a device, what is under way depends on what is under way.
LEMMA SameTold ==
  ASSUME NEW d, \A k \in Kinds : \A e : e.device = d => (e \in Pend(k)' <=> e \in Pend(k))
  PROVE  Found(d)' = Found(d) /\ Gone(d)' = Gone(d) /\ \A k \in Kinds : \A t : Told(k, d, t)' = Told(k, d, t)
  <1>1. \A k \in Kinds : \A t : Told(k, d, t)' = Told(k, d, t)
    BY DEF Told
  <1> QED
    BY <1>1 DEF Found, Gone, Kinds

\* A step by which nothing happens but that events are lost, of which all is missed.
LEMMA LosesCore ==
  ASSUME TypeOK, Core, missed \subseteq missed',
         \A k \in Kinds : /\ Pend(k)' \subseteq Pend(k)
                          /\ \A e \in Pend(k) \ Pend(k)' : <<e.device, k>> \in missed',
         UNCHANGED <<announced, changes, withdrawn, table, raced, handled>>
  PROVE  Core'
  <1>1. ASSUME NEW k \in Kinds, NEW d, NEW t
        PROVE  /\ Told(k, d, t)' \subseteq Told(k, d, t)
               /\ <<d, k>> \notin missed' => Told(k, d, t)' = Told(k, d, t)
    <2>1. Told(k, d, t)' \subseteq Told(k, d, t)
      BY DEF Told
    <2>2. \A e \in Told(k, d, t) : e \in Told(k, d, t)' \/ <<d, k>> \in missed'
      BY DEF Told
    <2> QED
      BY <2>1, <2>2
  <1>2. \A d : Found(d)' \subseteq Found(d) /\ Gone(d)' \subseteq Gone(d)
    BY <1>1 DEF Found, Gone, Kinds
  <1>3. \A d : (Stays(d)' <=> Stays(d)) /\ Main(d)' = Main(d) /\ (Vanishes(d)' <=> Vanishes(d))
    BY DEF Stays, Main, Vanishes
  <1>4. InTime'
    BY <1>2, <1>3 DEF Core, InTime
  <1>5. ASSUME NEW d \in Devices \ raced', NEW k \in Kinds, Stays(d)', Main(d)' = k, <<d, k>> \notin missed'
        PROVE  ListedAt(k, d)'
    <2>1. ListedAt(k, d)
      BY <1>3, <1>5 DEF Core, Listed
    <2>2. Told(k, d, "resolved")' = Told(k, d, "resolved")
      BY <1>1, <1>5
    <2> QED
      BY <1>2, <2>1, <2>2 DEF ListedAt
  <1>6. ASSUME NEW d \in Devices \ raced', Vanishes(d)', <<d, "raop">> \notin missed' PROVE DelistedAt(d)'
    <2>1. DelistedAt(d)
      BY <1>3, <1>6 DEF Core, Delisted
    <2>2. Gone(d)' = Gone(d)
      BY <1>1, <1>6 DEF Gone, Kinds
    <2> QED
      BY <1>2, <2>1, <2>2 DEF DelistedAt
  <1> QED
    BY <1>4, <1>5, <1>6 DEF Core, Listed, Delisted
LEMMA AnnounceCore ==
  ASSUME TypeOK, Core, NEW d \in Devices, NEW k \in Kinds, Announce(d, k)
  PROVE  Core'
  <1> DEFINE e == Event("resolved", d)
  <1>1. /\ changes \in Nat /\ changes' = changes + 1 /\ UNCHANGED <<table, raced, handled, withdrawn>>
        /\ announced' = [announced EXCEPT ![d] = @ \cup {k}] /\ Tell(k, e)
    BY DEF Announce, tableVars, TypeOK
  <1>2. e \in Events /\ e.device = d /\ e.type = "resolved" /\ e.at = changes + 1
    BY <1>1 DEF Event, Events
  <1>3. announced \in [Devices -> SUBSET Kinds]
    BY DEF TypeOK
  <1> HIDE DEF e
  <1>4. /\ \A j \in Kinds \ {k} : Pend(j)' = Pend(j)
        /\ \/ Pend(k)' = Pend(k) \cup {e} /\ missed' = missed
           \/ Pend(k)' = Pend(k) /\ missed' = missed \cup {<<d, k>>}
    BY <1>1, <1>2, TellIs DEF TypeOK
  <1>5. /\ \A x \in Devices \ {d} : announced'[x] = announced[x]
        /\ announced'[d] = announced[d] \cup {k}
    BY <1>1, <1>3
  <1>6. /\ \A x \in Devices \ {d} : Found(x)' = Found(x) /\ \A j \in Kinds : Told(j, x, "resolved")' = Told(j, x, "resolved")
        /\ \A x \in Devices : Gone(x)' = Gone(x) /\ Found(x)' \subseteq Found(x) \cup {e}
    <2>1. \A j \in Kinds : Pend(j)' = Pend(j) \/ Pend(j)' = Pend(j) \cup {e}
      BY <1>4
    <2>2. \A j \in Kinds, x \in Devices :
            /\ Told(j, x, "removed")' = Told(j, x, "removed")
            /\ Told(j, x, "resolved")' \subseteq Told(j, x, "resolved") \cup {e}
            /\ x # d => Told(j, x, "resolved")' = Told(j, x, "resolved")
      BY <1>2, <2>1 DEF Told
    <2> QED
      BY <2>2 DEF Found, Gone, Kinds
  <1>7. \A x \in Devices : \A f \in Found(x) \cup Gone(x) : f.at \in Nat /\ f.at <= changes
    BY ToldTyped DEF Core, InTime
  <1>8. InTime'
    <2>1. ASSUME NEW x \in Devices, NEW f \in Found(x)' \cup Gone(x)'
          PROVE  f.at <= changes'
      BY <1>1, <1>2, <1>6, <1>7
    <2>2. ASSUME NEW x \in Devices, NEW g \in Gone(x)'
          PROVE  g.at < changes'
      BY <1>1, <1>6, <1>7
    <2> QED
      BY <2>1, <2>2 DEF InTime
  <1>9. \A x \in Devices \ {d} : (Stays(x)' <=> Stays(x)) /\ Main(x)' = Main(x) /\ (Vanishes(x)' <=> Vanishes(x))
    BY <1>1, <1>5 DEF Stays, Main, Vanishes
  <1>10. \A j \in Kinds, x \in Devices : <<x, j>> \notin missed' => <<x, j>> \notin missed
    BY <1>4
  <1>11. ASSUME NEW x \in Devices \ raced', NEW j \in Kinds, Stays(x)', Main(x)' = j, <<x, j>> \notin missed'
         PROVE  ListedAt(j, x)'
    <2>1. CASE x # d
      <3>1. ListedAt(j, x)
        BY <1>1, <1>9, <1>10, <1>11, <2>1 DEF Core, Listed
      <3> QED
        BY <1>1, <1>6, <2>1, <3>1 DEF ListedAt
    <2>2. CASE x = d /\ j = k
      <3>1. e \in Told(k, d, "resolved")'
        BY <1>2, <1>4, <1>11, <2>2 DEF Told
      <3>2. \A g \in Gone(d)' : g.at < e.at
        BY <1>1, <1>2, <1>6, <1>7
      <3> QED
        BY <2>2, <3>1, <3>2 DEF ListedAt
    <2>3. CASE x = d /\ j # k
      <3>1. "raop" \in announced[d] /\ j = "raop"
        BY <1>5, <1>11, <2>3 DEF Main, Kinds
      <3>2. Stays(d) /\ Main(d) = j
        BY <3>1 DEF Stays, Main
      <3>3. ListedAt(j, d)
        BY <1>1, <1>10, <1>11, <2>3, <3>2 DEF Core, Listed
      <3>4. Told(j, d, "resolved")' = Told(j, d, "resolved")
        BY <1>4, <2>3 DEF Told
      <3> QED
        BY <1>1, <1>6, <2>3, <3>3, <3>4 DEF ListedAt
    <2> QED
      BY <2>1, <2>2, <2>3
  <1>12. ASSUME NEW x \in Devices \ raced', Vanishes(x)', <<x, "raop">> \notin missed'
         PROVE  DelistedAt(x)'
    <2>1. x # d
      BY <1>5, <1>12 DEF Vanishes
    <2>2. DelistedAt(x)
      BY <1>1, <1>9, <1>10, <1>12, <2>1 DEF Core, Delisted, Kinds
    <2> QED
      BY <1>1, <1>6, <2>1, <2>2 DEF DelistedAt
  <1> QED
    BY <1>8, <1>11, <1>12 DEF Core, Listed, Delisted

LEMMA WithdrawCore ==
  ASSUME TypeOK, Core, NEW d \in Devices, NEW k \in Kinds, Withdraw(d, k)
  PROVE  Core'
  <1> DEFINE e == Event("removed", d)
  <1>1. /\ changes \in Nat /\ changes' = changes + 1 /\ UNCHANGED <<table, raced, handled>>
        /\ k \in announced[d] /\ announced' = [announced EXCEPT ![d] = @ \ {k}]
        /\ withdrawn' = [withdrawn EXCEPT ![d] = k] /\ Tell(k, e)
    BY DEF Withdraw, tableVars, TypeOK
  <1>2. e \in Events /\ e.device = d /\ e.type = "removed" /\ e.at = changes + 1
    BY <1>1 DEF Event, Events
  <1>3. announced \in [Devices -> SUBSET Kinds] /\ withdrawn \in [Devices -> Kinds \cup {"none"}]
    BY DEF TypeOK
  <1> HIDE DEF e
  <1>4. /\ \A j \in Kinds \ {k} : Pend(j)' = Pend(j)
        /\ \/ Pend(k)' = Pend(k) \cup {e} /\ missed' = missed
           \/ Pend(k)' = Pend(k) /\ missed' = missed \cup {<<d, k>>}
    BY <1>1, <1>2, TellIs DEF TypeOK
  <1>5. /\ \A x \in Devices \ {d} : announced'[x] = announced[x] /\ withdrawn'[x] = withdrawn[x]
        /\ announced'[d] = announced[d] \ {k} /\ withdrawn'[d] = k
    BY <1>1, <1>3
  <1>6. /\ \A x \in Devices : Found(x)' = Found(x) /\ \A j \in Kinds : Told(j, x, "resolved")' = Told(j, x, "resolved")
        /\ \A x \in Devices : /\ Gone(x)' \subseteq Gone(x) \cup {e}
                              /\ x # d \/ k # "raop" => Gone(x)' = Gone(x)
    <2>1. \A j \in Kinds : Pend(j)' = Pend(j) \/ (j = k /\ Pend(j)' = Pend(j) \cup {e})
      BY <1>4
    <2>2. \A j \in Kinds, x \in Devices :
            /\ Told(j, x, "resolved")' = Told(j, x, "resolved")
            /\ Told(j, x, "removed")' \subseteq Told(j, x, "removed") \cup {e}
            /\ x # d \/ k # j => Told(j, x, "removed")' = Told(j, x, "removed")
      BY <1>2, <2>1 DEF Told
    <2> QED
      BY <2>2 DEF Found, Gone, Kinds
  <1>7. \A x \in Devices : \A f \in Found(x) \cup Gone(x) : f.at \in Nat /\ f.at <= changes
    BY ToldTyped DEF Core, InTime
  \* A device that stays after this has RAOP, and did.
  <1>s. Stays(d)' => k = "airplay" /\ "raop" \in announced[d] /\ Stays(d) /\ Main(d) = "raop" /\ Main(d)' = "raop"
    <2>1. announced[d] \subseteq Kinds
      BY <1>3
    <2>2. ASSUME Stays(d)' PROVE "raop" \in announced'[d] /\ k = "airplay"
      BY <1>5, <2>1, <2>2 DEF Stays, Kinds
    <2> QED
      BY <1>5, <2>2 DEF Stays, Main
  <1>8. InTime'
    <2>1. ASSUME NEW x \in Devices, NEW f \in Found(x)' \cup Gone(x)'
          PROVE  f.at <= changes'
      BY <1>1, <1>2, <1>6, <1>7
    <2>2. ASSUME NEW x \in Devices, Stays(x)', NEW g \in Gone(x)'
          PROVE  g.at < changes'
      <3>1. g \in Gone(x)
        BY <1>6, <1>s, <2>2
      <3> QED
        BY <1>1, <1>7, <3>1
    <2> QED
      BY <2>1, <2>2 DEF InTime
  <1>9. \A x \in Devices \ {d} : (Stays(x)' <=> Stays(x)) /\ Main(x)' = Main(x) /\ (Vanishes(x)' <=> Vanishes(x))
    BY <1>5 DEF Stays, Main, Vanishes
  <1>10. \A j \in Kinds, x \in Devices : <<x, j>> \notin missed' => <<x, j>> \notin missed
    BY <1>4
  <1>11. ASSUME NEW x \in Devices \ raced', NEW j \in Kinds, Stays(x)', Main(x)' = j, <<x, j>> \notin missed'
         PROVE  ListedAt(j, x)'
    <2>1. Stays(x) /\ Main(x) = j /\ Gone(x)' = Gone(x)
      BY <1>6, <1>9, <1>11, <1>s
    <2>2. ListedAt(j, x)
      BY <1>1, <1>10, <1>11, <2>1 DEF Core, Listed
    <2> QED
      BY <1>1, <1>6, <2>1, <2>2 DEF ListedAt
  <1>12. ASSUME NEW x \in Devices \ raced', Vanishes(x)', <<x, "raop">> \notin missed'
         PROVE  DelistedAt(x)'
    <2>1. CASE x # d
      <3>1. DelistedAt(x)
        BY <1>1, <1>9, <1>10, <1>12, <2>1 DEF Core, Delisted, Kinds
      <3> QED
        BY <1>1, <1>6, <2>1, <3>1 DEF DelistedAt
    <2>2. CASE x = d
      <3>1. k = "raop"
        BY <1>5, <1>12, <2>2 DEF Vanishes, Kinds
      <3>2. e \in Gone(d)'
        BY <1>2, <1>4, <1>12, <2>2, <3>1 DEF Gone, Told
      <3>3. \A f \in Found(d)' : f.at < e.at
        BY <1>1, <1>2, <1>6, <1>7
      <3> QED
        BY <2>2, <3>2, <3>3 DEF DelistedAt
    <2> QED
      BY <2>1, <2>2
  <1> QED
    BY <1>8, <1>11, <1>12 DEF Core, Listed, Delisted
LEMMA SubscribeCore ==
  ASSUME TypeOK, NothingYet, Core, NEW a \in Callers, NEW k \in Kinds, Subscribe(a, k)
  PROVE  Core'
  <1>1. /\ changes \in Nat /\ UNCHANGED <<announced, changes, withdrawn, table, raced, handled>>
        /\ missed' = {s \in missed : s[2] # k \/ k \notin announced[s[1]]}
    BY DEF Subscribe, networkVars, tableVars, TypeOK
  <1>2. /\ \A j \in Kinds \ {k} : Pend(j)' = Pend(j)
        /\ Pend(k)' = Pend(k) \cup {Known(d) : d \in {x \in Devices : k \in announced[x]}}
    BY SubscribeIs
  <1>3. \A d : Known(d).device = d /\ Known(d).type = "resolved" /\ Known(d).at = changes
    BY DEF Known
  <1>4. ASSUME NEW d \in Devices, NEW j \in Kinds
        PROVE  /\ Told(j, d, "removed")' = Told(j, d, "removed")
               /\ Told(j, d, "resolved") \subseteq Told(j, d, "resolved")'
               /\ Told(j, d, "resolved")' \subseteq Told(j, d, "resolved") \cup {Known(d)}
               /\ k \notin announced[d] => Told(j, d, "resolved")' = Told(j, d, "resolved")
    <2>1. CASE j # k
      BY <1>2, <2>1 DEF Told
    <2>2. CASE j = k
      <3>1. \A f \in Pend(k)' \ Pend(k) : f = Known(f.device) /\ f.type = "resolved" /\ k \in announced[f.device]
        BY <1>2, <1>3
      <3>2. Pend(k) \subseteq Pend(k)'
        BY <1>2
      <3> QED
        BY <2>2, <3>1, <3>2 DEF Told
    <2> QED
      BY <2>1, <2>2
  <1>5. \A d \in Devices : /\ Gone(d)' = Gone(d) /\ Found(d)' \subseteq Found(d) \cup {Known(d)}
                           /\ announced[d] = {} => Found(d)' = Found(d)
    BY <1>4 DEF Found, Gone, Kinds
  <1>6. \A d : (Stays(d)' <=> Stays(d)) /\ Main(d)' = Main(d) /\ (Vanishes(d)' <=> Vanishes(d))
    BY <1>1 DEF Stays, Main, Vanishes
  <1>7. InTime'
    <2>1. ASSUME NEW d \in Devices, NEW f \in Found(d)' \cup Gone(d)'
          PROVE  f.at <= changes'
      BY <1>1, <1>3, <1>5 DEF Core, InTime
    <2>2. ASSUME NEW d \in Devices, Stays(d)', NEW g \in Gone(d)'
          PROVE  g.at < changes'
      BY <1>1, <1>5, <1>6, <2>2 DEF Core, InTime
    <2> QED
      BY <2>1, <2>2 DEF InTime
  <1>8. ASSUME NEW d \in Devices, NEW j \in Kinds, <<d, j>> \in missed, <<d, j>> \notin missed'
        PROVE  j = k /\ k \in announced[d]
    <2> DEFINE s == <<d, j>>
    <2>1. s[1] = d /\ s[2] = j /\ s \in missed /\ s \notin missed'
      BY <1>8
    <2> HIDE DEF s
    <2> QED
      BY <1>1, <2>1
  <1>9. ASSUME NEW d \in Devices \ raced', NEW j \in Kinds, Stays(d)', Main(d)' = j, <<d, j>> \notin missed'
        PROVE  ListedAt(j, d)'
    <2>1. CASE <<d, j>> \notin missed
      <3>1. ListedAt(j, d)
        BY <1>1, <1>6, <1>9, <2>1 DEF Core, Listed
      <3> QED
        BY <1>1, <1>4, <1>5, <3>1 DEF ListedAt
    <2>2. CASE <<d, j>> \in missed
      <3>1. j = k /\ k \in announced[d]
        BY <1>8, <1>9, <2>2
      <3>2. Known(d) \in Told(j, d, "resolved")'
        BY <1>2, <1>3, <3>1 DEF Told
      <3>3. \A g \in Gone(d)' : g.at < Known(d).at
        BY <1>3, <1>5, <1>6, <1>9 DEF Core, InTime
      <3> QED
        BY <3>2, <3>3 DEF ListedAt
    <2> QED
      BY <2>1, <2>2
  <1>10. ASSUME NEW d \in Devices \ raced', Vanishes(d)', <<d, "raop">> \notin missed'
         PROVE  DelistedAt(d)'
    <2>1. announced[d] = {}
      BY <1>6, <1>10 DEF Vanishes
    <2>2. <<d, "raop">> \notin missed
      BY <1>8, <1>10, <2>1 DEF Kinds
    <2>3. DelistedAt(d)
      BY <1>1, <1>6, <1>10, <2>2 DEF Core, Delisted
    <2> QED
      BY <1>1, <1>5, <2>1, <2>3 DEF DelistedAt
  <1> QED
    BY <1>7, <1>9, <1>10 DEF Core, Listed, Delisted

\* An event that is handled out of order marks its device. Of any other, one that enters the
\* device in the table or takes it out is later than all that was handled before.
LEMMA ReceiveCore ==
  ASSUME TypeOK, Core, NEW a \in Callers, NEW k \in Kinds, Receive(a, k), queue[a][k] # <<>>
  PROVE  Core'
  <1>0. PICK e \in Events : e = Head(queue[a][k])
    BY ReceiveIs DEF TypeOK
  <1>1. /\ e \in Pend(k) /\ e \in Events /\ \A j \in Kinds \ {k} : Pend(j)' = Pend(j)
        /\ Pend(k)' \subseteq Pend(k) /\ Pend(k) \subseteq Pend(k)' \cup {e}
    BY <1>0, ReceiveIs DEF TypeOK
  <1> DEFINE d == e.device
  <1>2. /\ UNCHANGED <<announced, changes, withdrawn, missed>>
        /\ table' = Handled(e, k).table
        /\ raced' = IF e.at < handled[d] THEN raced \cup {d} ELSE raced
        /\ handled' = [handled EXCEPT ![d] = e.at]
    BY <1>0 DEF Receive, networkVars
  <1>3. /\ d \in Devices /\ e.at \in Nat /\ e.type \in {"resolved", "removed"}
        /\ handled \in [Devices -> Nat]
    BY <1>1 DEF Events, TypeOK, d
  <1> HIDE DEF d
  <1>4. /\ \A x \in Devices \ {d} : (x \in table' <=> x \in table) /\ handled'[x] = handled[x]
        /\ handled'[d] = e.at
        /\ e.type = "resolved" => d \in table'
        /\ e.type = "removed" => IF k = "raop" THEN d \notin table' ELSE table' = table
    BY <1>2, <1>3 DEF Handled, d
  <1>5. /\ \A x \in Devices \ raced' : x \notin raced
        /\ d \notin raced' => handled[d] <= e.at
    BY <1>2, <1>3
  <1>6. ASSUME NEW j \in Kinds, NEW x \in Devices, NEW t
        PROVE  /\ Told(j, x, t)' \subseteq Told(j, x, t)
               /\ Told(j, x, t) \subseteq Told(j, x, t)' \cup {e}
               /\ x # d \/ j # k \/ e.type # t => Told(j, x, t)' = Told(j, x, t)
    BY <1>1 DEF Told, d
  <1>7. \A x \in Devices : /\ Found(x)' \subseteq Found(x) /\ Found(x) \subseteq Found(x)' \cup {e}
                           /\ Gone(x)' \subseteq Gone(x) /\ Gone(x) \subseteq Gone(x)' \cup {e}
                           /\ x # d => Found(x)' = Found(x) /\ Gone(x)' = Gone(x)
    BY <1>6 DEF Found, Gone, Kinds
  <1>8. /\ e.type = "removed" /\ k = "raop" => e \in Gone(d)
        /\ e.type = "resolved" => e \in Found(d)
        /\ e \in Gone(d) => e.type = "removed"
        /\ e \in Found(d) => e.type = "resolved"
    BY <1>1 DEF Gone, Found, Told, Kinds, d
  <1>9. \A x : (Stays(x)' <=> Stays(x)) /\ Main(x)' = Main(x) /\ (Vanishes(x)' <=> Vanishes(x))
    BY <1>2 DEF Stays, Main, Vanishes
  <1>10. InTime'
    BY <1>2, <1>7, <1>9 DEF Core, InTime
  <1>11. \A x \in Devices : handled[x] \in Nat /\ \A f \in Found(x) \cup Gone(x) : f.at \in Nat
    BY <1>3, ToldTyped
  <1>12. ASSUME NEW x \in Devices \ raced', NEW j \in Kinds, Stays(x)', Main(x)' = j, <<x, j>> \notin missed'
         PROVE  ListedAt(j, x)'
    <2>1. ListedAt(j, x)
      BY <1>2, <1>5, <1>9, <1>12 DEF Core, Listed
    <2>2. CASE x # d
      BY <1>4, <1>6, <1>7, <2>1, <2>2 DEF ListedAt
    <2>3. CASE x = d /\ \E f \in Told(j, d, "resolved") : \A g \in Gone(d) : g.at < f.at
      <3>1. PICK f \in Told(j, d, "resolved") : \A g \in Gone(d) : g.at < f.at
        BY <2>3
      <3>2. CASE f \in Told(j, d, "resolved")'
        BY <1>7, <1>3, <2>3, <3>1, <3>2 DEF ListedAt
      <3>3. CASE f \notin Told(j, d, "resolved")'
        <4>1. f = e
          BY <1>3, <1>6, <3>1, <3>3
        <4>2. e.type = "resolved"
          BY <3>1, <4>1 DEF Told
        <4>3. d \in table' /\ \A g \in Gone(d)' : g.at < handled'[d]
          BY <1>3, <1>4, <1>7, <3>1, <4>1, <4>2
        <4> QED
          BY <2>3, <4>3 DEF ListedAt
      <3> QED
        BY <3>2, <3>3
    <2>4. CASE x = d /\ d \in table /\ \A g \in Gone(d) : g.at < handled[d]
      <3>1. handled[d] <= e.at
        BY <1>5, <1>12, <2>4
      <3>2. e \notin Gone(d)
        BY <1>3, <1>11, <2>4, <3>1
      <3>3. d \in table'
        BY <1>3, <1>4, <1>8, <2>4, <3>2
      <3>4. \A g \in Gone(d)' : g.at < handled'[d]
        BY <1>3, <1>4, <1>7, <1>11, <2>4, <3>1
      <3> QED
        BY <2>4, <3>3, <3>4 DEF ListedAt
    <2> QED
      BY <2>1, <2>2, <2>3, <2>4 DEF ListedAt
  <1>13. ASSUME NEW x \in Devices \ raced', Vanishes(x)', <<x, "raop">> \notin missed'
         PROVE  DelistedAt(x)'
    <2>1. DelistedAt(x)
      BY <1>2, <1>5, <1>9, <1>13 DEF Core, Delisted
    <2>2. CASE x # d
      BY <1>4, <1>7, <2>1, <2>2 DEF DelistedAt
    <2>3. CASE x = d /\ \E g \in Gone(d) : \A f \in Found(d) : f.at < g.at
      <3>1. PICK g \in Gone(d) : \A f \in Found(d) : f.at < g.at
        BY <2>3
      <3>2. CASE g \in Gone(d)'
        BY <1>3, <1>7, <2>3, <3>1, <3>2 DEF DelistedAt
      <3>3. CASE g \notin Gone(d)'
        <4>1. g = e /\ e.type = "removed"
          BY <1>3, <1>7, <1>8, <3>1, <3>3
        <4>2. k = "raop"
          BY <1>3, <1>6, <3>1, <3>3 DEF Gone, Kinds
        <4>3. d \notin table' /\ \A f \in Found(d)' : f.at < handled'[d]
          BY <1>3, <1>4, <1>7, <3>1, <4>1, <4>2
        <4> QED
          BY <2>3, <4>3 DEF DelistedAt
      <3> QED
        BY <3>2, <3>3
    <2>4. CASE x = d /\ d \notin table /\ \A f \in Found(d) : f.at < handled[d]
      <3>1. handled[d] <= e.at
        BY <1>5, <1>13, <2>4
      <3>2. e \notin Found(d)
        BY <1>3, <1>11, <2>4, <3>1
      <3>3. d \notin table'
        BY <1>3, <1>4, <1>8, <2>4, <3>2
      <3>4. \A f \in Found(d)' : f.at < handled'[d]
        BY <1>3, <1>4, <1>7, <1>11, <2>4, <3>1
      <3> QED
        BY <2>4, <3>3, <3>4 DEF DelistedAt
    <2> QED
      BY <2>1, <2>2, <2>3, <2>4 DEF DelistedAt
  <1> QED
    BY <1>10, <1>12, <1>13 DEF Core, Listed, Delisted

LEMMA CoreStep == TypeOK /\ NothingYet /\ Core /\ [Next]_vars => Core'
  <1> SUFFICES ASSUME TypeOK, NothingYet, Core, [Next]_vars PROVE Core'
    OBVIOUS
  <1>1. ASSUME UNCHANGED <<networkVars, queue, missed, tableVars>> PROVE Core'
    <2>1. \A k : Pend(k)' = Pend(k)
      BY <1>1, NothingPends
    <2> QED
      BY <1>1, <2>1, LosesCore DEF networkVars, tableVars
  <1>2. ASSUME NEW a \in Callers, Leave(a), UNCHANGED <<networkVars, tableVars>> PROVE Core'
    BY <1>2, LeaveIs, LosesCore DEF networkVars, tableVars
  <1>3. ASSUME NEW d \in Devices, NEW k \in Kinds, Announce(d, k) \/ Withdraw(d, k) PROVE Core'
    BY <1>3, AnnounceCore, WithdrawCore
  <1>4. ASSUME NEW a \in Callers, NEW k \in Kinds, Subscribe(a, k) PROVE Core'
    BY <1>4, SubscribeCore
  <1>5. ASSUME NEW a \in Callers, NEW k \in Kinds, Receive(a, k) PROVE Core'
    <2>1. CASE queue[a][k] = <<>>
      BY <1>1, <1>5, <2>1 DEF Receive
    <2> QED
      BY <1>5, <2>1, ReceiveCore
  <1>6. ASSUME NEW a \in Callers, SubscribeFails(a) \/ Lower(a) PROVE Core'
    BY <1>2, <1>6 DEF SubscribeFails, Lower
  <1>7. ASSUME NEW a \in Callers, Check(a) PROVE Core'
    <2>1. CASE Leave(a)
      BY <1>2, <1>7, <2>1 DEF Check
    <2>2. CASE ~Leave(a)
      BY <1>1, <1>7, <2>2 DEF Check
    <2> QED
      BY <2>1, <2>2
  <1>8. ASSUME NEW a \in Callers, Poll(a) \/ Unsubscribe(a) \/ \E what \in {"stream", "scan"} : Open(a, what)
        PROVE  Core'
    BY <1>1, <1>8 DEF Poll, Unsubscribe, Open, daemonVars
  <1>9. CASE WantStop \/ Stops
    BY <1>1, <1>9 DEF WantStop, Stops, StopLowers, StopUnsubscribes, daemonVars
  <1>10. CASE UNCHANGED vars
    BY <1>1, <1>10 DEF vars, daemonVars
  <1> QED
    BY <1>3, <1>4, <1>5, <1>6, <1>7, <1>8, <1>9, <1>10 DEF Next, Runs, Loop

LEMMA CoreMeans ==
  ASSUME TypeOK, Core
  PROVE  TableIsFresh
  <1> SUFFICES ASSUME NEW d \in Devices \ raced, ~Pending(d), \A k \in Kinds : <<d, k>> \notin missed
               PROVE  /\ d \in table /\ announced[d] = {} => withdrawn[d] = "airplay"
                      /\ d \notin table /\ announced[d] # {} => announced[d] = {"airplay"} /\ withdrawn[d] = "raop"
    BY DEF TableIsFresh
  <1>1. \A k \in Kinds : \A t : Told(k, d, t) = {}
    BY DEF Told, Pend, Pending
  <1>2. Found(d) = {} /\ Gone(d) = {} /\ "raop" \in Kinds /\ Main(d) \in Kinds
    BY <1>1 DEF Found, Gone, Kinds, Main
  <1>3. Stays(d) => d \in table
    BY <1>1, <1>2 DEF Core, Listed, ListedAt
  <1>4. Vanishes(d) => d \notin table
    BY <1>2 DEF Core, Delisted, DelistedAt
  <1> QED
    BY <1>3, <1>4 DEF Stays, Vanishes

\* However callers come, go and overtake one another: once the latest changes of a device have
\* reached a caller and been handled, the table is right about the device, except for the removals that
\* name no device and for devices whose events were handled out of order.
THEOREM TableStaysFresh == Spec => []TableIsFresh
  <1>1. Init => TypeOK /\ NothingYet /\ Core
    BY TypeInit, CoreInit
  <1>2. TypeOK /\ NothingYet /\ Core /\ [Next]_vars => (TypeOK /\ NothingYet /\ Core)'
    BY TypeStep, NothingYetStep, CoreStep
  <1>3. TypeOK /\ Core => TableIsFresh
    BY CoreMeans
  <1> QED
    BY <1>1, <1>2, <1>3, PTL DEF Spec
=============================================================================
