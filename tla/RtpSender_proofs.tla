-------------------------- MODULE RtpSender_proofs --------------------------
(***************************************************************************)
(* Theorems about RtpSender, for every sequence space and every ring size  *)
(* that divides it.                                                        *)
(***************************************************************************)
EXTENDS RtpSender, SequenceTheorems, TLAPS

-----------------------------------------------------------------------------
(* Arithmetic of the wrap. *)

\* Z3 does not rearrange products by itself.
LEMMA Distribute ==
  ASSUME NEW a \in Int, NEW b \in Int, NEW c \in Int
  PROVE  a * (b + c) = a * b + a * c
OBVIOUS

\* The same, for a product of three factors.
LEMMA Associate ==
  ASSUME NEW a \in Int, NEW b \in Int, NEW c \in Int
  PROVE  (a * b) * c = a * (b * c)
OBVIOUS

\* Quotient and remainder are unique.
LEMMA RemainderIs ==
  ASSUME NEW m \in Nat \ {0}, NEW q \in Int, NEW r \in 0 .. m - 1
  PROVE  (m * q + r) % m = r
<1> DEFINE n == m * q + r
           p == n \div m
           s == n % m
<1>1. n \in Int /\ p \in Int /\ s \in 0 .. m - 1 /\ n = m * p + s
  OBVIOUS
<1>2. m * (q - p) = s - r
  BY <1>1
<1>3. CASE q = p
  BY <1>1, <1>2, <1>3
<1>4. CASE q > p
  <2>1. m * (q - p) >= m
    <3>1. q - p \in Nat /\ q - p >= 1
      BY <1>1, <1>4
    <3>2. \A k \in Nat : k >= 1 => m * k >= m
      OBVIOUS
    <3>. QED
      BY <3>1, <3>2
  <2>. QED
    BY <1>1, <1>2, <2>1
<1>5. CASE q < p
  <2>1. m * (p - q) >= m
    <3>1. p - q \in Nat /\ p - q >= 1
      BY <1>1, <1>5
    <3>2. \A k \in Nat : k >= 1 => m * k >= m
      OBVIOUS
    <3>. QED
      BY <3>1, <3>2
  <2>2. m * (p - q) = r - s
    BY <1>1
  <2>. QED
    BY <1>1, <2>1, <2>2
<1>. QED
  BY <1>1, <1>3, <1>4, <1>5

\* Every number is quotient times modulus plus remainder.
LEMMA Split ==
  ASSUME NEW m \in Nat \ {0}, NEW n \in Nat
  PROVE  /\ n \div m \in Nat
         /\ n % m \in 0 .. m - 1
         /\ n = m * (n \div m) + (n % m)
<1> DEFINE q == n \div m
<1>1. q \in Int /\ n % m \in 0 .. m - 1 /\ n = m * q + (n % m)
  OBVIOUS
<1>2. CASE q < 0
  <2>1. -q \in Nat /\ -q >= 1
    BY <1>1, <1>2
  <2>2. \A k \in Nat : k >= 1 => m * k >= m
    OBVIOUS
  <2>3. m * (-q) >= m /\ m * (-q) = -(m * q)
    BY <1>1, <2>1, <2>2
  <2>. QED
    BY <1>1, <2>3
<1>. QED
  BY <1>1, <1>2

\* The slot computed from the wrapped sequence number is the slot of the packet number,
\* because the ring size divides the sequence space.
LEMMA SlotOfNumber ==
  ASSUME NEW h \in Nat \ {0}, NEW k \in Nat \ {0}, NEW n \in Nat
  PROVE  (n % (h * k)) % h = n % h
<1> DEFINE m == h * k
           q == n \div m
           s == n % m
           u == s \div h
           r == s % h
<1>1. m \in Nat \ {0}
  OBVIOUS
<1> HIDE DEF m
<1>2. q \in Nat /\ s \in Nat /\ n = m * q + s
  BY <1>1, Split
<1>3. u \in Nat /\ r \in 0 .. h - 1 /\ s = h * u + r
  BY <1>2, Split
<1> HIDE DEF q, s, u, r
<1>4. k * q + u \in Int
  BY <1>2, <1>3
<1>5. m * q = h * (k * q)
  BY <1>2, Associate DEF m
<1>6. n = h * (k * q + u) + r
  <2>1. h * (k * q + u) = h * (k * q) + h * u
    BY <1>2, <1>3, Distribute
  <2>. QED
    BY <1>2, <1>3, <1>5, <2>1
<1>7. n % h = r
  BY <1>3, <1>4, <1>6, RemainderIs
<1>. QED
  BY <1>7 DEF s, r, m

\* wrapping_add(1) on the wrapped number is the wrapped successor.
LEMMA Successor ==
  ASSUME NEW m \in Nat \ {0}, NEW n \in Nat
  PROVE  ((n % m) + 1) % m = (n + 1) % m
<1> DEFINE q == n \div m
           r == n % m
<1>1. q \in Nat /\ r \in 0 .. m - 1 /\ n = m * q + r
  BY Split
<1> HIDE DEF q, r
<1>2. ASSUME r + 1 = m PROVE (r + 1) % m = (n + 1) % m
  <2>1. n + 1 = m * (q + 1) + 0
    BY <1>1, <1>2
  <2>2. (n + 1) % m = 0
    BY <1>1, <2>1, RemainderIs, q + 1 \in Int, 0 \in 0 .. m - 1
  <2>3. r + 1 = m * 1 + 0
    BY <1>1, <1>2
  <2>4. (r + 1) % m = 0
    BY <2>3, RemainderIs, 1 \in Int, 0 \in 0 .. m - 1
  <2>. QED
    BY <2>2, <2>4
<1>3. ASSUME r + 1 # m PROVE (r + 1) % m = (n + 1) % m
  <2>1. r + 1 \in 0 .. m - 1
    BY <1>1, <1>3
  <2>2. n + 1 = m * q + (r + 1) /\ r + 1 = m * 0 + (r + 1)
    BY <1>1
  <2>3. (n + 1) % m = r + 1
    BY <1>1, <2>1, <2>2, RemainderIs
  <2>4. (r + 1) % m = r + 1
    BY <2>1, <2>2, RemainderIs, 0 \in Int
  <2>. QED
    BY <2>3, <2>4
<1>4. (r + 1) % m = (n + 1) % m
  BY <1>2, <1>3
<1>. QED
  BY <1>4 DEF r

\* Numbers closer than the modulus have different remainders.
LEMMA CloseAreDistinct ==
  ASSUME NEW m \in Nat \ {0}, NEW a \in Nat, NEW b \in Nat, a < b, b < a + m
  PROVE  a % m # b % m
<1> SUFFICES ASSUME a % m = b % m PROVE FALSE
  OBVIOUS
<1> DEFINE p == a \div m
           q == b \div m
<1>1. p \in Nat /\ q \in Nat /\ a = m * p + (a % m) /\ b = m * q + (b % m)
  BY Split
<1>2. m * (q - p) = b - a
  BY <1>1
<1>3. \A k \in Nat : k >= 1 => m * k >= m
  OBVIOUS
<1>4. CASE q > p
  <2>1. q - p \in Nat /\ q - p >= 1
    BY <1>1, <1>4
  <2>. QED
    BY <1>2, <1>3, <2>1
<1>5. CASE q <= p
  <2>1. p - q \in Nat
    BY <1>1, <1>5
  <2>2. m * (p - q) >= 0
    BY <2>1
  <2>3. m * (q - p) = -(m * (p - q))
    BY <1>1
  <2>. QED
    BY <1>2, <2>2, <2>3
<1>. QED
  BY <1>1, <1>4, <1>5

\* A lap later the remainder is the same.
LEMMA NextLap ==
  ASSUME NEW m \in Nat \ {0}, NEW n \in Nat
  PROVE  (n + m) % m = n % m
<1> DEFINE q == n \div m
           r == n % m
<1>1. q \in Nat /\ r \in 0 .. m - 1 /\ n = m * q + r
  BY Split
<1> HIDE DEF q, r
<1>2. n + m = m * (q + 1) + r
  <2>1. m * (q + 1) = m * q + m
    BY <1>1, Distribute
  <2>. QED
    BY <1>1, <2>1
<1>3. (n + m) % m = r
  BY <1>1, <1>2, RemainderIs, q + 1 \in Int
<1>. QED
  BY <1>3 DEF r

-----------------------------------------------------------------------------
(* The ring. *)

\* Both sizes are positive.
LEMMA Sizes == HistorySize \in Nat \ {0} /\ SeqSpace \in Nat \ {0}
BY RingAssumption

\* What RingAssumption says of the remainders the code computes.
LEMMA Constants ==
  /\ HistorySize \in Nat \ {0} /\ SeqSpace \in Nat \ {0}
  /\ \A n \in Nat : n % SeqSpace \in SeqNums /\ n % HistorySize \in Slots
  /\ \A n \in Nat : (n % SeqSpace) % HistorySize = n % HistorySize
<1>1. HistorySize \in Nat \ {0} /\ SeqSpace \in Nat \ {0}
  BY RingAssumption
<1>2. PICK k \in 1 .. SeqSpace : SeqSpace = HistorySize * k
  BY RingAssumption
<1>3. k \in Nat \ {0}
  BY <1>1
<1>4. ASSUME NEW n \in Nat PROVE n % SeqSpace \in SeqNums /\ n % HistorySize \in Slots
  BY <1>1, Split DEF SeqNums, Slots
<1>5. ASSUME NEW n \in Nat PROVE (n % SeqSpace) % HistorySize = n % HistorySize
  BY <1>1, <1>2, <1>3, SlotOfNumber
<1>. QED
  BY <1>1, <1>4, <1>5

\* serialize_audio keeps the ring exact: the packet it evicts is HistorySize old, and
\* the wrap of the sequence number does not disturb the slots.
LEMMA SerializeKeepsRing ==
  ASSUME TypeOK, RingHoldsLatest, SerializeAudio
  PROVE  RingHoldsLatest'
<1> DEFINE x == sequence % HistorySize
           new == [seq |-> sequence, number |-> prepared]
<1>1. prepared \in Nat /\ prepared' = prepared + 1
  BY DEF TypeOK, SerializeAudio
<1>2. sequence = prepared % SeqSpace /\ sequence' = (prepared + 1) % SeqSpace
  BY <1>1, Constants, Successor DEF RingHoldsLatest, SerializeAudio
<1>3. x \in Slots /\ x = prepared % HistorySize
  BY <1>1, <1>2, Constants
<1>4. new = Packet(prepared)
  BY <1>2 DEF Packet
<1>5. history' = [history EXCEPT ![x] = new]
  BY DEF SerializeAudio
<1> HIDE DEF x, new
<1>6. DOMAIN history = Slots
  BY DEF TypeOK
<1>7. ASSUME NEW n \in 0 .. prepared' - 1, Recent(n)'
      PROVE  history'[n % HistorySize] = Packet(n)
  <2>1. n \in Nat /\ n < prepared + 1 /\ prepared + 1 <= n + HistorySize
    BY <1>1, <1>7 DEF Recent
  <2>2. CASE n = prepared
    BY <1>3, <1>4, <1>5, <1>6, <2>2
  <2>3. CASE n # prepared
    <3>1. n \in 0 .. prepared - 1 /\ Recent(n)
      BY <1>1, <2>1, <2>3, Constants DEF Recent
    <3>2. prepared % HistorySize # n % HistorySize
      <4>1. n < prepared /\ prepared < n + HistorySize
        BY <1>1, <2>1, <2>3, Constants
      <4>. QED
        BY <1>1, <2>1, <4>1, Constants, CloseAreDistinct
    <3>3. history'[n % HistorySize] = history[n % HistorySize]
      BY <1>3, <1>5, <1>6, <3>2, <2>1, Constants
    <3>. QED
      BY <3>1, <3>3 DEF RingHoldsLatest
  <2>. QED
    BY <2>2, <2>3
<1>8. ASSUME NEW i \in Slots, history'[i] # NoPacket
      PROVE  /\ Recent(history[i].number)'
             /\ history'[i] = Packet(history'[i].number)
             /\ history'[i].number % HistorySize = i
  <2>1. CASE i = x
    <3>1. history'[i] = Packet(prepared) /\ history'[i].number = prepared
      BY <1>4, <1>5, <1>6, <2>1 DEF Packet
    <3>2. Recent(history[i].number)'
      BY <1>1, <3>1, Constants DEF Recent
    <3>. QED
      BY <1>3, <2>1, <3>1, <3>2
  <2>2. CASE i # x
    <3> DEFINE n == history[i].number
    <3>1. history'[i] = history[i] /\ history[i] # NoPacket
      BY <1>5, <1>6, <1>8, <2>2
    <3>2. Recent(n) /\ history[i] = Packet(n) /\ n % HistorySize = i
      BY <3>1 DEF RingHoldsLatest
    <3>3. n \in Nat
      BY <3>1 DEF TypeOK, Packets
    <3>4. prepared # n + HistorySize
      <4> SUFFICES ASSUME prepared = n + HistorySize PROVE FALSE
        OBVIOUS
      <4>1. prepared % HistorySize = n % HistorySize
        BY <3>3, Constants, NextLap
      <4>. QED
        BY <1>3, <2>2, <3>2, <4>1
    <3>5. n < prepared + 1 /\ prepared + 1 <= n + HistorySize
      BY <1>1, <3>2, <3>3, <3>4, Sizes DEF Recent
    <3>6. Recent(history[i].number)'
      BY <1>1, <3>1, <3>5 DEF Recent
    <3>. QED
      BY <3>1, <3>2, <3>6
  <2>. QED
    BY <2>1, <2>2
<1>. QED
  BY <1>1, <1>2, <1>7, <1>8 DEF RingHoldsLatest, Packet, NoPacket

-----------------------------------------------------------------------------
(* Type correctness. *)

\* What serialize_audio stores and counts keeps its type.
LEMMA SerializeType ==
  ASSUME TypeOK, RingHoldsLatest, SerializeAudio
  PROVE  /\ sequence' \in SeqNums
         /\ prepared' \in Nat
         /\ history' \in [Slots -> Packets \cup {NoPacket}]
<1>1. prepared \in Nat /\ sequence \in SeqNums /\ sequence \in Nat
  BY Constants DEF TypeOK, SeqNums
<1>2. sequence' \in SeqNums /\ sequence % HistorySize \in Slots
  <2>1. sequence + 1 \in Nat
    BY <1>1
  <2>. QED
    BY <1>1, <2>1, Constants DEF SerializeAudio
<1>3. [seq |-> sequence, number |-> prepared] \in Packets
  BY <1>1 DEF Packets
<1>. QED
  BY <1>1, <1>2, <1>3 DEF TypeOK, SerializeAudio

\* What is resent comes out of the ring.
LEMMA ResentType ==
  ASSUME TypeOK, NEW r \in Requests, NEW n \in Int
  PROVE  Resent(r, n) \subseteq Packets
<1> SUFFICES ASSUME NEW i \in 0 .. n - 1, Held(Asked(r, i))
             PROVE  history[Asked(r, i) % HistorySize] \in Packets
  BY DEF Resent
<1>1. r.first + i \in Nat
  <2>1. r.first \in Nat
    BY Sizes DEF Requests, SeqNums
  <2>. QED
    BY <2>1
<1>2. Asked(r, i) \in SeqNums
  BY <1>1, Constants DEF Asked
<1>3. Asked(r, i) % HistorySize \in Slots
  BY <1>2, Constants DEF SeqNums
<1>. QED
  BY <1>3 DEF TypeOK, Held

\* The initial values have their types and the empty ring is exact.
LEMMA InitGood == Init => TypeOK /\ RingHoldsLatest
<1> SUFFICES ASSUME Init PROVE TypeOK /\ RingHoldsLatest
  OBVIOUS
<1>1. TypeOK
  <2>1. 0 \in SeqNums /\ 0 \in Nat
    BY Sizes DEF SeqNums
  <2>2. history \in [Slots -> Packets \cup {NoPacket}]
    BY DEF Init
  <2>3. <<>> \in Seq(Syncs) /\ <<>> \in Seq(Requests)
    OBVIOUS
  <2>. QED
    BY <2>1, <2>2, <2>3, Zenon DEF Init, TypeOK
<1>2. 0 % SeqSpace = 0
  <2>1. SeqSpace * 0 + 0 = 0 /\ 0 \in 0 .. SeqSpace - 1 /\ 0 \in Int
    BY Constants
  <2>. QED
    BY <2>1, Constants, RemainderIs
<1>. QED
  BY <1>1, <1>2 DEF Init, RingHoldsLatest

\* Every step keeps the types and the ring.
LEMMA StepGood ==
  ASSUME TypeOK, RingHoldsLatest, [Next]_vars
  PROVE  TypeOK' /\ RingHoldsLatest'
<1>1. CASE PrepareAudio
  <2>1. RingHoldsLatest'
    BY <1>1, SerializeKeepsRing DEF PrepareAudio
  <2>. QED
    BY <1>1, <2>1, SerializeType DEF PrepareAudio, TypeOK, setupVars, syncVars
<1>2. CASE PrepareSync
  <2>1. syncSequence \in Nat /\ syncSequence + 1 \in Nat
    BY Constants DEF TypeOK, SeqNums
  <2>2. (syncSequence + 1) % SeqSpace \in SeqNums
    BY <2>1, Constants
  <2>3. syncs' \in Seq(Syncs)
    BY <1>2 DEF PrepareSync, TypeOK, Syncs
  <2>4. UNCHANGED <<setupVars, audioVars, rtxVars>>
    BY <1>2 DEF PrepareSync
  <2>5. syncSequence' \in SeqNums /\ firstSyncSent' \in BOOLEAN
    BY <1>2, <2>2 DEF PrepareSync
  <2>6. RingHoldsLatest'
    BY <2>4 DEF RingHoldsLatest, Recent, Packet, audioVars
  <2>7. UNCHANGED <<socket, controlPort, sequence, history, prepared,
                    request, replies, rtxOk>>
    BY <2>4 DEF setupVars, audioVars, rtxVars
  <2>8. TypeOK'
    BY <2>3, <2>5, <2>7, Zenon DEF TypeOK
  <2>. QED
    BY <2>6, <2>8
<1>3. CASE ResetSyncState
  <2>1. UNCHANGED <<socket, controlPort, sequence, history, prepared, syncSequence,
                    request, replies, rtxOk>>
    BY <1>3 DEF ResetSyncState, setupVars, audioVars, rtxVars
  <2>2. RingHoldsLatest'
    BY <2>1 DEF RingHoldsLatest, Recent, Packet
  <2>3. syncs' \in Seq(Syncs) /\ firstSyncSent' \in BOOLEAN
    <3>1. <<>> \in Seq(Syncs) /\ FALSE \in BOOLEAN
      OBVIOUS
    <3>. QED
      BY <1>3, <3>1, Zenon DEF ResetSyncState
  <2>4. TypeOK'
    BY <2>1, <2>3, Zenon DEF TypeOK
  <2>. QED
    BY <2>2, <2>4
<1>4. ASSUME NEW r \in Requests, HandleRetransmit(r)
      PROVE  TypeOK' /\ RingHoldsLatest'
  <2>1. r.count \in Int
    BY Constants DEF Requests, SeqNums
  <2>2. replies' \subseteq Packets
    BY <1>4, <2>1, ResentType DEF HandleRetransmit
  <2>3. request' \in Seq(Requests) /\ rtxOk' \in BOOLEAN
    <3>1. request' = <<r>>
      BY <1>4 DEF HandleRetransmit
    <3>2. rtxOk' \in BOOLEAN
      BY <1>4, Zenon DEF HandleRetransmit
    <3>. QED
      BY <3>1, <3>2
  <2>4. UNCHANGED <<setupVars, audioVars, syncVars>>
    BY <1>4 DEF HandleRetransmit
  <2>5. RingHoldsLatest'
    BY <2>4 DEF RingHoldsLatest, Recent, Packet, audioVars
  <2>. QED
    BY <2>2, <2>3, <2>4, <2>5 DEF TypeOK, setupVars, audioVars, syncVars
<1>5. CASE UNCHANGED vars
  BY <1>5 DEF vars, TypeOK, RingHoldsLatest, Recent, Packet, setupVars, audioVars,
              syncVars, rtxVars
<1>. QED
  BY <1>1, <1>2, <1>3, <1>4, <1>5 DEF Next

\* Every variable keeps its type.
THEOREM SenderTypeCorrect == Spec => []TypeOK
<1>. QED
  BY InitGood, StepGood, PTL DEF Spec

\* The retransmission ring holds exactly the last PACKET_HISTORY_SIZE packets, each where
\* handle_retransmit looks for it, however often the sequence number has wrapped.
THEOREM RingIsExact == Spec => []RingHoldsLatest
<1>. QED
  BY InitGood, StepGood, PTL DEF Spec

-----------------------------------------------------------------------------
(* Retransmission. *)

\* A slot that answers for a sequence number holds the latest packet of that number.
LEMMA HeldIsRecent ==
  ASSUME TypeOK, RingHoldsLatest, NEW seq \in SeqNums, Held(seq)
  PROVE  LET p == history[seq % HistorySize]
         IN  p.seq = seq /\ p.number \in Nat /\ Recent(p.number) /\ p = Packet(p.number)
<1>1. seq % HistorySize \in Slots
  BY Constants DEF SeqNums
<1>2. history[seq % HistorySize] # NoPacket /\ history[seq % HistorySize].seq = seq
  BY DEF Held
<1>3. history[seq % HistorySize] \in Packets
  BY <1>1, <1>2 DEF TypeOK
<1>. QED
  BY <1>1, <1>2, <1>3 DEF RingHoldsLatest, Packets

\* Conversely a recent packet is found under its sequence number.
LEMMA RecentIsHeld ==
  ASSUME TypeOK, RingHoldsLatest, NEW n \in 0 .. prepared - 1, Recent(n)
  PROVE  /\ n % SeqSpace \in SeqNums
         /\ Held(n % SeqSpace)
         /\ history[(n % SeqSpace) % HistorySize] = Packet(n)
<1>1. n \in Nat
  BY DEF TypeOK
<1>2. n % SeqSpace \in SeqNums /\ (n % SeqSpace) % HistorySize = n % HistorySize
  BY <1>1, Constants
<1>3. history[(n % SeqSpace) % HistorySize] = Packet(n)
  BY <1>2 DEF RingHoldsLatest
<1>4. Packet(n) # NoPacket /\ Packet(n).seq = n % SeqSpace
  BY <1>1 DEF Packet, NoPacket
<1>. QED
  BY <1>2, <1>3, <1>4 DEF Held

\* A reply to a request is in the ring under a sequence number asked for.
LEMMA ResentAsked ==
  ASSUME TypeOK, RingHoldsLatest, NEW r \in Requests, NEW n \in 0 .. r.count,
         NEW p \in Resent(r, n)
  PROVE  /\ \E i \in 0 .. r.count - 1 : p.seq = Asked(r, i)
         /\ p.number \in Nat /\ Recent(p.number) /\ p = Packet(p.number)
<1>1. PICK i \in 0 .. n - 1 : Held(Asked(r, i)) /\ p = history[Asked(r, i) % HistorySize]
  BY DEF Resent
<1>2. r.first \in Nat /\ r.count \in Nat
  BY Sizes DEF Requests, SeqNums
<1>3. i \in 0 .. r.count - 1 /\ r.first + i \in Nat
  BY <1>2
<1>4. Asked(r, i) \in SeqNums
  BY <1>3, Constants DEF Asked
<1>. QED
  BY <1>1, <1>3, <1>4, HeldIsRecent

\* Every recent packet asked for is among the replies of a request handled to the end.
LEMMA AskedResent ==
  ASSUME TypeOK, RingHoldsLatest, NEW r \in Requests, NEW n \in 0 .. prepared - 1,
         Recent(n), NEW i \in 0 .. r.count - 1, n % SeqSpace = Asked(r, i)
  PROVE  Packet(n) \in Resent(r, r.count)
<1>1. Held(Asked(r, i)) /\ history[Asked(r, i) % HistorySize] = Packet(n)
  BY RecentIsHeld
<1>. QED
  BY <1>1 DEF Resent

\* The answer given last stays right until the ring changes, and then is forgotten.
LEMMA StepAnswered ==
  ASSUME TypeOK, RingHoldsLatest, RepliesAreExact, [Next]_vars
  PROVE  RepliesAreExact'
<1>1. CASE PrepareAudio
  BY <1>1 DEF PrepareAudio, RepliesAreExact, RepliesAreAsked, RepliesAreComplete
<1>2. CASE PrepareSync \/ ResetSyncState \/ UNCHANGED vars
  <2>1. UNCHANGED <<prepared, request, replies, rtxOk>>
    BY <1>2 DEF PrepareSync, ResetSyncState, vars, audioVars, rtxVars
  <2>. QED
    BY <2>1 DEF RepliesAreExact, RepliesAreAsked, RepliesAreComplete, AskedFor, Asked, Recent, Packet
<1>3. ASSUME NEW r \in Requests, HandleRetransmit(r)
      PROVE  RepliesAreExact'
  <2>1. request' = <<r>> /\ prepared' = prepared /\ request'[1] = r
    BY <1>3 DEF HandleRetransmit, audioVars
  <2>2. r.count \in Nat
    BY Sizes DEF Requests, SeqNums
  <2>3. PICK n \in 0 .. r.count : replies' = Resent(r, n) /\ (rtxOk' => n = r.count)
    BY <1>3, <2>2 DEF HandleRetransmit
  <2>4. RepliesAreAsked'
    BY <2>1, <2>3, ResentAsked DEF RepliesAreAsked, AskedFor, Asked, Recent, Packet
  <2>5. RepliesAreComplete'
    BY <2>1, <2>3, AskedResent DEF RepliesAreComplete, AskedFor, Asked, Recent, Packet
  <2>. QED
    BY <2>4, <2>5 DEF RepliesAreExact
<1>. QED
  BY <1>1, <1>2, <1>3 DEF Next

\* Nothing is answered at first.
LEMMA InitAnswered == Init => RepliesAreExact
BY DEF Init, RepliesAreExact, RepliesAreAsked, RepliesAreComplete

\* Only packets of the ring are resent, each because its own number was asked for, and a
\* request handled without an error brings every packet it asks for that is in the ring.
THEOREM AnswersAreExact == Spec => []RepliesAreExact
<1>. QED
  BY InitGood, StepGood, InitAnswered, StepAnswered, PTL DEF Spec

-----------------------------------------------------------------------------
(* Sync packets. *)

\* What the next sync packet will say follows from those built since the last reset.
SyncLink ==
  /\ firstSyncSent <=> syncs # <<>>
  /\ syncs # <<>> => syncSequence = (syncs[1].seq + Len(syncs)) % SeqSpace

\* A sync packet continues the numbering, and restarts it only as the first.
LEMMA PrepareSyncKeeps ==
  ASSUME TypeOK, SyncLink, SyncRestarts, PrepareSync
  PROVE  SyncLink' /\ SyncRestarts'
<1> DEFINE packet == [seq |-> syncSequence, restart |-> ~firstSyncSent]
           n == Len(syncs)
<1>1. /\ syncs \in Seq(Syncs) /\ n \in Nat /\ packet \in Syncs
      /\ syncSequence \in SeqNums /\ syncSequence \in Nat /\ SeqSpace \in Nat \ {0}
  BY Sizes DEF TypeOK, SeqNums, Syncs
<1>2. /\ syncs' = Append(syncs, packet) /\ firstSyncSent' = TRUE
      /\ syncSequence' = (syncSequence + 1) % SeqSpace
  BY DEF PrepareSync
<1>0. packet.seq = syncSequence /\ packet.restart = ~firstSyncSent
  OBVIOUS
<1> HIDE DEF packet
<1>3. /\ syncs' # <<>> /\ Len(syncs') = n + 1 /\ syncs'[n + 1] = packet
      /\ \A i \in 1 .. n : syncs'[i] = syncs[i]
      /\ DOMAIN syncs' = 1 .. n + 1 /\ DOMAIN syncs = 1 .. n
  BY <1>1, <1>2
<1>4. CASE n = 0
  <2>1. syncs = <<>> /\ ~firstSyncSent
    BY <1>1, <1>4 DEF SyncLink
  <2>2. syncs'[1].seq = syncSequence /\ syncs'[1].restart
    <3>1. syncs'[1] = packet
      BY <1>3, <1>4
    <3>. QED
      BY <1>0, <2>1, <3>1, Zenon
  <2>3. syncSequence % SeqSpace = syncSequence
    <3>1. SeqSpace * 0 + syncSequence = syncSequence /\ syncSequence \in 0 .. SeqSpace - 1
      BY <1>1 DEF SeqNums
    <3>. QED
      BY <1>1, <3>1, RemainderIs, 0 \in Int
  <2>4. SyncRestarts'
    BY <1>1, <1>3, <1>4, <2>2, <2>3 DEF SyncRestarts
  <2>. QED
    BY <1>1, <1>2, <1>3, <1>4, <2>2, <2>4 DEF SyncLink
<1>5. CASE n # 0
  <2>1. /\ syncs # <<>> /\ firstSyncSent /\ 1 \in 1 .. n /\ syncs[1].seq \in Nat
        /\ syncSequence = (syncs[1].seq + n) % SeqSpace
    <3>1. syncs # <<>> /\ 1 \in 1 .. n
      BY <1>1, <1>5
    <3>2. syncs[1] \in Syncs
      BY <1>1, <3>1
    <3>3. syncs[1].seq \in Nat
      BY <1>1, <3>2 DEF Syncs, SeqNums
    <3>. QED
      BY <3>1, <3>3, Zenon DEF SyncLink
  <2> DEFINE first == syncs[1].seq
  <2>2. syncs'[1].seq = first /\ first \in Nat
    BY <1>3, <2>1
  <2>6. first + n \in Nat /\ (first + n) + 1 = first + (n + 1)
    <3> HIDE DEF first
    <3>. QED
      BY <1>1, <2>2
  <2>3. syncs'[n + 1].seq = (first + n) % SeqSpace /\ ~syncs'[n + 1].restart
    <3>1. syncs'[n + 1] = packet
      BY <1>3
    <3>. QED
      BY <1>0, <2>1, <3>1, Zenon
  <2>4. syncSequence' = (first + (n + 1)) % SeqSpace
    BY <1>1, <1>2, <2>1, <2>6, Successor
  <2> HIDE DEF first
  <2>5. SyncRestarts'
    <3> SUFFICES ASSUME NEW i \in 1 .. n + 1
                 PROVE  /\ syncs'[i].restart <=> i = 1
                        /\ syncs'[i].seq = (first + i - 1) % SeqSpace
      BY <1>1, <1>3, <2>2 DEF SyncRestarts
    <3>1. CASE i = n + 1
      BY <1>1, <1>5, <2>2, <2>3, <3>1, first + (n + 1) - 1 = first + n
    <3>2. CASE i \in 1 .. n
      <4>1. syncs'[i] = syncs[i] /\ i \in DOMAIN syncs
        BY <1>3, <3>2
      <4>. QED
        BY <4>1 DEF SyncRestarts, first
    <3>. QED
      BY <1>1, <3>1, <3>2
  <2>. QED
    BY <1>2, <1>3, <2>2, <2>4, <2>5 DEF SyncLink
<1>. QED
  BY <1>4, <1>5

\* Since a flush, exactly the first sync packet starts the receiver over, and the numbers
\* have no gap, over any number of wraps.
THEOREM FlushRestartsSync == Spec => []SyncRestarts
<1>1. Init => SyncLink /\ SyncRestarts
  BY DEF Init, SyncLink, SyncRestarts
<1>2. ASSUME TypeOK, SyncLink, SyncRestarts, [Next]_vars PROVE SyncLink' /\ SyncRestarts'
  <2>1. CASE PrepareSync
    BY <2>1, <1>2, PrepareSyncKeeps
  <2>2. CASE ResetSyncState
    <3>1. syncs' = <<>> /\ firstSyncSent' = FALSE /\ DOMAIN syncs' = {}
      BY <2>2 DEF ResetSyncState
    <3>. QED
      BY <3>1 DEF SyncLink, SyncRestarts
  <2>3. CASE UNCHANGED syncVars
    BY <1>2, <2>3 DEF SyncLink, SyncRestarts, syncVars
  <2>4. PrepareSync \/ ResetSyncState \/ UNCHANGED syncVars
    BY <1>2 DEF Next, PrepareAudio, HandleRetransmit, vars
  <2>. QED
    BY <2>1, <2>2, <2>3, <2>4
<1>. QED
  BY <1>1, <1>2, InitGood, StepGood, PTL DEF Spec
=============================================================================
