---------------------------- MODULE TunnelProofs ----------------------------
(* The queue of the check tunneler, for any number of workers, any batch    *)
(* and any queue that satisfies QueueAssumption.                            *)
EXTENDS Tunnel, FiniteSetTheorems, TLAPS

(* The next value of the counter of dropPacket.                             *)
LEMMA Wraps ==
    ASSUME NEW n \in 0..(Batch - 1)
    PROVE  /\ (n + 1) % Batch \in 0..(Batch - 1)
           /\ n + 1 < Batch => (n + 1) % Batch = n + 1
           /\ ~(n + 1 < Batch) => n = Batch - 1 /\ (n + 1) % Batch = 0
<1>1. CASE n + 1 < Batch
    BY <1>1, BatchAssumption
<1>2. CASE n + 1 = Batch
    BY <1>2, BatchAssumption
<1> QED
    BY <1>1, <1>2, BatchAssumption

(* Any set of workers is finite.                                            *)
LEMMA WorkerSets ==
    ASSUME NEW S \in SUBSET Workers
    PROVE  /\ IsFiniteSet(S) /\ Cardinality(S) \in Nat /\ Cardinality(Workers) \in Nat
           /\ Cardinality(S) <= Cardinality(Workers)
           /\ S # Workers => Cardinality(S) <= Cardinality(Workers) - 1
           /\ \A w \in Workers \ S : Cardinality(S \cup {w}) = Cardinality(S) + 1
           /\ \A w \in S : Cardinality(S \ {w}) = Cardinality(S) - 1
<1>1. IsFiniteSet(Workers)
    BY BatchAssumption
<1>2. IsFiniteSet(S) /\ Cardinality(S) <= Cardinality(Workers)
      /\ (Cardinality(S) = Cardinality(Workers) => S = Workers)
    BY <1>1, FS_Subset
<1>3. Cardinality(S) \in Nat /\ Cardinality(Workers) \in Nat
    BY <1>1, <1>2, FS_CardinalityType
<1>4. S # Workers => Cardinality(S) <= Cardinality(Workers) - 1
    BY <1>2, <1>3
<1>5. \A w \in Workers \ S : Cardinality(S \cup {w}) = Cardinality(S) + 1
    BY <1>2, FS_AddElement
<1>6. \A w \in S : Cardinality(S \ {w}) = Cardinality(S) - 1
    BY <1>2, FS_RemoveElement
<1> QED
    BY <1>2, <1>3, <1>4, <1>5, <1>6

(* The sums of BoundedAfter.                                                *)
LEMMA Sums ==
    ASSUME NEW b \in Nat \ {0}, NEW n \in Int, NEW low \in Nat, NEW p \in 0..(b - 1),
           NEW v \in Nat, NEW f \in Nat, NEW w \in Nat
    PROVE  /\ low <= w - 1 =>
                0 + (b - 1) * low <= p + b * (v + f) + (b - 1) * (w - 1)
           /\ n + (b - 1) * low <= p + b * (v + f) + (b - 1) * (w - 1) =>
                /\ n + 1 + (b - 1) * low <= (p + 1) + b * (v + f) + (b - 1) * (w - 1)
                /\ p = b - 1 =>
                      n + 1 + (b - 1) * low <= 0 + b * (v + 1 + f) + (b - 1) * (w - 1)
                /\ n + (b - 1) * (low - 1) <= (p + 1) + b * (v + f) + (b - 1) * (w - 1)
                /\ p = b - 1 =>
                      n + (b - 1) * (low - 1) <= 0 + b * (v + f) + (b - 1) * (w - 1)
                /\ n + (b - 1) * low <= p + b * (v + (f + 1)) + (b - 1) * (w - 1)
                /\ n + (b - 1) * low <= p + b * (v - 1 + (f + 1)) + (b - 1) * (w - 1)
                /\ n <= (b - 1) + b * (v + f) + (b - 1) * (w - 1)
<1> DEFINE vf == b * (v + f)
           most == (b - 1) * (w - 1)
           mid == (b - 1) * low
<1>1. vf \in Nat /\ most \in Int /\ mid \in Nat
    OBVIOUS
<1>2. low <= w - 1 => mid <= most
    OBVIOUS
<1>3. /\ b * (v + 1 + f) = vf + b /\ b * (v + (f + 1)) = vf + b
      /\ v - 1 + (f + 1) = v + f
      /\ (b - 1) * (low - 1) = mid - (b - 1)
    OBVIOUS
<1> HIDE DEF vf, most, mid
<1> SUFFICES
      /\ low <= w - 1 => 0 + mid <= p + vf + most
      /\ n + mid <= p + vf + most =>
                /\ n + 1 + mid <= (p + 1) + vf + most
                /\ p = b - 1 => n + 1 + mid <= 0 + (vf + b) + most
                /\ n + (mid - (b - 1)) <= (p + 1) + vf + most
                /\ p = b - 1 => n + (mid - (b - 1)) <= 0 + vf + most
                /\ n + mid <= p + (vf + b) + most
                /\ n + mid <= p + vf + most
                /\ n <= (b - 1) + vf + most
    BY <1>3 DEF vf, most, mid
<1> QED
    BY <1>1, <1>2

(* The sums of BoundedAfter, when a packet after b is counted.              *)
LEMMA SumsWithOneMore ==
    ASSUME NEW b \in Nat \ {0}, NEW n \in Int, NEW low \in Nat, NEW p \in 0..(b - 1),
           NEW v \in Nat, NEW f \in Nat, NEW w \in Nat,
           n + (b - 1) * low <= p + b * (v + f) + (b - 1) * (w - 1)
    PROVE  /\ n + 1 + (b - 1) * low <= (p + 1) + b * (v + f) + (b - 1) * (w - 1)
           /\ p = b - 1 =>
                 n + 1 + (b - 1) * low <= 0 + b * (v + 1 + f) + (b - 1) * (w - 1)
BY Sums

-----------------------------------------------------------------------------
(* The types hold at the start.                                             *)
LEMMA TypeInit == Init => TypeOK
BY BatchAssumption DEF Init, TypeOK

(* Every step keeps the types.                                              *)
LEMMA TypeStep == TypeOK /\ [Next]_vars => TypeOK'
<1> SUFFICES ASSUME TypeOK, [Next]_vars PROVE TypeOK'
    OBVIOUS
<1> USE DEF TypeOK
<1>1. CASE UNCHANGED vars
    BY <1>1 DEF vars
<1>2. CASE Arrive
    BY <1>2, BatchAssumption DEF Arrive
<1>3. ASSUME NEW w \in Workers, Receive(w) PROVE TypeOK'
  <2>1. /\ read' = read + 1 /\ held' = held /\ read < held
        /\ packetID' = [packetID EXCEPT ![w] = read + 1]
    BY <1>3 DEF Receive
  <2>2. \A v \in Workers : packetID[v] \in 0..read
    OBVIOUS
  <2>3. packetID' \in [Workers -> 0..read']
    BY <2>1, <2>2
  <2>4. \A u, v \in Workers : packetID'[u] = packetID'[v] /\ packetID'[u] > 0 => u = v
    BY <2>1, <2>2
  <2> QED
    BY <1>3, <2>1, <2>3, <2>4 DEF Receive
<1>4. ASSUME NEW w \in Workers, Count(w) PROVE TypeOK'
    BY <1>4, Wraps DEF Count
<1>5. ASSUME NEW w \in Workers, Verdict(w) PROVE TypeOK'
  <2> DEFINE id == packetID[w]
  <2>1. id \in 0..read /\ \A v \in Workers : packetID[v] \in 0..read
    OBVIOUS
  <2>2. /\ held' = held - id /\ read' = read - id
        /\ packetID' = [v \in Workers |-> IF packetID[v] > id THEN packetID[v] - id ELSE 0]
    BY <1>5 DEF Verdict, DropUpTo
  <2> HIDE DEF id
  <2>3. held' \in 0..MaxQueueLen /\ read' \in 0..held'
    BY <2>1, <2>2, BatchAssumption
  <2>4. \A v \in Workers : packetID'[v] \in 0..read'
    BY <2>1, <2>2
  <2>5. \A u, v \in Workers : packetID'[u] = packetID'[v] /\ packetID'[u] > 0 => u = v
    BY <2>1, <2>2
  <2> QED
    BY <1>5, <2>2, <2>3, <2>4, <2>5 DEF Verdict
<1>6. ASSUME NEW w \in Workers, VerdictFails(w) PROVE TypeOK'
    BY <1>6, BatchAssumption DEF VerdictFails
<1>7. ASSUME NEW w \in Workers, Encapsulate(w) PROVE TypeOK'
    BY <1>7 DEF Encapsulate
<1> QED
    BY <1>1, <1>2, <1>3, <1>4, <1>5, <1>6, <1>7 DEF Next

(* nfqueueHandler: the counters stay in their ranges and a worker's packet  *)
(* is one that was read and that no other worker has.                       *)
THEOREM TunnelTypeCorrect == Spec => []TypeOK
BY TypeInit, TypeStep, PTL DEF Spec

-----------------------------------------------------------------------------
(* The places lie among the packets that were read.                         *)
LEMMA PlaceType ==
    ASSUME TypeOK, NEW b \in Places
    PROVE  b \in 0..read
BY DEF TypeOK, Places

(* A step that leaves what is after b, up to the worker w.                  *)
LEMMA SameAfter ==
    ASSUME NEW b, BoundedAfter(b), NEW a,
           Uncounted(a)' = Uncounted(b), VerdictsAfter(a)' = VerdictsAfter(b),
           CountedAfter(a)' = CountedAfter(b),
           packetInQueue' = packetInQueue, failures' = failures
    PROVE  BoundedAfter(a)'
BY DEF BoundedAfter

(* A worker receives a packet: the bound holds at every place.              *)
LEMMA ReceiveKeeps ==
    ASSUME QueueInv, TypeOK', NEW w \in Workers, Receive(w), NEW b \in Places'
    PROVE  BoundedAfter(b)'
<1> USE DEF Uncounted, UncountedAfter, VerdictsAfter
<1>0. /\ TypeOK /\ packetInQueue \in 0..(Batch - 1) /\ failures \in Nat /\ read \in Nat
    BY DEF QueueInv, TypeOK
<1>1. /\ pc[w] = "idle" /\ pc'[w] = "count" /\ packetID'[w] = read + 1 /\ read' = read + 1
      /\ \A v \in Workers : v # w => pc'[v] = pc[v] /\ packetID'[v] = packetID[v]
      /\ \A v \in Workers : packetID[v] \in 0..read
      /\ packetInQueue' = packetInQueue /\ failures' = failures
    BY <1>0 DEF Receive, TypeOK
<1>2. CASE b = read + 1
  <2>1. UncountedAfter(b)' = {}
    BY <1>0, <1>1, <1>2
  <2>2. CountedAfter(b)' = 0
    <3>1. Cardinality(UncountedAfter(b)') = 0
      BY <2>1, FS_EmptySet
    <3>2. read' - b = 0
      BY <1>0, <1>1, <1>2
    <3> QED
      BY <1>0, <1>1, <1>2, <3>1, <3>2 DEF CountedAfter
  <2>3. Uncounted(b)' \in SUBSET Workers /\ VerdictsAfter(b)' \in SUBSET Workers
    OBVIOUS
  <2> DEFINE low == Cardinality(Uncounted(b)')
             v == Cardinality(VerdictsAfter(b)')
  <2>4. /\ low \in Nat /\ v \in Nat /\ Cardinality(Workers) \in Nat
        /\ Uncounted(b)' # Workers => low <= Cardinality(Workers) - 1
    BY <2>3, WorkerSets
  <2> HIDE DEF low, v
  <2>5. Uncounted(b)' # Workers =>
           0 + (Batch - 1) * low
             <= packetInQueue + Batch * (v + failures) + (Batch - 1) * (Cardinality(Workers) - 1)
    BY <1>0, <2>4, Sums, BatchAssumption
  <2> QED
    BY <1>1, <2>2, <2>5 DEF BoundedAfter, low, v
<1>3. CASE b # read + 1
  <2>1. b \in Places
    BY <1>1, <1>3 DEF Places
  <2>2. b \in 0..read
    BY <1>0, <2>1, PlaceType
  <2>3. Uncounted(b)' = Uncounted(b) /\ VerdictsAfter(b)' = VerdictsAfter(b)
    BY <1>0, <1>1, <2>2
  <2>4. UncountedAfter(b)' = UncountedAfter(b) \cup {w} /\ w \notin UncountedAfter(b)
    BY <1>0, <1>1, <2>2
  <2>5. Cardinality(UncountedAfter(b)') = Cardinality(UncountedAfter(b)) + 1
        /\ Cardinality(UncountedAfter(b)) \in Nat
    BY <2>4, WorkerSets
  <2>6. CountedAfter(b)' = CountedAfter(b)
    BY <1>0, <1>1, <2>2, <2>5 DEF CountedAfter
  <2> QED
    BY <1>1, <2>1, <2>3, <2>6, SameAfter DEF QueueInv
<1> QED
    BY <1>2, <1>3

(* A worker counts its packet.                                              *)
LEMMA CountKeeps ==
    ASSUME QueueInv, NEW w \in Workers, Count(w), NEW b \in Places'
    PROVE  BoundedAfter(b)'
<1> DEFINE last1 == ~(packetInQueue + 1 < Batch)
           n == CountedAfter(b)
           low == Cardinality(Uncounted(b))
           v == Cardinality(VerdictsAfter(b))
           W == Cardinality(Workers)
<1>0. /\ TypeOK /\ packetInQueue \in 0..(Batch - 1) /\ failures \in Nat /\ read \in Nat
    BY DEF QueueInv, TypeOK
<1>1. /\ pc[w] = "count" /\ pc'[w] = IF last1 THEN "verdict" ELSE "encapsulate"
      /\ \A u \in Workers : u # w => pc'[u] = pc[u]
      /\ packetID' = packetID /\ failures' = failures /\ read' = read
      /\ packetInQueue' = (packetInQueue + 1) % Batch
      /\ \A u \in Workers : packetID[u] \in 0..read
    BY <1>0 DEF Count, TypeOK
<1>2. /\ packetInQueue' \in 0..(Batch - 1)
      /\ ~last1 => packetInQueue' = packetInQueue + 1
      /\ last1 => packetInQueue = Batch - 1 /\ packetInQueue' = 0
    BY <1>0, <1>1, Wraps
<1> HIDE DEF last1
<1>3. b \in Places
    BY <1>1 DEF Places
<1>4. b \in 0..read /\ BoundedAfter(b)
    BY <1>0, <1>3, PlaceType DEF QueueInv
<1>5. /\ Uncounted(b) \in SUBSET Workers /\ VerdictsAfter(b) \in SUBSET Workers
      /\ UncountedAfter(b) \in SUBSET Workers
    BY DEF Uncounted, VerdictsAfter, UncountedAfter
<1>6. /\ low \in Nat /\ v \in Nat /\ W \in Nat /\ n \in Int
      /\ Cardinality(UncountedAfter(b)) \in Nat
    BY <1>0, <1>4, <1>5, WorkerSets DEF CountedAfter
<1>7. CASE packetID[w] <= b
  <2>1. /\ Uncounted(b)' = Uncounted(b) \ {w} /\ w \in Uncounted(b)
        /\ UncountedAfter(b)' = UncountedAfter(b) /\ VerdictsAfter(b)' = VerdictsAfter(b)
    BY <1>1, <1>4, <1>7 DEF Uncounted, VerdictsAfter, UncountedAfter
  <2>2. /\ Cardinality(Uncounted(b)') = low - 1 /\ CountedAfter(b)' = n
        /\ Uncounted(b)' # Workers /\ low <= W /\ low - 1 \in Nat
    <3>1. Cardinality(Uncounted(b)') = low - 1 /\ low <= W
      BY <1>5, <2>1, WorkerSets
    <3>2. Uncounted(b)' \in SUBSET Workers
      BY <1>5, <2>1
    <3>3. low - 1 \in Nat
      BY <3>1, <3>2, WorkerSets
    <3> QED
      BY <1>1, <2>1, <3>1, <3>3 DEF CountedAfter
  <2>3. CASE Uncounted(b) = Workers
    <3>1. n = 0
      BY <1>4, <2>3 DEF BoundedAfter
    <3>2. 0 + (Batch - 1) * (low - 1)
             <= packetInQueue' + Batch * (v + failures) + (Batch - 1) * (W - 1)
      BY <1>0, <1>2, <1>6, <2>2, Sums, BatchAssumption
    <3> QED
      BY <1>1, <2>1, <2>2, <3>1, <3>2 DEF BoundedAfter
  <2>4. CASE Uncounted(b) # Workers
    <3>1. n + (Batch - 1) * low
             <= packetInQueue + Batch * (v + failures) + (Batch - 1) * (W - 1)
      BY <1>4, <2>4 DEF BoundedAfter
    <3> HIDE DEF n, low, v, W
    <3>2. n + (Batch - 1) * (low - 1)
             <= packetInQueue' + Batch * (v + failures) + (Batch - 1) * (W - 1)
      BY <1>0, <1>2, <1>6, <3>1, Sums, BatchAssumption, ZenonT(30)
    <3> QED
      BY <1>1, <2>1, <2>2, <3>2 DEF BoundedAfter, n, low, v, W
  <2> QED
    BY <2>3, <2>4
<1>8. CASE packetID[w] > b
  <2>1. /\ Uncounted(b)' = Uncounted(b) /\ w \notin Uncounted(b)
        /\ UncountedAfter(b)' = UncountedAfter(b) \ {w} /\ w \in UncountedAfter(b)
        /\ w \notin VerdictsAfter(b)
        /\ VerdictsAfter(b)' = IF last1 THEN VerdictsAfter(b) \cup {w} ELSE VerdictsAfter(b)
    BY <1>1, <1>4, <1>8 DEF Uncounted, VerdictsAfter, UncountedAfter
  <2>2. /\ Cardinality(UncountedAfter(b)') = Cardinality(UncountedAfter(b)) - 1
        /\ Cardinality(VerdictsAfter(b)') = IF last1 THEN v + 1 ELSE v
    BY <1>5, <2>1, WorkerSets
  <2>3. CountedAfter(b)' = n + 1
    BY <1>0, <1>1, <1>4, <1>6, <2>2 DEF CountedAfter
  <2>4. n + (Batch - 1) * low
           <= packetInQueue + Batch * (v + failures) + (Batch - 1) * (W - 1)
    BY <1>4, <2>1 DEF BoundedAfter
  <2> HIDE DEF n, low, v, W
  <2>5. /\ ~last1 => n + 1 + (Batch - 1) * low
             <= packetInQueue' + Batch * (v + failures) + (Batch - 1) * (W - 1)
        /\ last1 => n + 1 + (Batch - 1) * low
             <= packetInQueue' + Batch * (v + 1 + failures) + (Batch - 1) * (W - 1)
    <3>1. Batch \in Nat \ {0}
      BY BatchAssumption
    <3>2. /\ n + 1 + (Batch - 1) * low
               <= (packetInQueue + 1) + Batch * (v + failures) + (Batch - 1) * (W - 1)
          /\ packetInQueue = Batch - 1 =>
               n + 1 + (Batch - 1) * low
                 <= 0 + Batch * (v + 1 + failures) + (Batch - 1) * (W - 1)
      BY <1>0, <1>6, <2>4, <3>1, SumsWithOneMore
    <3>3. CASE last1
      BY <1>2, <3>2, <3>3
    <3>4. CASE ~last1
      BY <1>2, <3>2, <3>4
    <3> QED
      BY <3>3, <3>4
  <2> QED
    BY <1>1, <2>1, <2>2, <2>3, <2>5 DEF BoundedAfter, n, low, v, W
<1> QED
    BY <1>0, <1>1, <1>4, <1>7, <1>8

(* A verdict on the packet at a place makes this place the place 0.         *)
LEMMA VerdictKeeps ==
    ASSUME QueueInv, NEW w \in Workers, Verdict(w), NEW b \in Places'
    PROVE  BoundedAfter(b)'
<1> DEFINE id == packetID[w]
           a == b + id
<1>0. TypeOK /\ read \in Nat
    BY DEF QueueInv, TypeOK
<1>1. /\ pc[w] = "verdict" /\ pc'[w] = "encapsulate"
      /\ \A v \in Workers : v # w => pc'[v] = pc[v]
      /\ \A v \in Workers : packetID[v] \in 0..read
      /\ \A v \in Workers : packetID'[v] = IF packetID[v] > id THEN packetID[v] - id ELSE 0
      /\ read' = read - id
      /\ packetInQueue' = packetInQueue /\ failures' = failures
    BY <1>0 DEF Verdict, DropUpTo, TypeOK
<1>2. id \in 0..read /\ id \in Places
    BY <1>1 DEF Places
<1> HIDE DEF id
<1>3. a \in Places /\ b \in Nat
  <2>1. CASE b = 0
    BY <1>2, <2>1
  <2>2. CASE b # 0
    <3>1. PICK v \in Workers : pc'[v] \in {"count", "verdict"} /\ b = packetID'[v]
      BY <2>2 DEF Places
    <3>2. v # w /\ packetID[v] > id /\ b = packetID[v] - id /\ packetID[v] \in Nat
      BY <1>1, <2>2, <3>1
    <3>3. packetID[v] \in Places
      BY <1>1, <3>1, <3>2 DEF Places
    <3> QED
      BY <1>2, <3>2, <3>3
  <2> QED
    BY <2>1, <2>2
<1>4. \A v \in Workers : /\ packetID'[v] <= b <=> packetID[v] <= a
                         /\ packetID'[v] > b <=> packetID[v] > a
    BY <1>1, <1>2, <1>3
<1>5. ~(id > a)
    BY <1>2, <1>3
<1>6. Uncounted(b)' = Uncounted(a)
    BY <1>1, <1>4 DEF Uncounted
<1>7. VerdictsAfter(b)' = VerdictsAfter(a)
    BY <1>1, <1>4, <1>5 DEF VerdictsAfter, id
<1>8. UncountedAfter(b)' = UncountedAfter(a)
    BY <1>1, <1>4 DEF UncountedAfter
<1>9. Cardinality(UncountedAfter(a)) \in Nat
    BY WorkerSets DEF UncountedAfter
<1>10. CountedAfter(b)' = CountedAfter(a)
    BY <1>0, <1>1, <1>2, <1>3, <1>8, <1>9 DEF CountedAfter
<1> QED
    BY <1>1, <1>3, <1>6, <1>7, <1>10, SameAfter DEF QueueInv

(* A verdict fails for good.                                                *)
LEMMA VerdictFailsKeeps ==
    ASSUME QueueInv, NEW w \in Workers, VerdictFails(w), NEW b \in Places'
    PROVE  BoundedAfter(b)'
<1> DEFINE n == CountedAfter(b)
           low == Cardinality(Uncounted(b))
           v == Cardinality(VerdictsAfter(b))
           W == Cardinality(Workers)
<1>0. /\ TypeOK /\ packetInQueue \in 0..(Batch - 1) /\ failures \in Nat /\ read \in Nat
    BY DEF QueueInv, TypeOK
<1>1. /\ pc[w] = "verdict" /\ pc'[w] = "encapsulate"
      /\ \A u \in Workers : u # w => pc'[u] = pc[u]
      /\ packetID' = packetID /\ read' = read /\ packetInQueue' = packetInQueue
      /\ failures' = failures + 1
      /\ \A u \in Workers : packetID[u] \in 0..read
    BY <1>0 DEF VerdictFails, TypeOK
<1>2. b \in Places
    BY <1>1 DEF Places
<1>3. b \in 0..read /\ BoundedAfter(b)
    BY <1>0, <1>2, PlaceType DEF QueueInv
<1>4. /\ Uncounted(b)' = Uncounted(b) /\ UncountedAfter(b)' = UncountedAfter(b)
      /\ w \notin Uncounted(b)
    BY <1>1 DEF Uncounted, UncountedAfter
<1>5. /\ Uncounted(b) \in SUBSET Workers /\ VerdictsAfter(b) \in SUBSET Workers
      /\ UncountedAfter(b) \in SUBSET Workers
    BY DEF Uncounted, VerdictsAfter, UncountedAfter
<1>6. /\ low \in Nat /\ v \in Nat /\ W \in Nat /\ n \in Int /\ CountedAfter(b)' = n
    BY <1>0, <1>1, <1>3, <1>4, <1>5, WorkerSets DEF CountedAfter
<1>7. n + (Batch - 1) * low
        <= packetInQueue + Batch * (v + failures) + (Batch - 1) * (W - 1)
    BY <1>3, <1>4 DEF BoundedAfter
<1>8. Cardinality(VerdictsAfter(b)') \in {v, v - 1}
  <2>1. VerdictsAfter(b)' = VerdictsAfter(b) \ {w}
    BY <1>1 DEF VerdictsAfter
  <2> QED
    BY <1>5, <2>1, WorkerSets
<1> HIDE DEF n, low, v, W
<1>9. /\ n + (Batch - 1) * low
           <= packetInQueue + Batch * (v + (failures + 1)) + (Batch - 1) * (W - 1)
      /\ n + (Batch - 1) * low
           <= packetInQueue + Batch * (v - 1 + (failures + 1)) + (Batch - 1) * (W - 1)
    BY <1>0, <1>6, <1>7, Sums, BatchAssumption
<1> QED
    BY <1>1, <1>4, <1>6, <1>8, <1>9 DEF BoundedAfter, low, W

(* The other steps move no packet and no count.                             *)
LEMMA OthersKeep ==
    ASSUME QueueInv, NEW b \in Places',
           UNCHANGED vars \/ Arrive \/ \E w \in Workers : Encapsulate(w)
    PROVE  BoundedAfter(b)'
<1>0. TypeOK
    BY DEF QueueInv
<1>1. /\ \A v \in Workers : /\ pc'[v] \in {"count", "verdict"} => packetID'[v] = packetID[v]
                            /\ pc'[v] = "count" <=> pc[v] = "count"
                            /\ pc'[v] = "verdict" <=> pc[v] = "verdict"
      /\ read' = read /\ packetInQueue' = packetInQueue /\ failures' = failures
    BY <1>0 DEF vars, Arrive, Encapsulate, TypeOK
<1>2. b \in Places
    BY <1>1 DEF Places
<1>3. /\ Uncounted(b)' = Uncounted(b) /\ UncountedAfter(b)' = UncountedAfter(b)
      /\ VerdictsAfter(b)' = VerdictsAfter(b)
    BY <1>1 DEF Uncounted, UncountedAfter, VerdictsAfter
<1>4. CountedAfter(b)' = CountedAfter(b)
    BY <1>1, <1>3 DEF CountedAfter
<1> QED
    BY <1>1, <1>2, <1>3, <1>4, SameAfter DEF QueueInv

(* QueueInv holds at the start.                                             *)
LEMMA QueueInit == Init => QueueInv
<1> SUFFICES ASSUME Init PROVE QueueInv
    OBVIOUS
<1>1. TypeOK /\ Places = {0} /\ read = 0 /\ packetInQueue = 0 /\ failures = 0
    BY TypeInit DEF Init, Places
<1>2. UncountedAfter(0) = {} /\ VerdictsAfter(0) = {} /\ Uncounted(0) = {}
    BY DEF Init, UncountedAfter, VerdictsAfter, Uncounted
<1>3. CountedAfter(0) = 0
    BY <1>1, <1>2, FS_EmptySet DEF CountedAfter
<1>4. Uncounted(0) # Workers =>
        0 + (Batch - 1) * 0 <= 0 + Batch * (0 + 0) + (Batch - 1) * (Cardinality(Workers) - 1)
  <2>1. Cardinality(Workers) \in Nat /\ (Uncounted(0) # Workers => 0 <= Cardinality(Workers) - 1)
    BY <1>2, WorkerSets, FS_EmptySet
  <2> QED
    BY <2>1, Sums, BatchAssumption
<1> QED
    BY <1>1, <1>2, <1>3, <1>4, FS_EmptySet DEF QueueInv, BoundedAfter

(* Every step keeps QueueInv.                                               *)
LEMMA QueueStep == QueueInv /\ [Next]_vars => QueueInv'
<1> SUFFICES ASSUME QueueInv, [Next]_vars PROVE QueueInv'
    OBVIOUS
<1>1. TypeOK'
    BY TypeStep DEF QueueInv
<1>2. ASSUME NEW b \in Places' PROVE BoundedAfter(b)'
    BY <1>1, <1>2, ReceiveKeeps, CountKeeps, VerdictKeeps, VerdictFailsKeeps, OthersKeep
       DEF Next
<1> QED
    BY <1>1, <1>2 DEF QueueInv

(* dropPacket leaves room in the queue, however its workers overtake each   *)
(* other between reading, counting and the verdict: when all packets are    *)
(* handled the queue is not full, if it is longer than (Batch - 1) packets  *)
(* for each worker and Batch for each failed verdict.                       *)
THEOREM RoomWhenIdleTheorem == Spec => []RoomWhenIdle
<1>1. QueueInv => RoomWhenIdle
  <2> SUFFICES ASSUME QueueInv, read = held, \A w \in Workers : pc[w] = "idle"
               PROVE  held < MaxQueueLen
    BY DEF RoomWhenIdle
  <2> DEFINE W == Cardinality(Workers)
             B == Batch
  <2>0. /\ BoundedAfter(0) /\ read \in Nat /\ packetInQueue \in 0..(B - 1)
        /\ failures \in 0..MaxFailures /\ B \in Nat \ {0} /\ MaxFailures \in Nat
    BY BatchAssumption DEF QueueInv, Places, TypeOK
  <2>1. UncountedAfter(0) = {} /\ VerdictsAfter(0) = {} /\ Uncounted(0) = {}
    BY DEF UncountedAfter, VerdictsAfter, Uncounted
  <2>2. CountedAfter(0) = read /\ W \in Nat
    BY <2>0, <2>1, FS_EmptySet, WorkerSets DEF CountedAfter
  <2>3. CASE Workers = {}
    <3>1. read = 0
      BY <2>0, <2>1, <2>2, <2>3 DEF BoundedAfter
    <3>2. W * (B - 1) \in Nat /\ MaxFailures * B \in Nat
      BY <2>0, <2>2
    <3> QED
      BY <3>1, <3>2, QueueAssumption, BatchAssumption
  <2>4. CASE Workers # {}
    <3>1. read + (B - 1) * 0 <= packetInQueue + B * (0 + failures) + (B - 1) * (W - 1)
      BY <2>0, <2>1, <2>2, <2>4, FS_EmptySet DEF BoundedAfter
    <3> HIDE DEF W, B
    <3>2. (B - 1) * (W - 1) = W * (B - 1) - (B - 1) /\ W * (B - 1) \in Nat
      BY <2>0, <2>2
    <3>3. B * (0 + failures) <= MaxFailures * B /\ MaxFailures * B \in Nat
          /\ B * (0 + failures) \in Nat
      BY <2>0
    <3>4. (B - 1) * 0 = 0
      BY <2>0
    <3>5. MaxQueueLen > W * (B - 1) + MaxFailures * B /\ MaxQueueLen \in Nat
      BY QueueAssumption, BatchAssumption DEF W, B
    <3> DEFINE x == W * (B - 1)
               y == B * (0 + failures)
               z == MaxFailures * B
    <3>6. read <= packetInQueue + y + (x - (B - 1))
      BY <3>1, <3>2, <3>4, <2>0
    <3>7. x \in Nat /\ y \in Nat /\ z \in Nat /\ y <= z /\ MaxQueueLen > x + z
      BY <3>2, <3>3, <3>5
    <3> HIDE DEF x, y, z
    <3> QED
      BY <2>0, <3>5, <3>6, <3>7
  <2> QED
    BY <2>3, <2>4
<1> QED
    BY <1>1, QueueInit, QueueStep, PTL DEF Spec
=============================================================================
