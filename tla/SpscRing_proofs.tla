--------------------------- MODULE SpscRing_proofs ---------------------------
(***************************************************************************)
(* Proofs about the shared-memory ring, for every capacity, every index    *)
(* width that is a multiple of it, and every set of events.                *)
(***************************************************************************)
EXTENDS SpscRing, SequenceTheorems, TLAPS

-----------------------------------------------------------------------------
(* Facts about the index arithmetic.                                       *)

\* The wrapping increment stays in range and moves the distance by one.
LEMMA NextIndexType ==
    ASSUME NEW i \in Index
    PROVE  NextIndex(i) \in Index
BY RingAssumption DEF Index, IndexModulus, NextIndex

LEMMA ModulusPositive == IndexModulus \in Nat /\ IndexModulus >= 2 * Capacity
<1>1. Capacity * Laps \in Nat
  BY RingAssumption
<1>2. Capacity * (Laps - 2) >= 0
  BY RingAssumption
<1>3. Capacity * (Laps - 2) = Capacity * Laps - 2 * Capacity
  BY RingAssumption
<1> QED BY <1>1, <1>2, <1>3, RingAssumption DEF IndexModulus

LEMMA DistanceAfterWrite ==
    ASSUME NEW r \in Index, NEW w \in Index, Distance(r, w) < Capacity
    PROVE  Distance(r, NextIndex(w)) = Distance(r, w) + 1
BY ModulusPositive, RingAssumption DEF Index, NextIndex, Distance

LEMMA DistanceAfterRead ==
    ASSUME NEW r \in Index, NEW w \in Index, r # w
    PROVE  /\ Distance(NextIndex(r), w) = Distance(r, w) - 1
           /\ Distance(r, w) > 0
BY ModulusPositive, RingAssumption DEF Index, NextIndex, Distance

\* An index is a lap and a slot.
LEMMA LapAndSlot ==
    ASSUME NEW i \in Index
    PROVE  \E q \in Nat : /\ i = Capacity * q + SlotOf(i)
                          /\ q < Laps
                          /\ SlotOf(i) \in Slot
<1>1. /\ i % Capacity \in 0 .. Capacity - 1
      /\ i = Capacity * (i \div Capacity) + (i % Capacity)
      /\ i \div Capacity \in Nat
  BY RingAssumption, ModulusPositive DEF Index
<1>2. i \div Capacity < Laps
  <2> DEFINE q == i \div Capacity
  <2>1. SUFFICES ASSUME q >= Laps PROVE FALSE
    BY <1>1, RingAssumption
  <2>2. Capacity * (q - Laps) >= 0
    BY <1>1, <2>1, RingAssumption
  <2>3. Capacity * (q - Laps) = Capacity * q - Capacity * Laps
    BY <1>1, RingAssumption
  <2> QED BY <1>1, <2>2, <2>3, RingAssumption, ModulusPositive DEF Index, IndexModulus
<1> QED BY <1>1, <1>2 DEF SlotOf, Slot

\* Two indices less than a lap apart, and not equal, never share a slot.
LEMMA SlotsDiffer ==
    ASSUME NEW r \in Index, NEW w \in Index,
           Distance(r, w) > 0, Distance(r, w) < Capacity
    PROVE  SlotOf(w) # SlotOf(r)
<1> SUFFICES ASSUME SlotOf(w) = SlotOf(r) PROVE FALSE
  OBVIOUS
<1>1. PICK qr \in Nat : r = Capacity * qr + SlotOf(r) /\ qr < Laps /\ SlotOf(r) \in Slot
  BY LapAndSlot
<1>2. PICK qw \in Nat : w = Capacity * qw + SlotOf(w) /\ qw < Laps /\ SlotOf(w) \in Slot
  BY LapAndSlot
<1>3. w - r = Capacity * (qw - qr)
  <2>1. Capacity * (qw - qr) = Capacity * qw - Capacity * qr
    BY RingAssumption
  <2> QED BY <1>1, <1>2, <2>1, RingAssumption DEF Slot
<1>4. CASE qw > qr
  <2>1. Capacity * (qw - qr - 1) >= 0
    BY <1>4, RingAssumption
  <2>2. Capacity * (qw - qr - 1) = Capacity * (qw - qr) - Capacity
    BY RingAssumption
  <2> QED BY <1>3, <2>1, <2>2, RingAssumption, ModulusPositive DEF Distance, Index
<1>5. CASE qw = qr
  BY <1>3, <1>5, RingAssumption, ModulusPositive DEF Distance, Index
<1>6. CASE qw < qr
  <2>1. Capacity * (Laps + qw - qr - 1) >= 0
    BY <1>1, <1>6, RingAssumption
  <2>2. Capacity * (Laps + qw - qr - 1) = Capacity * Laps + Capacity * (qw - qr) - Capacity
    BY RingAssumption
  <2>3. Capacity * (qr - qw) > 0 /\ Capacity * (qr - qw) = 0 - Capacity * (qw - qr)
    BY <1>6, RingAssumption
  <2> QED BY <1>3, <2>1, <2>2, <2>3, RingAssumption, ModulusPositive DEF Distance, Index, IndexModulus
<1> QED BY <1>4, <1>5, <1>6

\* Stepping n indices ahead of r, short of w, leaves the rest of the distance.
LEMMA AheadDistance ==
    ASSUME NEW r \in Index, NEW w \in Index, NEW n \in Nat, n < Distance(r, w)
    PROVE  /\ Ahead(r, n) \in Index
           /\ Distance(Ahead(r, n), w) = Distance(r, w) - n
BY ModulusPositive, RingAssumption DEF Index, Ahead, Distance

\* The index one past the waiting events is the write index.
LEMMA AheadEnd ==
    ASSUME NEW r \in Index, NEW w \in Index
    PROVE  Ahead(r, Distance(r, w)) = w
BY ModulusPositive, RingAssumption DEF Index, Ahead, Distance

\* The waiting events of the next read index are those after the first.
LEMMA AheadNext ==
    ASSUME NEW r \in Index, NEW n \in Nat, n + 1 < IndexModulus
    PROVE  Ahead(NextIndex(r), n) = Ahead(r, n + 1)
BY ModulusPositive, RingAssumption DEF Index, Ahead, NextIndex

LEMMA DistanceType ==
    ASSUME NEW r \in Index, NEW w \in Index
    PROVE  /\ Distance(r, w) \in Nat
           /\ Distance(r, w) < IndexModulus
           /\ Distance(r, w) = 0 <=> r = w
BY ModulusPositive, RingAssumption DEF Index, Distance

LEMMA SlotType ==
    ASSUME NEW i \in Index
    PROVE  SlotOf(i) \in Slot
BY LapAndSlot

\* Append and Tail as functions of the position.
LEMMA AppendIsFunction ==
    ASSUME NEW S, NEW q \in Seq(S), NEW e \in S
    PROVE  Append(q, e) = [k \in 1 .. Len(q) + 1 |-> IF k = Len(q) + 1 THEN e ELSE q[k]]
<1> DEFINE f == [k \in 1 .. Len(q) + 1 |-> IF k = Len(q) + 1 THEN e ELSE q[k]]
<1>1. f \in Seq(S) /\ Len(f) = Len(q) + 1
  OBVIOUS
<1>2. \A k \in 1 .. Len(f) : Append(q, e)[k] = f[k]
  BY <1>1, AppendProperties
<1> QED
  <2> HIDE DEF f
  <2> SUFFICES Append(q, e) = f
    BY DEF f
  <2> QED BY <1>1, <1>2, AppendProperties, SeqEqual

LEMMA TailIsFunction ==
    ASSUME NEW S, NEW q \in Seq(S), q # <<>>
    PROVE  Tail(q) = [k \in 1 .. Len(q) - 1 |-> q[k + 1]]
<1> DEFINE f == [k \in 1 .. Len(q) - 1 |-> q[k + 1]]
<1>1. f \in Seq(S) /\ Len(f) = Len(q) - 1
  OBVIOUS
<1>2. \A k \in 1 .. Len(f) : Tail(q)[k] = f[k]
  BY <1>1, HeadTailProperties
<1> QED
  <2> HIDE DEF f
  <2> SUFFICES Tail(q) = f
    BY DEF f
  <2> QED BY <1>1, <1>2, HeadTailProperties, SeqEqual

-----------------------------------------------------------------------------
(* The inductive invariant: what each process has secured by the point its *)
(* program counter shows.                                                  *)

ProducerHolds ==
    /\ prodPc # "idle" => Pending < Capacity /\ prodEvent \in Events
    /\ prodPc = "stored" => slots[SlotOf(writeIndex)] = prodEvent

ConsumerHolds ==
    /\ consPc # "idle" => Pending > 0
    /\ consPc = "copied" => outEvent = slots[SlotOf(readIndex)]

RingInv == TypeOK /\ Pending <= Capacity /\ ProducerHolds /\ ConsumerHolds

LEMMA InitInv == Init => RingInv
<1> SUFFICES ASSUME Init PROVE RingInv
  OBVIOUS
<1>1. 0 \in Index /\ Distance(0, 0) = 0
  BY ModulusPositive, RingAssumption DEF Index, Distance
<1> QED BY <1>1, RingAssumption DEF Init, RingInv, TypeOK, Pending, ProducerHolds, ConsumerHolds

LEMMA StepInv == RingInv /\ [Next]_vars => RingInv'
<1> SUFFICES ASSUME RingInv, [Next]_vars PROVE RingInv'
  OBVIOUS
<1> USE DEF RingInv, TypeOK, Pending, ProducerHolds, ConsumerHolds
<1>0. /\ Pending \in Nat
      /\ SlotOf(writeIndex) \in Slot
      /\ SlotOf(readIndex) \in Slot
  BY DistanceType, SlotType
<1>1. ASSUME NEW e \in Events, ProducerReserve(e) PROVE RingInv'
  BY <1>1 DEF ProducerReserve, consVars
<1>2. CASE ProducerStore
  <2>1. (TypeOK /\ Pending <= Capacity)'
    BY <1>0, <1>2 DEF ProducerStore, consVars
  <2>2. ProducerHolds'
    BY <1>0, <1>2 DEF ProducerStore, consVars
  <2>3. ConsumerHolds'
    <3>1. consPc # "idle" => SlotOf(writeIndex) # SlotOf(readIndex)
      BY <1>2, SlotsDiffer DEF ProducerStore
    <3> QED BY <1>0, <1>2, <3>1 DEF ProducerStore, consVars
  <2> QED BY <2>1, <2>2, <2>3
<1>3. CASE ProducerPublish
  <2>1. Pending' = Pending + 1 /\ writeIndex' \in Index
    BY <1>3, DistanceAfterWrite, NextIndexType DEF ProducerPublish, consVars
  <2> QED BY <1>0, <1>3, <2>1, RingAssumption DEF ProducerPublish, consVars
<1>4. CASE ReadLoad
  BY <1>0, <1>4, DistanceType DEF ReadLoad, prodVars
<1>5. CASE ReadCopy
  BY <1>0, <1>5 DEF ReadCopy, prodVars
<1>6. CASE ReadAdvance
  <2>1. readIndex # writeIndex
    BY <1>6, DistanceType DEF ReadAdvance
  <2>2. Pending' = Pending - 1 /\ readIndex' \in Index
    BY <1>6, <2>1, DistanceAfterRead, NextIndexType DEF ReadAdvance, prodVars
  <2> QED BY <1>0, <1>6, <2>2, RingAssumption DEF ReadAdvance, prodVars
<1>7. CASE UNCHANGED vars
  BY <1>7 DEF vars, prodVars, consVars
<1> QED BY <1>1, <1>2, <1>3, <1>4, <1>5, <1>6, <1>7 DEF Next, Produce, ReadEvent

(* The indices, what lies between them, and what the two parties have in   *)
(* hand stay consistent through every step of ReadEvent and the producer.  *)
THEOREM RingInvariant == Spec => []RingInv
BY InitInv, StepInv, PTL DEF Spec

(* The indices, the slots and both program counters keep their types.      *)
THEOREM TypeCorrect == Spec => []TypeOK
BY RingInvariant, PTL DEF RingInv

(* ReadEvent never copies out of a slot the producer is writing, for every *)
(* capacity and every index width that is a multiple of it.                *)
THEOREM NoRace == Spec => []NoDataRace
<1>1. RingInv => NoDataRace
  <2> SUFFICES ASSUME RingInv, prodPc = "writing", consPc = "copying"
               PROVE  SlotOf(writeIndex) # SlotOf(readIndex)
    BY DEF NoDataRace
  <2> QED BY SlotsDiffer DEF RingInv, TypeOK, Pending, ProducerHolds, ConsumerHolds
<1> QED BY <1>1, RingInvariant, PTL

-----------------------------------------------------------------------------
(* The ring implements the queue: publishing the index is Put, advancing   *)
(* the read index is Take, every other step leaves the queue as it was.    *)

\* The sequence of waiting events only depends on the indices and the slots
\* between them, none of which is the slot being written.
LEMMA WaitingType ==
    ASSUME RingInv
    PROVE  /\ Len(Waiting) = Pending
           /\ DOMAIN Waiting = 1 .. Pending
           /\ \A k \in 1 .. Pending : Waiting[k] = slots[SlotOf(Ahead(readIndex, k - 1))]
           /\ Waiting \in Seq(Events \cup {NoEvent})
<1>1. Pending \in Nat
  BY DistanceType DEF RingInv, TypeOK, Pending
<1>2. ASSUME NEW k \in 1 .. Pending
      PROVE  slots[SlotOf(Ahead(readIndex, k - 1))] \in Events \cup {NoEvent}
  <2>1. k - 1 \in Nat /\ k - 1 < Pending
    BY <1>1
  <2>2. SlotOf(Ahead(readIndex, k - 1)) \in Slot
    BY <2>1, AheadDistance, SlotType DEF RingInv, TypeOK, Pending
  <2> QED BY <2>2 DEF RingInv, TypeOK
<1> QED BY <1>1, <1>2 DEF Waiting

LEMMA StoreLeavesWaiting ==
    ASSUME RingInv, ProducerStore
    PROVE  Waiting' = Waiting
<1>1. Pending' = Pending /\ Pending \in Nat /\ Pending < Capacity
  BY DistanceType DEF RingInv, TypeOK, Pending, ProducerHolds, ProducerStore, consVars
<1>2. ASSUME NEW k \in 1 .. Pending
      PROVE  slots'[SlotOf(Ahead(readIndex, k - 1))] = slots[SlotOf(Ahead(readIndex, k - 1))]
  <2> DEFINE a == Ahead(readIndex, k - 1)
  <2>1. k - 1 \in Nat /\ k - 1 < Pending
    BY <1>1
  <2>2. a \in Index /\ Distance(a, writeIndex) = Pending - (k - 1)
    BY <2>1, AheadDistance DEF RingInv, TypeOK, Pending
  <2>3. SlotOf(writeIndex) # SlotOf(a)
    <3>1. Distance(a, writeIndex) > 0 /\ Distance(a, writeIndex) < Capacity
      BY <1>1, <2>1, <2>2, RingAssumption
    <3>2. writeIndex \in Index
      BY DEF RingInv, TypeOK
    <3> HIDE DEF a
    <3> QED BY <2>2, <3>1, <3>2, SlotsDiffer
  <2>4. SlotOf(a) \in Slot
    BY <2>2, SlotType
  <2> QED BY <2>3, <2>4 DEF ProducerStore, RingInv, TypeOK
<1>3. readIndex' = readIndex
  BY DEF ProducerStore, consVars
<1> QED BY <1>1, <1>2, <1>3 DEF Waiting

LEMMA PublishPuts ==
    ASSUME RingInv, RingInv', ProducerPublish
    PROVE  Queue!Put(prodEvent)
<1>1. /\ prodEvent \in Events
      /\ Pending \in Nat
      /\ Pending < Capacity
      /\ slots[SlotOf(writeIndex)] = prodEvent
  BY DistanceType DEF RingInv, TypeOK, Pending, ProducerHolds, ProducerPublish
<1>2. Pending' = Pending + 1
  BY <1>1, DistanceAfterWrite DEF RingInv, TypeOK, Pending, ProducerPublish, consVars
<1>3. readIndex' = readIndex /\ slots' = slots /\ returned' = returned
  BY DEF ProducerPublish, consVars
<1>4. Ahead(readIndex, Pending) = writeIndex
  BY AheadEnd DEF RingInv, TypeOK, Pending
<1>5. Waiting' = [k \in 1 .. Pending + 1 |-> slots[SlotOf(Ahead(readIndex, k - 1))]]
  BY <1>2, <1>3 DEF Waiting
<1>6. Len(Waiting) = Pending /\ Waiting \in Seq(Events \cup {NoEvent})
  BY WaitingType
<1>7. Waiting' = Append(Waiting, prodEvent)
  <2>1. Append(Waiting, prodEvent)
          = [k \in 1 .. Pending + 1 |-> IF k = Pending + 1 THEN prodEvent ELSE Waiting[k]]
    BY <1>1, <1>6, AppendIsFunction
  <2>2. ASSUME NEW k \in 1 .. Pending + 1
        PROVE  slots[SlotOf(Ahead(readIndex, k - 1))]
                 = IF k = Pending + 1 THEN prodEvent ELSE Waiting[k]
    <3>1. CASE k = Pending + 1
      <4>1. k - 1 = Pending
        BY <1>1, <3>1
      <4> QED BY <1>1, <1>4, <3>1, <4>1
    <3>2. CASE k # Pending + 1
      <4>1. k \in 1 .. Pending
        BY <1>1, <3>2
      <4> QED BY <3>2, <4>1, WaitingType
    <3> QED BY <3>1, <3>2
  <2> QED BY <1>5, <2>1, <2>2
<1> QED BY <1>1, <1>3, <1>6, <1>7 DEF Queue!Put

LEMMA AdvanceTakes ==
    ASSUME RingInv, ReadAdvance
    PROVE  Queue!Take
<1>1. /\ Pending \in Nat
      /\ Pending > 0
      /\ Pending < IndexModulus
      /\ readIndex # writeIndex
      /\ outEvent = slots[SlotOf(readIndex)]
  BY DistanceType DEF RingInv, TypeOK, Pending, ConsumerHolds, ReadAdvance
<1>2. Pending' = Pending - 1
  BY <1>1, DistanceAfterRead DEF RingInv, TypeOK, Pending, ReadAdvance, prodVars
<1>3. readIndex' = NextIndex(readIndex) /\ slots' = slots /\ returned' = outEvent
  BY DEF ReadAdvance
<1>4. Len(Waiting) = Pending /\ Waiting \in Seq(Events \cup {NoEvent})
  BY WaitingType
<1>5. Head(Waiting) = outEvent
  <2>1. Ahead(readIndex, 0) = readIndex
    BY ModulusPositive, RingAssumption DEF Ahead, Index, RingInv, TypeOK
  <2>2. Waiting[1] = slots[SlotOf(Ahead(readIndex, 0))]
    BY <1>1, WaitingType
  <2> QED BY <1>1, <1>4, <2>1, <2>2
<1>6. Waiting' = Tail(Waiting)
  <2>1. Waiting' = [k \in 1 .. Pending - 1 |-> slots[SlotOf(Ahead(NextIndex(readIndex), k - 1))]]
    BY <1>2, <1>3 DEF Waiting
  <2>2. Tail(Waiting) = [k \in 1 .. Pending - 1 |-> Waiting[k + 1]]
    BY <1>1, <1>4, TailIsFunction
  <2>3. ASSUME NEW k \in 1 .. Pending - 1
        PROVE  slots[SlotOf(Ahead(NextIndex(readIndex), k - 1))] = Waiting[k + 1]
    <3>1. k - 1 \in Nat /\ (k - 1) + 1 < IndexModulus /\ k + 1 \in 1 .. Pending
      BY <1>1, ModulusPositive
    <3>2. Ahead(NextIndex(readIndex), k - 1) = Ahead(readIndex, (k - 1) + 1)
      BY <3>1, AheadNext DEF RingInv, TypeOK
    <3>3. (k - 1) + 1 = (k + 1) - 1
      OBVIOUS
    <3> QED BY <3>1, <3>2, <3>3, WaitingType
  <2> QED BY <2>1, <2>2, <2>3
<1>7. Waiting # <<>>
  BY <1>1, <1>4
<1> QED BY <1>3, <1>5, <1>6, <1>7 DEF Queue!Take

(* The ring is a bounded FIFO queue: every event put is taken once, in     *)
(* order and unchanged, across any number of index wraps.                  *)
THEOREM RingImplementsQueue == Spec => ImplementsQueue
<1>1. Init => Queue!Init
  <2> SUFFICES ASSUME Init PROVE Queue!Init
    OBVIOUS
  <2>1. RingInv /\ Pending = 0
    BY InitInv, ModulusPositive, RingAssumption DEF Init, Pending, Distance
  <2>2. Waiting = <<>>
    BY <2>1, WaitingType
  <2> QED BY <2>2 DEF Init, Queue!Init
<1>2. RingInv /\ RingInv' /\ [Next]_vars => [Queue!Next]_(Queue!vars)
  <2> SUFFICES ASSUME RingInv, RingInv', [Next]_vars
               PROVE  Queue!Next \/ UNCHANGED <<Waiting, returned>>
    BY DEF Queue!vars
  <2>1. ASSUME NEW e \in Events, ProducerReserve(e)
        PROVE  UNCHANGED <<Waiting, returned>>
    BY <2>1 DEF ProducerReserve, consVars, Waiting, Pending
  <2>2. CASE ProducerStore
    BY <2>2, StoreLeavesWaiting DEF ProducerStore, consVars
  <2>3. CASE ProducerPublish
    BY <2>3, PublishPuts DEF Queue!Next, RingInv, ProducerHolds, ProducerPublish
  <2>4. CASE ReadLoad
    BY <2>4 DEF ReadLoad, prodVars, Waiting, Pending
  <2>5. CASE ReadCopy
    BY <2>5 DEF ReadCopy, prodVars, Waiting, Pending
  <2>6. CASE ReadAdvance
    BY <2>6, AdvanceTakes DEF Queue!Next
  <2>7. CASE UNCHANGED vars
    BY <2>7 DEF vars, prodVars, consVars, Waiting, Pending
  <2> QED BY <2>1, <2>2, <2>3, <2>4, <2>5, <2>6, <2>7 DEF Next, Produce, ReadEvent
<1> QED BY <1>1, <1>2, RingInvariant, PTL DEF Spec, ImplementsQueue, Queue!Spec
=============================================================================
