------------------------- MODULE ConsoleRing_proofs -------------------------
(***************************************************************************)
(* Proofs about the console-log ring, for every capacity and any number of *)
(* logs.                                                                   *)
(***************************************************************************)
EXTENDS ConsoleRing, TLAPS

(* A local copy of the read index that is about to be stored plus one was  *)
(* behind the write index when it was loaded, and the write index only     *)
(* grows.                                                                  *)
HostHolds == hostPc = "dropping" => hostRead < writeIndex
ConsumerHolds == consPc \in {"reading", "halfway", "copied"} => consRead < writeIndex

\* A store under way is a store of a log that is still to be counted.
WriteHolds == hostPc \notin {"idle", "signal"} => writeIndex < MaxLogs

ConsoleInv ==
    /\ TypeOK
    /\ ReadNeverPassesWrite
    /\ HostHolds
    /\ ConsumerHolds
    /\ WriteHolds

LEMMA SlotType == ASSUME NEW i \in Nat PROVE SlotOf(i) \in Slot
BY ConsoleAssumption DEF SlotOf, Slot

LEMMA InitInv == Init => ConsoleInv
<1> SUFFICES ASSUME Init PROVE ConsoleInv
  OBVIOUS
<1>1. 0 \in 0 .. MaxLogs /\ 0 <= 0
  BY ConsoleAssumption
<1>2. slots \in [Slot -> Content] /\ Nothing \in Content
  BY DEF Init, Content
<1> QED BY <1>1, <1>2 DEF Init, ConsoleInv, TypeOK, ReadNeverPassesWrite, HostHolds,
           ConsumerHolds, WriteHolds

LEMMA StepInv == ConsoleInv /\ [Next]_vars => ConsoleInv'
<1> SUFFICES ASSUME ConsoleInv, [Next]_vars PROVE ConsoleInv'
  OBVIOUS
<1> USE ConsoleAssumption DEF ConsoleInv, TypeOK, ReadNeverPassesWrite, HostHolds,
        ConsumerHolds, WriteHolds
<1>1. CASE WriteCheck
  <2>1. hostPc' = "dropping" => readIndex < writeIndex
    BY <1>1 DEF WriteCheck, RingFull
  <2> QED BY <1>1, <2>1 DEF WriteCheck, consVars
<1>2. CASE WriteDrop
  BY <1>2 DEF WriteDrop, consVars
<1>3. CASE WriteBegin
  BY <1>3 DEF WriteBegin, consVars, Content
<1>4. CASE WriteStore
  <2>1. writeIndex + 1 \in Content
    BY <1>4 DEF WriteStore, Content, Log
  <2> QED BY <1>4, <2>1 DEF WriteStore, consVars
<1>5. CASE WritePublish
  BY <1>5 DEF WritePublish, consVars
<1>6. CASE WriteSignal
  BY <1>6 DEF WriteSignal, consVars
<1>7. CASE ConsumerWake
  BY <1>7 DEF ConsumerWake, hostVars
<1>8. CASE ConsumerCheck
  BY <1>8 DEF ConsumerCheck, hostVars
<1>9. CASE ConsumerFirstHalf
  <2>1. slots[SlotOf(consRead)] \in Content
    BY SlotType
  <2> QED BY <1>9, <2>1 DEF ConsumerFirstHalf, hostVars
<1>10. CASE ConsumerSecondHalf
  BY <1>10 DEF ConsumerSecondHalf, hostVars, Content
<1>11. CASE ConsumerAdvance
  BY <1>11 DEF ConsumerAdvance, hostVars
<1>12. CASE UNCHANGED vars
  BY <1>12 DEF vars, hostVars, consVars
<1> QED BY <1>1, <1>2, <1>3, <1>4, <1>5, <1>6, <1>7, <1>8, <1>9, <1>10, <1>11, <1>12
        DEF Next, WriteEvent, Consume

(* What the two parties of the ring hold and what lies between the indices *)
(* stays consistent through the host's drop and the consumer's read of the *)
(* same read index (SharedConsoleBuffer::WriteEvent).                      *)
THEOREM ConsoleInvariant == Spec => []ConsoleInv
BY InitInv, StepInv, PTL DEF Spec

(* Neither of the two parties that store the read index ever moves it past *)
(* the write index.                                                        *)
THEOREM ReadStaysBehindWrite == Spec => []ReadNeverPassesWrite
BY ConsoleInvariant, PTL DEF ConsoleInv

(* The indices, the slots and both program counters keep their types.      *)
THEOREM TypeCorrect == Spec => []TypeOK
BY ConsoleInvariant, PTL DEF ConsoleInv

-----------------------------------------------------------------------------
(* Until the first drop the ring is an ordinary queue: only the consumer    *)
(* stores the read index, and what lies between the indices fits.          *)

\* Two indices less than a capacity apart never share a slot.
LEMMA SlotsDiffer ==
    ASSUME NEW i \in Nat, NEW j \in Nat, i < j, j - i < Capacity
    PROVE  SlotOf(i) # SlotOf(j)
<1> SUFFICES ASSUME SlotOf(i) = SlotOf(j) PROVE FALSE
  OBVIOUS
<1> DEFINE qi == i \div Capacity
           qj == j \div Capacity
<1>1. /\ qi \in Int /\ qj \in Int
      /\ i = Capacity * qi + SlotOf(i)
      /\ j = Capacity * qj + SlotOf(j)
      /\ SlotOf(i) \in Int /\ SlotOf(j) \in Int
  BY ConsoleAssumption DEF SlotOf
<1> HIDE DEF qi, qj
<1>2. j - i = Capacity * (qj - qi)
  <2>1. Capacity * (qj - qi) = Capacity * qj - Capacity * qi
    BY <1>1, ConsoleAssumption
  <2>2. Capacity * qj \in Int /\ Capacity * qi \in Int
    BY <1>1, ConsoleAssumption
  <2> QED BY <1>1, <2>1, <2>2
<1>3. CASE qj - qi >= 1
  <2>1. Capacity * (qj - qi - 1) >= 0
    BY <1>1, <1>3, ConsoleAssumption
  <2>2. Capacity * (qj - qi - 1) = Capacity * (qj - qi) - Capacity
    BY <1>1, ConsoleAssumption
  <2> QED BY <1>1, <1>2, <2>1, <2>2, ConsoleAssumption
<1>4. CASE qj - qi <= 0
  <2>1. Capacity * (qj - qi) <= 0
    BY <1>1, <1>4, ConsoleAssumption
  <2> QED BY <1>2, <2>1
<1> QED BY <1>1, <1>3, <1>4

Unread == readIndex .. writeIndex - 1

NoTorn == returned = readIndex /\ outEvent # Torn

Fits == /\ writeIndex - readIndex <= Capacity
        /\ hostPc \in {"checked", "overwriting", "stored"} => writeIndex - readIndex < Capacity

Stored == /\ \A i \in Unread : slots[SlotOf(i)] = i + 1
          /\ hostPc = "stored" => slots[SlotOf(writeIndex)] = writeIndex + 1

Copying == /\ consPc \in {"reading", "halfway", "copied"} => consRead = readIndex
           /\ consPc = "halfway" => half = consRead + 1
           /\ consPc = "copied" => outEvent = consRead + 1

QueueInv == dropped \/ (NoTorn /\ Fits /\ Stored /\ Copying)

LEMMA QueueInit == Init => QueueInv
BY ConsoleAssumption DEF Init, QueueInv, NoTorn, Fits, Stored, Copying, Unread, Torn, Nothing

\* Writing the slot of the write index leaves the unread logs alone.
LEMMA UnreadKept ==
    ASSUME ConsoleInv, Fits, Stored,
           hostPc \in {"checked", "overwriting"},
           \A s \in Slot : s # SlotOf(writeIndex) => slots'[s] = slots[s]
    PROVE  \A i \in Unread : slots'[SlotOf(i)] = i + 1
<1>1. ASSUME NEW i \in Unread PROVE slots'[SlotOf(i)] = i + 1
  <2>1. i \in Nat /\ i < writeIndex /\ writeIndex - i < Capacity /\ writeIndex \in Nat
    BY ConsoleAssumption DEF Unread, Fits, ConsoleInv, TypeOK
  <2>2. SlotOf(i) # SlotOf(writeIndex)
    BY <2>1, SlotsDiffer
  <2>3. SlotOf(i) \in Slot
    BY <2>1, SlotType
  <2> QED BY <2>2, <2>3 DEF Stored
<1> QED BY <1>1

LEMMA QueueStep == ConsoleInv /\ QueueInv /\ [Next]_vars => QueueInv'
<1> SUFFICES ASSUME ConsoleInv, QueueInv, [Next]_vars, ~dropped' PROVE QueueInv'
  BY DEF QueueInv
<1>0. ~dropped
  BY DEF Next, WriteEvent, Consume, WriteCheck, WriteDrop, WriteBegin, WriteStore, WritePublish,
         WriteSignal, ConsumerWake, ConsumerCheck, ConsumerFirstHalf, ConsumerSecondHalf,
         ConsumerAdvance, vars, hostVars
<1>t. /\ writeIndex \in Nat /\ readIndex \in Nat /\ readIndex <= writeIndex
      /\ Capacity \in Nat \ {0}
  BY ConsoleAssumption DEF ConsoleInv, TypeOK, ReadNeverPassesWrite
<1>q. NoTorn /\ Fits /\ Stored /\ Copying
  BY <1>0 DEF QueueInv
<1>1. CASE WriteCheck
  BY <1>1, <1>t, <1>q DEF WriteCheck, RingFull, consVars, QueueInv, NoTorn, Fits, Stored, Copying,
                          Unread
<1>2. CASE WriteDrop
  BY <1>2 DEF WriteDrop
<1>3. CASE WriteBegin
  <2>0. SlotOf(writeIndex) \in Slot
    BY <1>t, SlotType
  <2>1. \A s \in Slot : s # SlotOf(writeIndex) => slots'[s] = slots[s]
    BY <1>3 DEF WriteBegin, ConsoleInv, TypeOK
  <2>2. \A i \in Unread : slots'[SlotOf(i)] = i + 1
    BY <1>3, <1>q, <2>1, UnreadKept DEF WriteBegin
  <2>3. Stored'
    BY <1>3, <2>2 DEF WriteBegin, Stored, Unread
  <2> QED BY <1>3, <1>q, <2>3 DEF WriteBegin, consVars, QueueInv, NoTorn, Fits, Copying
<1>4. CASE WriteStore
  <2>0. SlotOf(writeIndex) \in Slot
    BY <1>t, SlotType
  <2>1. \A s \in Slot : s # SlotOf(writeIndex) => slots'[s] = slots[s]
    BY <1>4 DEF WriteStore, ConsoleInv, TypeOK
  <2>2. \A i \in Unread : slots'[SlotOf(i)] = i + 1
    BY <1>4, <1>q, <2>1, UnreadKept DEF WriteStore
  <2>3. slots'[SlotOf(writeIndex)] = writeIndex + 1
    BY <1>4, <2>0 DEF WriteStore, ConsoleInv, TypeOK
  <2>4. Stored'
    BY <1>4, <2>2, <2>3 DEF WriteStore, Stored, Unread
  <2> QED BY <1>4, <1>q, <2>4 DEF WriteStore, consVars, QueueInv, NoTorn, Fits, Copying
<1>5. CASE WritePublish
  <2>1. Stored'
    <3>1. ASSUME NEW i \in readIndex .. writeIndex PROVE slots[SlotOf(i)] = i + 1
      BY <1>5, <1>t, <1>q DEF WritePublish, Stored, Unread
    <3> QED BY <1>5, <1>t, <3>1 DEF WritePublish, Stored, Unread
  <2> QED BY <1>5, <1>t, <1>q, <2>1 DEF WritePublish, consVars, QueueInv, NoTorn, Fits, Copying
<1>6. CASE WriteSignal
  BY <1>6, <1>q DEF WriteSignal, consVars, QueueInv, NoTorn, Fits, Stored, Copying, Unread
<1>7. CASE ConsumerWake
  BY <1>7, <1>q DEF ConsumerWake, hostVars, QueueInv, NoTorn, Fits, Stored, Copying, Unread
<1>8. CASE ConsumerCheck
  BY <1>8, <1>q DEF ConsumerCheck, hostVars, QueueInv, NoTorn, Fits, Stored, Copying, Unread
<1>9. CASE ConsumerFirstHalf
  <2>1. consRead \in Unread /\ consRead = readIndex
    BY <1>9, <1>t, <1>q DEF ConsumerFirstHalf, Copying, Unread, ConsoleInv, ConsumerHolds
  <2>2. slots[SlotOf(consRead)] = consRead + 1
    BY <2>1, <1>q DEF Stored
  <2> QED BY <1>9, <1>q, <2>1, <2>2 DEF ConsumerFirstHalf, hostVars, QueueInv, NoTorn, Fits, Stored,
                                        Copying, Unread
<1>10. CASE ConsumerSecondHalf
  <2>1. consRead \in Unread /\ consRead = readIndex /\ half = consRead + 1
    BY <1>10, <1>t, <1>q DEF ConsumerSecondHalf, Copying, Unread, ConsoleInv, ConsumerHolds
  <2>2. slots[SlotOf(consRead)] = consRead + 1
    BY <2>1, <1>q DEF Stored
  <2>3. outEvent' = consRead + 1 /\ outEvent' # Torn
    BY <1>10, <1>t, <2>1, <2>2 DEF ConsumerSecondHalf, Torn
  <2> QED BY <1>10, <1>q, <2>1, <2>3 DEF ConsumerSecondHalf, hostVars, QueueInv, NoTorn, Fits,
                                         Stored, Copying, Unread
<1>11. CASE ConsumerAdvance
  <2>1. consRead = readIndex /\ outEvent = consRead + 1 /\ readIndex < writeIndex
    BY <1>11, <1>q DEF ConsumerAdvance, Copying, ConsoleInv, ConsumerHolds
  <2> QED BY <1>11, <1>t, <1>q, <2>1 DEF ConsumerAdvance, hostVars, QueueInv, NoTorn, Fits, Stored,
                                         Copying, Unread
<1>12. CASE UNCHANGED vars
  BY <1>12, <1>q DEF vars, hostVars, consVars, QueueInv, NoTorn, Fits, Stored, Copying, Unread
<1> QED BY <1>1, <1>2, <1>3, <1>4, <1>5, <1>6, <1>7, <1>8, <1>9, <1>10, <1>11, <1>12
        DEF Next, WriteEvent, Consume

(* As long as the ring never filled, the consumer receives log after log,  *)
(* none missing, repeated or torn, for every capacity.                     *)
THEOREM LosslessRing == Spec => []LosslessUntilFull
<1>1. QueueInv => LosslessUntilFull
  BY DEF QueueInv, NoTorn, LosslessUntilFull
<1> QED BY <1>1, ConsoleInvariant, QueueInit, QueueStep, PTL DEF Spec
=============================================================================
