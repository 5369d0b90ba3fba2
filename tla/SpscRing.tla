------------------------------ MODULE SpscRing ------------------------------
(***************************************************************************)
(* The shared-memory ring of the input and the control channel             *)
(* (InputRingBuffer, ControlRingBuffer): one external producer, one host   *)
(* pump thread that calls ReadEvent.  The indices are uint32_t counters    *)
(* that only ever grow and wrap at 2^32; an event lives in slot            *)
(* index % capacity.                                                       *)
(*                                                                         *)
(* Every atomic load or store of the indices is a step of its own, and so  *)
(* are the start and the end of the non-atomic copy of an event, because   *)
(* those are the points the two processes can interleave at.               *)
(***************************************************************************)
EXTENDS Integers, Sequences

CONSTANTS Events,    \* what may be sent: InputEvent or ControlEvent values
          Capacity,  \* INPUT_RING_CAPACITY, CONTROL_RING_CAPACITY
          Laps,      \* 2^32 \div Capacity: the indices count to Capacity*Laps
          NoEvent    \* the content of memory nothing was written to

ASSUME RingAssumption ==
    /\ Capacity \in Nat \ {0}
    /\ Laps \in Nat
    /\ Laps >= 2
    /\ NoEvent \notin Events

VARIABLES writeIndex,  \* the producer's atomic index
          readIndex,   \* the host's atomic index
          slots,       \* the event array
          prodPc,      \* where the producer is: "idle", "writing", "stored"
          prodEvent,   \* the event the producer is sending
          consPc,      \* where ReadEvent is: "idle", "copying", "copied"
          outEvent,    \* ReadEvent's out_event
          returned     \* the event the last successful ReadEvent returned

prodVars == <<writeIndex, prodPc, prodEvent>>
consVars == <<readIndex, consPc, outEvent, returned>>
vars == <<prodVars, consVars, slots>>

IndexModulus == Capacity * Laps
Index == 0 .. IndexModulus - 1
Slot == 0 .. Capacity - 1

\* uint32_t arithmetic: i + 1, and the number of steps from r forward to w.
NextIndexUnwrapped(i) == i + 1
NextIndex(i) == IF i + 1 = IndexModulus THEN 0 ELSE i + 1
Distance(r, w) == IF w >= r THEN w - r ELSE w - r + IndexModulus

SlotOf(i) == i % Capacity

\* The index n steps after i.
Ahead(i, n) == IF i + n < IndexModulus THEN i + n ELSE i + n - IndexModulus

Pending == Distance(readIndex, writeIndex)

TypeOK ==
    /\ writeIndex \in Index
    /\ readIndex \in Index
    /\ slots \in [Slot -> Events \cup {NoEvent}]
    /\ prodPc \in {"idle", "writing", "stored"}
    /\ prodEvent \in Events \cup {NoEvent}
    /\ consPc \in {"idle", "copying", "copied"}
    /\ outEvent \in Events \cup {NoEvent}
    /\ returned \in Events \cup {NoEvent}

Init ==
    /\ writeIndex = 0
    /\ readIndex = 0
    /\ slots = [s \in Slot |-> NoEvent]
    /\ prodPc = "idle"
    /\ prodEvent = NoEvent
    /\ consPc = "idle"
    /\ outEvent = NoEvent
    /\ returned = NoEvent

-----------------------------------------------------------------------------
(* The producer: external code, known by the layout it must respect.  It   *)
(* gives up on a full ring, writes the event, then publishes the index.    *)

ProducerReserve(e) ==
    /\ prodPc = "idle"
    /\ Pending < Capacity
    /\ prodPc' = "writing"
    /\ prodEvent' = e
    /\ UNCHANGED <<writeIndex, consVars, slots>>

ProducerStore ==
    /\ prodPc = "writing"
    /\ slots' = [slots EXCEPT ![SlotOf(writeIndex)] = prodEvent]
    /\ prodPc' = "stored"
    /\ UNCHANGED <<writeIndex, prodEvent, consVars>>

ProducerPublish ==
    /\ prodPc = "stored"
    /\ writeIndex' = NextIndex(writeIndex)
    /\ prodPc' = "idle"
    /\ UNCHANGED <<prodEvent, consVars, slots>>

-----------------------------------------------------------------------------
(* ReadEvent, called by the pump thread of the channel.                    *)

\* The mutated forms of ReadEvent's steps that the runs must tell apart.
ReadLoadAdvancing ==
    /\ consPc = "idle"
    /\ readIndex # writeIndex
    /\ consPc' = "copying"
    /\ readIndex' = NextIndex(readIndex)
    /\ UNCHANGED <<prodVars, outEvent, returned, slots>>

ReadLoad ==
    /\ consPc = "idle"
    /\ readIndex # writeIndex
    /\ consPc' = "copying"
    /\ UNCHANGED <<prodVars, readIndex, outEvent, returned, slots>>

ReadCopyNext ==
    /\ consPc = "copying"
    /\ outEvent' = slots[SlotOf(NextIndex(readIndex))]
    /\ consPc' = "copied"
    /\ UNCHANGED <<prodVars, readIndex, returned, slots>>

ReadCopy ==
    /\ consPc = "copying"
    /\ outEvent' = slots[SlotOf(readIndex)]
    /\ consPc' = "copied"
    /\ UNCHANGED <<prodVars, readIndex, returned, slots>>

ReadAdvance ==
    /\ consPc = "copied"
    /\ readIndex' = NextIndex(readIndex)
    /\ returned' = outEvent
    /\ consPc' = "idle"
    /\ UNCHANGED <<prodVars, outEvent, slots>>

-----------------------------------------------------------------------------
Produce ==
    \/ \E e \in Events : ProducerReserve(e)
    \/ ProducerStore
    \/ ProducerPublish

ReadEvent == ReadLoad \/ ReadCopy \/ ReadAdvance

Next == Produce \/ ReadEvent

\* A pump thread that runs goes on calling ReadEvent; the producer may stop
\* at any point.
Spec == Init /\ [][Next]_vars /\ WF_vars(ReadEvent)

-----------------------------------------------------------------------------
(* The host never copies an event out of a slot the producer is writing,   *)
(* whatever the interleaving and wherever the counters wrapped: ReadEvent  *)
(* keeps its slot reserved until the copy is complete.                     *)
NoDataRace ==
    ~ /\ prodPc = "writing"
      /\ consPc = "copying"
      /\ SlotOf(writeIndex) = SlotOf(readIndex)

(* ReadEvent works as a bounded FIFO queue: every published event is       *)
(* returned once, in order, unchanged, including across the index wrap.    *)
Waiting == [k \in 1 .. Pending |-> slots[SlotOf(Ahead(readIndex, k - 1))]]

Queue == INSTANCE BoundedQueue WITH queue <- Waiting, taken <- returned

ImplementsQueue == Queue!Spec

(* A published event is not stranded: the reader reaches every index the   *)
(* producer has published.                                                 *)
PublishedIsRead == \A i \in Index : (writeIndex = i) ~> (readIndex = i)
=============================================================================
