----------------------------- MODULE ConsoleRing -----------------------------
(***************************************************************************)
(* The console-log ring (SharedConsoleBuffer): the host's UI thread writes *)
(* one event per OnConsoleMessage and, on a full ring, makes room itself   *)
(* by moving the read index, which the consumer process moves as well.     *)
(*                                                                         *)
(* Logs are numbered in the order they are written, so log n sits in slot  *)
(* (n - 1) % Capacity.  A copy of an event is not atomic: it is two        *)
(* half reads, and an overwrite between them, or under way, tears it.      *)
(*                                                                         *)
(* The consumer is outside the repository.  It is given the protocol of    *)
(* the host's own readers: wait for the ready event, then read until the   *)
(* ring is empty, storing its index plus one after each copy.              *)
(***************************************************************************)
EXTENDS Integers

CONSTANTS Capacity,  \* CONSOLE_RING_CAPACITY
          MaxLogs    \* bound: how many logs a behaviour writes

ASSUME ConsoleAssumption ==
    /\ Capacity \in Nat \ {0}
    /\ MaxLogs \in Nat \ {0}

Torn == -1
Nothing == 0
Slot == 0 .. Capacity - 1
Log == 1 .. MaxLogs
Content == Log \cup {Torn, Nothing}

VARIABLES writeIndex,  \* atomic, stored by the host
          readIndex,   \* atomic, stored by both
          slots,       \* the event array
          ready,       \* the auto-reset event CEFHost_ConsoleReady
          hostPc,      \* where WriteEvent is
          hostRead,    \* its local r
          dropped,     \* history: some log was dropped to make room
          consPc,      \* where the consumer is
          consRead,    \* its local r
          half,        \* the first half of its copy
          outEvent,    \* its copy
          returned     \* the log it received last

hostVars == <<writeIndex, hostPc, hostRead, dropped>>
consVars == <<consPc, consRead, half, outEvent, returned>>
vars == <<hostVars, consVars, readIndex, slots, ready>>

SlotOf(i) == i % Capacity

TypeOK ==
    /\ writeIndex \in 0 .. MaxLogs
    /\ readIndex \in 0 .. MaxLogs
    /\ slots \in [Slot -> Content]
    /\ ready \in BOOLEAN
    /\ hostPc \in {"idle", "checked", "dropping", "overwriting", "stored", "signal"}
    /\ hostRead \in 0 .. MaxLogs
    /\ dropped \in BOOLEAN
    /\ consPc \in {"waiting", "checking", "reading", "halfway", "copied"}
    /\ consRead \in 0 .. MaxLogs
    /\ half \in Content
    /\ outEvent \in Content
    /\ returned \in Content

Init ==
    /\ writeIndex = 0
    /\ readIndex = 0
    /\ slots = [s \in Slot |-> Nothing]
    /\ ready = FALSE
    /\ hostPc = "idle"
    /\ hostRead = 0
    /\ dropped = FALSE
    /\ consPc = "waiting"
    /\ consRead = 0
    /\ half = Nothing
    /\ outEvent = Nothing
    /\ returned = Nothing

-----------------------------------------------------------------------------
(* WriteEvent, on the UI thread.                                           *)

\* Load both indices; a full ring first loses its oldest log.
FullAtOneMore(w, r) == w - r > Capacity
AlwaysFull(w, r) == TRUE
RingFull(w, r) == w - r >= Capacity

WriteCheck ==
    /\ hostPc = "idle"
    /\ writeIndex < MaxLogs
    /\ hostRead' = readIndex
    /\ hostPc' = IF RingFull(writeIndex, readIndex) THEN "dropping" ELSE "checked"
    /\ UNCHANGED <<writeIndex, dropped, consVars, readIndex, slots, ready>>

WriteDrop ==
    /\ hostPc = "dropping"
    /\ readIndex' = hostRead + 1
    /\ dropped' = TRUE
    /\ hostPc' = "checked"
    /\ UNCHANGED <<writeIndex, hostRead, consVars, slots, ready>>

\* The event is copied into its slot, field by field.
WriteBegin ==
    /\ hostPc = "checked"
    /\ slots' = [slots EXCEPT ![SlotOf(writeIndex)] = Torn]
    /\ hostPc' = "overwriting"
    /\ UNCHANGED <<writeIndex, hostRead, dropped, consVars, readIndex, ready>>

WriteStore ==
    /\ hostPc = "overwriting"
    /\ slots' = [slots EXCEPT ![SlotOf(writeIndex)] = writeIndex + 1]
    /\ hostPc' = "stored"
    /\ UNCHANGED <<writeIndex, hostRead, dropped, consVars, readIndex, ready>>

WritePublish ==
    /\ hostPc = "stored"
    /\ writeIndex' = writeIndex + 1
    /\ hostPc' = "signal"
    /\ UNCHANGED <<hostRead, dropped, consVars, readIndex, slots, ready>>

WriteUnsignaled ==
    /\ hostPc = "signal"
    /\ hostPc' = "idle"
    /\ UNCHANGED <<writeIndex, hostRead, dropped, consVars, readIndex, slots, ready>>

WriteSignal ==
    /\ hostPc = "signal"
    /\ ready' = TRUE
    /\ hostPc' = "idle"
    /\ UNCHANGED <<writeIndex, hostRead, dropped, consVars, readIndex, slots>>

WriteEvent ==
    \/ WriteCheck \/ WriteDrop \/ WriteBegin
    \/ WriteStore \/ WritePublish \/ WriteSignal

-----------------------------------------------------------------------------
(* The consumer.                                                           *)

ConsumerWake ==
    /\ consPc = "waiting"
    /\ ready
    /\ ready' = FALSE
    /\ consPc' = "checking"
    /\ UNCHANGED <<hostVars, readIndex, slots, consRead, half, outEvent, returned>>

ConsumerCheck ==
    /\ consPc = "checking"
    /\ consRead' = readIndex
    /\ consPc' = IF readIndex = writeIndex THEN "waiting" ELSE "reading"
    /\ UNCHANGED <<hostVars, readIndex, slots, ready, half, outEvent, returned>>

ConsumerFirstHalf ==
    /\ consPc = "reading"
    /\ half' = slots[SlotOf(consRead)]
    /\ consPc' = "halfway"
    /\ UNCHANGED <<hostVars, readIndex, slots, ready, consRead, outEvent, returned>>

ConsumerSecondHalf ==
    /\ consPc = "halfway"
    /\ outEvent' = IF slots[SlotOf(consRead)] = half THEN half ELSE Torn
    /\ consPc' = "copied"
    /\ UNCHANGED <<hostVars, readIndex, slots, ready, consRead, half, returned>>

ConsumerAdvance ==
    /\ consPc = "copied"
    /\ readIndex' = consRead + 1
    /\ returned' = outEvent
    /\ consPc' = "checking"
    /\ UNCHANGED <<hostVars, slots, ready, consRead, half, outEvent>>

Consume ==
    \/ ConsumerWake \/ ConsumerCheck \/ ConsumerFirstHalf
    \/ ConsumerSecondHalf \/ ConsumerAdvance

-----------------------------------------------------------------------------
Next == WriteEvent \/ Consume

\* WriteEvent never blocks, so a call that started runs to its end; the page
\* may log nothing more at any point.  The consumer keeps running.
Spec ==
    /\ Init
    /\ [][Next]_vars
    /\ WF_vars(WriteEvent /\ hostPc # "idle")
    /\ WF_vars(Consume)

-----------------------------------------------------------------------------
(* Two parties store the read index, from values loaded earlier: neither   *)
(* store ever puts it past the write index, where the ring would look      *)
(* almost full of logs nobody wrote.                                       *)
ReadNeverPassesWrite == readIndex <= writeIndex

(* As long as the ring never filled, the consumer receives log after log,  *)
(* none missing, repeated or torn.                                         *)
LosslessUntilFull ==
    ~dropped => /\ returned = readIndex
                /\ outEvent # Torn

(* Whatever was dropped or raced over, the newest log reaches the consumer *)
(* once the page stops logging: no lost wakeup, no store of the read index *)
(* that hides it.                                                          *)
NewestIsDelivered ==
    (writeIndex = MaxLogs /\ hostPc = "idle") ~> (returned = MaxLogs)

(* "Drop oldest to keep newest logs" (SharedConsoleBuffer.h:55): making     *)
(* room only ever discards logs, it never puts back into the ring logs the *)
(* consumer has already read.                                              *)
DropNeverRestores ==
    [][hostPc = "dropping" => readIndex' >= readIndex]_vars
=============================================================================
