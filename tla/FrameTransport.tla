--------------------------- MODULE FrameTransport ---------------------------
(***************************************************************************)
(* How a painted frame reaches the consumer: the ring of shared textures,  *)
(* the GPU command queue with its shared fence, the frame header in shared *)
(* memory and the frame-ready event.                                       *)
(*                                                                         *)
(* OnAcceleratedPaint runs on the UI thread.  It only queues GPU work: the *)
(* copy of the CEF texture into the next slot, then a signal of the fence. *)
(* The header has no lock and no begin mark: its fields are written one    *)
(* after the other, then the sequence is incremented and the event set.    *)
(* The UI thread's program counter stops wherever the GPU or the consumer  *)
(* could see the difference; a local is cleared after its last use.        *)
(*                                                                         *)
(* Content is abstract: view paint n puts content n into its slot.  The    *)
(* paints here are of one size and succeed.                                *)
(***************************************************************************)
EXTENDS Integers, Sequences, FiniteSets

CONSTANTS SlotCount,  \* SHM_FRAME_SLOT_COUNT
          HasFence,   \* the device has given InitD3DInterfaces a shared fence
          Intervals,  \* the values SetFlushIntervalFrames may carry
          MaxViews,   \* bound: paints of the view
          MaxPopups,  \* bound: paints of the popup
          MaxLoads    \* bound: load-state changes

ASSUME FrameTransportAssumption ==
    /\ SlotCount \in Nat \ {0}
    /\ HasFence \in BOOLEAN
    /\ Intervals \subseteq Nat
    /\ MaxViews \in Nat
    /\ MaxPopups \in Nat
    /\ MaxLoads \in Nat

Slot == 0 .. SlotCount - 1
Torn == -1

VARIABLES
    uiPc,              \* where the UI thread is in a publish
    uiKind,            \* what it publishes: "view", "popup" or "load"
    uiFull,            \* its local forceFull
    uiFence,           \* its local gpuFenceValue
    writeSlot,         \* m_writeSlot
    nextFrameId,       \* m_nextFrameId
    nextGpuFenceValue, \* m_nextGpuFenceValue
    framesSinceFlush,  \* m_framesSinceFlush
    flushInterval,     \* m_flushIntervalFrames
    header,            \* the shared FrameHeader
    frameReady,        \* the auto-reset event CEFHost_FrameReady
    queue,             \* GPU commands submitted to the context, oldest first
    flushed,           \* how many of them have been handed to the GPU
    slots,             \* the content of each shared texture
    gpuFence,          \* the value the shared fence has reached
    consPc,            \* where the consumer is
    snap,              \* its copy of the header
    snapWhole,         \* history: the copy was not taken in mid-publish
    half,              \* the content it saw when it began to read the slot
    shown,             \* what it has shown last
    views,             \* history: view paints
    popups             \* history: popup paints

uiVars == <<uiPc, uiKind, uiFull, uiFence, writeSlot, nextFrameId,
            nextGpuFenceValue, framesSinceFlush, views, popups>>
gpuVars == <<queue, flushed, slots, gpuFence>>
consVars == <<consPc, snap, snapWhole, half, shown>>
vars == <<uiVars, flushInterval, header, frameReady, gpuVars, consVars>>


MaxFrames == MaxViews + MaxPopups
Content == 0 .. MaxViews

\* dirty: the frame whose dirty rectangles the header holds; view: the
\* content the slot is meant to hold; load: the number of load changes.
Header == [seq : 0 .. MaxFrames + MaxLoads, dirty : 0 .. MaxFrames, slot : Slot,
           view : Content, fence : 0 .. MaxFrames, frame : 0 .. MaxFrames,
           load : 0 .. MaxLoads]

Command == [op : {"copy"}, slot : Slot, view : Content]
      \cup [op : {"signal"}, value : 1 .. MaxFrames]

Shown == [seq : 0 .. MaxFrames + MaxLoads, frame : 0 .. MaxFrames, dirty : 0 .. MaxFrames,
          view : Content, fence : 0 .. MaxFrames, load : 0 .. MaxLoads,
          whole : BOOLEAN, content : Content \cup {Torn}]

TypeOK ==
    /\ uiPc \in {"idle", "dirty", "signal", "slot", "fence", "popupDirty", "publish", "wake"}
    /\ uiKind \in {"view", "popup", "load"}
    /\ uiFull \in BOOLEAN
    /\ uiFence \in 0 .. MaxFrames
    /\ writeSlot \in Slot
    /\ nextFrameId \in 1 .. MaxFrames + 1
    /\ nextGpuFenceValue \in 1 .. MaxFrames + 1
    /\ framesSinceFlush \in 0 .. MaxViews
    /\ flushInterval \in Nat
    /\ header \in Header
    /\ frameReady \in BOOLEAN
    /\ queue \in Seq(Command)
    /\ flushed \in 0 .. Len(queue)
    /\ slots \in [Slot -> Content]
    /\ gpuFence \in 0 .. MaxFrames
    /\ consPc \in {"waiting", "woken", "fenceWait", "reading"}
    /\ snap \in Header
    /\ snapWhole \in BOOLEAN
    /\ half \in Content
    /\ shown \in Shown
    /\ views \in 0 .. MaxViews
    /\ popups \in 0 .. MaxPopups

NoFrame == [seq |-> 0, dirty |-> 0, slot |-> 0, view |-> 0, fence |-> 0, frame |-> 0, load |-> 0]

Init ==
    /\ uiPc = "idle"
    /\ uiKind = "view"
    /\ uiFull = FALSE
    /\ uiFence = 0
    /\ writeSlot = 0
    /\ nextFrameId = 1
    /\ nextGpuFenceValue = 1
    /\ framesSinceFlush = 0
    /\ flushInterval = 1
    /\ header = NoFrame
    /\ frameReady = FALSE
    /\ queue = <<>>
    /\ flushed = 0
    /\ slots = [s \in Slot |-> 0]
    /\ gpuFence = 0
    /\ consPc = "waiting"
    /\ snap = NoFrame
    /\ snapWhole = TRUE
    /\ half = 0
    /\ shown = [seq |-> 0, frame |-> 0, dirty |-> 0, view |-> 0, fence |-> 0, load |-> 0,
                whole |-> TRUE, content |-> 0]
    /\ views = 0
    /\ popups = 0

-----------------------------------------------------------------------------
(* The UI thread.                                                          *)

\* Mutated forms: an increment without its wrap, a wrap at the wrong count.
NextUnwrapped(s) == s + 1
NextOfTwo(s) == (s + 1) % 2
NextSlot(s) == (s + 1) % SlotCount

Copy(s, n) == [op |-> "copy", slot |-> s, view |-> n]
Signal(v) == [op |-> "signal", value |-> v]

\* OnAcceleratedPaint(PET_VIEW), after EnsureSharedTextures: the copy into
\* the back slot is queued.
ViewCopy(full) ==
    /\ uiPc = "idle"
    /\ views < MaxViews
    /\ views' = views + 1
    /\ queue' = Append(queue, Copy(NextSlot(writeSlot), views + 1))
    /\ uiKind' = "view"
    /\ uiFull' = full
    /\ uiPc' = "dirty"
    /\ UNCHANGED <<uiFence, writeSlot, nextFrameId, nextGpuFenceValue, framesSinceFlush, popups,
                   flushInterval, header, frameReady, flushed, slots, gpuFence, consVars>>

\* The dirty rectangles go into the header long before the frame's id.
ViewDirty ==
    /\ uiPc = "dirty"
    /\ header' = [header EXCEPT !.dirty = nextFrameId]
    /\ uiPc' = "signal"
    /\ UNCHANGED <<uiKind, uiFull, uiFence, writeSlot, nextFrameId, nextGpuFenceValue,
                   framesSinceFlush, views, popups, flushInterval, frameReady, gpuVars, consVars>>

\* OnAcceleratedPaint(PET_POPUP): the popup plane is no part of the ring.
PopupCopy ==
    /\ uiPc = "idle"
    /\ popups < MaxPopups
    /\ popups' = popups + 1
    /\ uiKind' = "popup"
    /\ uiPc' = "signal"
    /\ UNCHANGED <<uiFull, uiFence, writeSlot, nextFrameId, nextGpuFenceValue, framesSinceFlush,
                   views, flushInterval, header, frameReady, gpuVars, consVars>>

\* A popup is only flushed when the fence was not signaled.
ShouldFlush(signaled) ==
    \/ ~signaled
    \/ /\ uiKind = "view"
       /\ uiFull
    \/ /\ uiKind = "view"
       /\ flushInterval > 0
       /\ framesSinceFlush + 1 >= flushInterval

UnqueuedSignal(signaled) == queue  \* a mutated form: the value is only counted
WithSignal(signaled) == IF signaled THEN Append(queue, Signal(nextGpuFenceValue)) ELSE queue

\* Without a fence, or when its signal fails, 0 is published: do not wait.
SignalFence(signaled) ==
    /\ uiPc = "signal"
    /\ signaled => HasFence
    /\ nextGpuFenceValue' = IF HasFence THEN nextGpuFenceValue + 1 ELSE nextGpuFenceValue
    /\ uiFence' = IF signaled THEN nextGpuFenceValue ELSE 0
    /\ queue' = WithSignal(signaled)
    /\ flushed' = IF ShouldFlush(signaled) THEN Len(queue') ELSE flushed
    /\ framesSinceFlush' = IF uiKind = "popup" THEN framesSinceFlush
                           ELSE IF ShouldFlush(signaled) THEN 0 ELSE framesSinceFlush + 1
    /\ uiFull' = FALSE
    /\ uiPc' = "slot"
    /\ UNCHANGED <<uiKind, writeSlot, nextFrameId, views, popups,
                   flushInterval, header, frameReady, slots, gpuFence, consVars>>

PublishSlot ==
    /\ uiPc = "slot"
    /\ writeSlot' = IF uiKind = "view" THEN NextSlot(writeSlot) ELSE writeSlot
    /\ header' = [header EXCEPT !.slot = writeSlot', !.view = views]
    /\ uiPc' = "fence"
    /\ UNCHANGED <<uiKind, uiFull, uiFence, nextFrameId, nextGpuFenceValue, framesSinceFlush,
                   views, popups, flushInterval, frameReady, gpuVars, consVars>>

PublishFence ==
    /\ uiPc = "fence"
    /\ header' = [header EXCEPT !.fence = uiFence, !.frame = nextFrameId]
    /\ nextFrameId' = nextFrameId + 1
    /\ uiFence' = 0
    /\ uiPc' = IF uiKind = "popup" THEN "popupDirty" ELSE "publish"
    /\ UNCHANGED <<uiKind, uiFull, writeSlot, nextGpuFenceValue, framesSinceFlush,
                   views, popups, flushInterval, frameReady, gpuVars, consVars>>

\* The mutated form: the dirty rectangles of the last view frame stay.
PopupDirtyStale ==
    /\ uiPc = "popupDirty"
    /\ uiPc' = "publish"
    /\ UNCHANGED <<uiKind, uiFull, uiFence, writeSlot, nextFrameId, nextGpuFenceValue, header,
                   framesSinceFlush, views, popups, flushInterval, frameReady, gpuVars, consVars>>

PopupDirty ==
    /\ uiPc = "popupDirty"
    /\ header' = [header EXCEPT !.dirty = header.frame]
    /\ uiPc' = "publish"
    /\ UNCHANGED <<uiKind, uiFull, uiFence, writeSlot, nextFrameId, nextGpuFenceValue,
                   framesSinceFlush, views, popups, flushInterval, frameReady, gpuVars, consVars>>

\* OnLoadStart, OnLoadEnd, OnLoadError: a new load state, published alone.
LoadChange ==
    /\ uiPc = "idle"
    /\ header.load < MaxLoads
    /\ header' = [header EXCEPT !.load = @ + 1]
    /\ uiKind' = "load"
    /\ uiPc' = "publish"
    /\ UNCHANGED <<uiFull, uiFence, writeSlot, nextFrameId, nextGpuFenceValue,
                   framesSinceFlush, views, popups, flushInterval, frameReady, gpuVars, consVars>>

PublishSequence ==
    /\ uiPc = "publish"
    /\ header' = [header EXCEPT !.seq = @ + 1]
    /\ uiPc' = "wake"
    /\ UNCHANGED <<uiKind, uiFull, uiFence, writeSlot, nextFrameId, nextGpuFenceValue,
                   framesSinceFlush, views, popups, flushInterval, frameReady, gpuVars, consVars>>

\* The mutated form: only frames set the event.
WakeForFrames ==
    /\ uiPc = "wake"
    /\ frameReady' = (frameReady \/ uiKind # "load")
    /\ uiPc' = "idle"
    /\ UNCHANGED <<uiKind, uiFull, uiFence, writeSlot, nextFrameId, nextGpuFenceValue,
                   framesSinceFlush, views, popups, flushInterval, header, gpuVars, consVars>>

WakeConsumer ==
    /\ uiPc = "wake"
    /\ frameReady' = TRUE
    /\ uiPc' = "idle"
    /\ UNCHANGED <<uiKind, uiFull, uiFence, writeSlot, nextFrameId, nextGpuFenceValue,
                   framesSinceFlush, views, popups, flushInterval, header, gpuVars, consVars>>

Publish ==
    \/ ViewDirty \/ PublishSlot \/ PublishFence \/ PopupDirty
    \/ PublishSequence \/ WakeConsumer
    \/ \E signaled \in BOOLEAN : SignalFence(signaled)

StartPublish ==
    \/ \E full \in BOOLEAN : ViewCopy(full)
    \/ PopupCopy
    \/ LoadChange

\* The control thread: SetFlushIntervalFrames.
SetFlushInterval(interval) ==
    /\ flushInterval # interval
    /\ flushInterval' = interval
    /\ UNCHANGED <<uiVars, header, frameReady, gpuVars, consVars>>

-----------------------------------------------------------------------------
(* The GPU runs the commands in order.  What was flushed is run; what was  *)
(* not may be, as the driver sees fit.                                     *)

GpuExecute ==
    /\ queue # <<>>
    /\ LET c == Head(queue) IN
       /\ slots' = IF c.op = "copy" THEN [slots EXCEPT ![c.slot] = c.view] ELSE slots
       /\ gpuFence' = IF c.op = "signal" THEN c.value ELSE gpuFence
    /\ queue' = Tail(queue)
    /\ flushed' = IF flushed > 0 THEN flushed - 1 ELSE 0
    /\ UNCHANGED <<uiVars, flushInterval, header, frameReady, consVars>>

-----------------------------------------------------------------------------
(* The consumer, outside the repository, as README.md "Unreal Consumer     *)
(* Expectations" has it: wait on the event, read the header, wait for the  *)
(* fence value if there is one, read the slot.                             *)

\* No field is half-way between two frames.
HeaderWhole == uiPc \in {"idle", "dirty", "publish", "wake"}

ConsumerWake ==
    /\ consPc = "waiting"
    /\ frameReady
    /\ frameReady' = FALSE
    /\ consPc' = "woken"
    /\ UNCHANGED <<uiVars, flushInterval, header, gpuVars, snap, snapWhole, half, shown>>

ConsumerSnapshot ==
    /\ consPc = "woken"
    /\ snap' = header
    /\ snapWhole' = HeaderWhole
    /\ consPc' = IF header.seq = shown.seq THEN "waiting" ELSE "fenceWait"
    /\ UNCHANGED <<uiVars, flushInterval, header, frameReady, gpuVars, half, shown>>

ConsumerBeginRead ==
    /\ consPc = "fenceWait"
    /\ gpuFence >= snap.fence
    /\ half' = slots[snap.slot]
    /\ consPc' = "reading"
    /\ UNCHANGED <<uiVars, flushInterval, header, frameReady, gpuVars, snap, snapWhole, shown>>

ConsumerEndRead ==
    /\ consPc = "reading"
    /\ shown' = [seq |-> snap.seq, frame |-> snap.frame, dirty |-> snap.dirty, view |-> snap.view,
                 fence |-> snap.fence, load |-> snap.load, whole |-> snapWhole,
                 content |-> IF slots[snap.slot] = half THEN half ELSE Torn]
    /\ half' = 0
    /\ consPc' = "waiting"
    /\ UNCHANGED <<uiVars, flushInterval, header, frameReady, gpuVars, snap, snapWhole>>

Consume == ConsumerWake \/ ConsumerSnapshot \/ ConsumerBeginRead \/ ConsumerEndRead

-----------------------------------------------------------------------------
Next ==
    \/ StartPublish
    \/ Publish
    \/ \E interval \in Intervals : SetFlushInterval(interval)
    \/ GpuExecute
    \/ Consume

\* OnAcceleratedPaint does not block once it has its lock; the GPU runs what
\* it was handed; the consumer keeps running.
Spec ==
    /\ Init
    /\ [][Next]_vars
    /\ WF_vars(Publish)
    /\ WF_vars(GpuExecute /\ flushed > 0)
    /\ WF_vars(Consume)

-----------------------------------------------------------------------------
(* The consumer shows the frame the header named, whole and not older, as  *)
(* long as the host has started fewer than SlotCount view copies since and *)
(* the header was not read in mid-publish: the fence is signaled behind    *)
(* the copy, and the slot is not reused for SlotCount frames.              *)
SlotIntact ==
    /\ shown.whole
    /\ shown.fence > 0
    /\ views - shown.view < SlotCount
    => shown.content = shown.view

(* A snapshot that is not taken in mid-publish describes one frame: the    *)
(* dirty rectangles, the slot's content and the fence belong to the same   *)
(* publish, whichever kinds of publish came in between.                    *)
SnapshotsAreFrames ==
    snapWhole => /\ snap.dirty = snap.frame
                 /\ snap.view <= snap.frame
                 /\ snap.fence \in {0, snap.frame}

(* No publish is lost on the consumer: whichever publish is the last, load *)
(* states included, the consumer ends up showing it.  (The bounds let any  *)
(* publish be the last.)  Popup paints and flush intervals other than one  *)
(* are left out, because nothing flushes the signal the consumer waits for.*)
EveryPublishShown ==
    [](popups = 0 /\ flushInterval = 1) => <>[](shown.seq = header.seq)

(* "Full copy costs ~16us at 1080p and eliminates the race entirely"       *)
(* (osr_handler.cpp:709): the consumer never reads a slot the host is      *)
(* writing to.                                                             *)
RaceEliminated ==
    shown.whole /\ shown.fence > 0 => shown.content = shown.view
=============================================================================
