----------------------- MODULE FrameTransport_proofs -----------------------
(***************************************************************************)
(* Proofs about the transport of frames, for every number of slots, with   *)
(* or without a fence, and any number of paints and load changes.          *)
(*                                                                         *)
(* The invariant has two halves.  Numbers: how far the counters, the slot  *)
(* to write and the fields of the header are through a publish.  Contents: *)
(* what lies in the slots is what the GPU's queue has left behind it, and  *)
(* the signal of a fence value is queued behind the copies it stands for.  *)
(***************************************************************************)
EXTENDS FrameTransport, TLAPS

-----------------------------------------------------------------------------
(* Numbers.                                                                *)

\* The slot of the n-th view paint.
SlotOf(n) == n % SlotCount

InFrame == uiPc \in {"dirty", "signal", "slot", "fence"}
ViewUnpublished == uiKind = "view" /\ uiPc \in {"dirty", "signal", "slot"}

\* The view paints whose slot the header has named.
Published == IF ViewUnpublished THEN views - 1 ELSE views

KindFitsPc ==
    /\ uiPc = "dirty" => uiKind = "view" /\ views > 0
    /\ InFrame => uiKind \in {"view", "popup"}
    /\ InFrame /\ uiKind = "view" => views > 0
    /\ InFrame /\ uiKind = "popup" => popups > 0
    /\ uiPc = "popupDirty" => uiKind = "popup" /\ popups > 0

Counters ==
    /\ nextFrameId = IF InFrame THEN views + popups ELSE views + popups + 1
    /\ nextGpuFenceValue = IF ~HasFence THEN 1
                           ELSE IF uiPc \in {"slot", "fence"} THEN nextFrameId + 1 ELSE nextFrameId
    /\ uiFence # 0 => HasFence /\ uiPc \in {"slot", "fence"} /\ uiFence = nextFrameId
    /\ writeSlot = SlotOf(Published)
    /\ framesSinceFlush <= IF uiKind = "view" /\ uiPc \in {"dirty", "signal"} THEN views - 1 ELSE views

HeaderFields ==
    /\ header.seq = views + popups + header.load - (IF uiPc \in {"idle", "wake"} THEN 0 ELSE 1)
    /\ header.frame = nextFrameId - 1
    /\ header.view = Published
    /\ header.slot = writeSlot
    /\ header.fence \in {0, header.frame}
    /\ header.dirty = CASE uiKind = "view" /\ uiPc \in {"signal", "slot", "fence"} -> header.frame + 1
                        [] uiPc = "popupDirty" -> header.frame - 1
                        [] OTHER -> header.frame

-----------------------------------------------------------------------------
(* Contents.                                                               *)

IsCopy(c) == c.op = "copy"
IsSignal(c) == c.op = "signal"

\* The copies in the queue are those of the last view paints, in order, each
\* bound for the slot of its number.
CopiesInOrder(q, n) ==
    /\ \A i \in DOMAIN q : IsCopy(q[i]) => q[i].view \in 1 .. n /\ q[i].slot = SlotOf(q[i].view)
    /\ \A i, j \in DOMAIN q : IsCopy(q[i]) /\ IsCopy(q[j]) /\ i < j => q[i].view < q[j].view
    /\ \A i \in DOMAIN q : \A m \in 1 .. n :
          IsCopy(q[i]) /\ q[i].view <= m => \E j \in DOMAIN q : IsCopy(q[j]) /\ q[j].view = m

\* Neither the fence nor a signal in the queue has reached the next value.
SignalsBefore(q, fence, next) ==
    /\ fence < next
    /\ \A i \in DOMAIN q : IsSignal(q[i]) => q[i].value < next

\* The copies up to the n-th are not in the queue any more.
Made(q, n) == \A i \in DOMAIN q : IsCopy(q[i]) => n < q[i].view

\* A copy that was made stays until its slot's turn comes again.
SlotsHold(q, textures, last) ==
    \A n \in 0 .. last : Made(q, n) /\ last < n + SlotCount => textures[SlotOf(n)] = n

\* The fence reaches f only when the copies up to the n-th have been made.
Behind(q, fence, f, n) ==
    /\ fence >= f => Made(q, n)
    /\ \A i, j \in DOMAIN q :
          IsCopy(q[i]) /\ q[i].view <= n /\ IsSignal(q[j]) /\ q[j].value >= f => i < j

\* A header's fence value, if any, stands for its slot's copy.
Names(q, fence, h) ==
    /\ h.slot = SlotOf(h.view)
    /\ h.fence > 0 => Behind(q, fence, h.fence, h.view)

FenceBehindCopy ==
    /\ uiPc \in {"slot", "fence"} /\ uiFence > 0 => Behind(queue, gpuFence, uiFence, views)
    /\ uiPc # "fence" => Names(queue, gpuFence, header)
    /\ snapWhole => Names(queue, gpuFence, snap)
    /\ snap.view <= views

\* The consumer began to read a copy that was made, and what its snapshot named.
ReadingNamed ==
    consPc = "reading" /\ snapWhole /\ snap.fence > 0 =>
        /\ Made(queue, snap.view)
        /\ views < snap.view + SlotCount => half = snap.view

QueueInv ==
    /\ CopiesInOrder(queue, views)
    /\ SignalsBefore(queue, gpuFence, nextGpuFenceValue)
    /\ SlotsHold(queue, slots, views)

-----------------------------------------------------------------------------
(* Arithmetic.                                                             *)

\* The slot after a number's slot is the next number's.
LEMMA NextNumbersSlot ==
    ASSUME NEW n \in Nat
    PROVE  SlotOf(n) \in Slot /\ NextSlot(SlotOf(n)) = SlotOf(n + 1)
<1> USE FrameTransportAssumption DEF FrameTransportAssumption, SlotOf
<1> DEFINE r == n % SlotCount
           q == n \div SlotCount
<1>1. r \in 0 .. SlotCount - 1 /\ q \in Nat /\ n = SlotCount * q + r
  OBVIOUS
<1>2. CASE r + 1 < SlotCount
  <2>1. n + 1 = SlotCount * q + (r + 1)
    BY <1>1
  <2>2. (n + 1) % SlotCount = r + 1
    BY <1>1, <1>2, <2>1
  <2>3. (r + 1) % SlotCount = r + 1
    BY <1>1, <1>2
  <2>4. QED
    BY <1>1, <2>2, <2>3 DEF NextSlot, Slot
<1>3. CASE r + 1 = SlotCount
  <2>1. n + 1 = SlotCount * (q + 1)
    BY <1>1, <1>3
  <2>2. (n + 1) % SlotCount = 0
    <3>1. q + 1 \in Nat
      BY <1>1
    <3>2. \A k \in Nat : (SlotCount * k) % SlotCount = 0
      OBVIOUS
    <3>3. QED
      BY <2>1, <3>1, <3>2
  <2>3. (r + 1) % SlotCount = 0
    BY <1>1, <1>3
  <2>4. QED
    BY <1>1, <2>2, <2>3 DEF NextSlot, Slot
<1>4. QED
  BY <1>1, <1>2, <1>3

\* Numbers less than the count of slots apart have different slots.
LEMMA SlotsDiffer ==
    ASSUME NEW i \in Nat, NEW j \in Nat, i < j, j - i < SlotCount
    PROVE  SlotOf(i) # SlotOf(j)
<1> USE FrameTransportAssumption DEF FrameTransportAssumption
<1> SUFFICES ASSUME SlotOf(i) = SlotOf(j) PROVE FALSE
  OBVIOUS
<1> DEFINE qi == i \div SlotCount
           qj == j \div SlotCount
<1>1. /\ qi \in Int /\ qj \in Int
      /\ i = SlotCount * qi + SlotOf(i)
      /\ j = SlotCount * qj + SlotOf(j)
      /\ SlotOf(i) \in Int
  BY DEF SlotOf
<1> HIDE DEF qi, qj
<1>2. j - i = SlotCount * (qj - qi)
  <2>1. SlotCount * (qj - qi) = SlotCount * qj - SlotCount * qi
    BY <1>1
  <2>2. SlotCount * qj \in Int /\ SlotCount * qi \in Int
    BY <1>1
  <2>3. QED
    BY <1>1, <2>1, <2>2
<1>3. CASE qj - qi >= 1
  <2>1. SlotCount * (qj - qi - 1) >= 0
    BY <1>1, <1>3
  <2>2. SlotCount * (qj - qi - 1) = SlotCount * (qj - qi) - SlotCount
    BY <1>1
  <2>3. QED
    BY <1>1, <1>2, <2>1, <2>2
<1>4. CASE qj - qi <= 0
  <2>1. SlotCount * (qj - qi) <= 0
    BY <1>1, <1>4
  <2>2. QED
    BY <1>2, <2>1
<1>5. QED
  BY <1>1, <1>3, <1>4

-----------------------------------------------------------------------------
(* Types and numbers.                                                      *)

UiTypes ==
    /\ uiPc \in {"idle", "dirty", "signal", "slot", "fence", "popupDirty", "publish", "wake"}
    /\ uiKind \in {"view", "popup", "load"}
    /\ uiFull \in BOOLEAN
    /\ uiFence \in 0 .. MaxFrames
    /\ writeSlot \in Slot
    /\ nextFrameId \in 1 .. MaxFrames + 1
    /\ nextGpuFenceValue \in 1 .. MaxFrames + 1
    /\ framesSinceFlush \in 0 .. MaxViews
    /\ flushInterval \in Nat
    /\ header \in Header
    /\ views \in 0 .. MaxViews
    /\ popups \in 0 .. MaxPopups

GpuTypes ==
    /\ queue \in Seq(Command)
    /\ flushed \in 0 .. Len(queue)
    /\ slots \in [Slot -> Content]
    /\ gpuFence \in 0 .. MaxFrames

ConsumerTypes ==
    /\ frameReady \in BOOLEAN
    /\ consPc \in {"waiting", "woken", "fenceWait", "reading"}
    /\ snap \in Header
    /\ snapWhole \in BOOLEAN
    /\ half \in Content
    /\ shown \in Shown

LEMMA TypeParts == TypeOK <=> UiTypes /\ GpuTypes /\ ConsumerTypes
BY DEF TypeOK, UiTypes, GpuTypes, ConsumerTypes

UiNumbers == UiTypes /\ KindFitsPc /\ Counters /\ HeaderFields

LEMMA UiNumbersInit == Init => UiNumbers
<1> SUFFICES ASSUME Init PROVE UiNumbers
  OBVIOUS
<1> USE FrameTransportAssumption DEF FrameTransportAssumption
<1>1. 0 \in Slot /\ 0 = SlotOf(0)
  BY DEF Slot, SlotOf
<1>2. UiTypes
  BY <1>1 DEF Init, UiTypes, NoFrame, Header, Content, MaxFrames
<1>3. KindFitsPc /\ Counters /\ HeaderFields
  BY <1>1 DEF Init, KindFitsPc, Counters, HeaderFields, InFrame, ViewUnpublished, Published, NoFrame
<1>4. QED
  BY <1>2, <1>3 DEF UiNumbers

LEMMA FrameFieldsKeepType ==
    ASSUME NEW h \in Header, NEW f \in 0 .. MaxFrames, NEW n \in 0 .. MaxFrames
    PROVE  [h EXCEPT !.fence = f, !.frame = n] \in Header
BY DEF Header

LEMMA UiNumbersStep == UiNumbers /\ [Next]_vars => UiNumbers'
<1> SUFFICES ASSUME UiNumbers, [Next]_vars PROVE UiNumbers'
  OBVIOUS
<1> USE FrameTransportAssumption
    DEF FrameTransportAssumption, UiNumbers, KindFitsPc, Counters, HeaderFields, InFrame,
        ViewUnpublished, UiTypes, Header, MaxFrames, Content
<1>1. ASSUME NEW full \in BOOLEAN, ViewCopy(full) PROVE UiNumbers'
  <2>1. /\ uiPc = "idle" /\ uiPc' = "dirty" /\ uiKind' = "view" /\ uiFull' = full
        /\ views < MaxViews /\ views' = views + 1
        /\ UNCHANGED <<uiFence, writeSlot, nextFrameId, nextGpuFenceValue, framesSinceFlush,
                       popups, flushInterval, header>>
    BY <1>1 DEF ViewCopy
  <2>2. Published' = Published
    BY <2>1 DEF Published
  <2>3. UiTypes'
    BY <2>1
  <2>4. KindFitsPc' /\ HeaderFields'
    BY <2>1, <2>2
  <2>5. Counters'
    BY <2>1, <2>2
  <2>6. QED
    BY <2>3, <2>4, <2>5
<1>2. CASE PopupCopy
  BY <1>2 DEF PopupCopy, Published
<1>3. CASE LoadChange
  BY <1>3 DEF LoadChange, Published
<1>4. CASE ViewDirty
  BY <1>4 DEF ViewDirty, Published
<1>5. ASSUME NEW signaled \in BOOLEAN, SignalFence(signaled) PROVE UiNumbers'
  <2>1. Published' = Published
    BY <1>5 DEF SignalFence, Published
  <2>2. /\ uiFence' \in {0, nextGpuFenceValue}
        /\ uiFence' # 0 => HasFence
        /\ nextGpuFenceValue' = IF HasFence THEN nextGpuFenceValue + 1 ELSE nextGpuFenceValue
        /\ framesSinceFlush' \in {framesSinceFlush, 0, framesSinceFlush + 1}
        /\ uiKind = "popup" => framesSinceFlush' = framesSinceFlush
        /\ uiPc = "signal" /\ uiPc' = "slot"
        /\ UNCHANGED <<uiKind, writeSlot, nextFrameId, views, popups, flushInterval, header>>
        /\ uiFull' = FALSE
    BY <1>5 DEF SignalFence
  <2>3. UiTypes'
    <3>1. HasFence => nextGpuFenceValue <= MaxFrames
      BY <2>2
    <3>2. nextGpuFenceValue' \in 1 .. MaxFrames + 1 /\ uiFence' \in 0 .. MaxFrames
      BY <2>2, <3>1
    <3>3. framesSinceFlush' \in 0 .. MaxViews
      BY <2>2
    <3>4. QED
      BY <2>2, <3>2, <3>3
  <2>4. KindFitsPc' /\ HeaderFields'
    BY <2>1, <2>2
  <2>5. Counters'
    <3>1. framesSinceFlush' <= views' /\ writeSlot' = SlotOf(Published')
      BY <2>1, <2>2
    <3>2. QED
      BY <2>2, <3>1
  <2>6. QED
    BY <2>3, <2>4, <2>5
<1>6. CASE PublishSlot
  <2>1. Published \in Nat /\ views \in Nat /\ Published' = views
    BY <1>6 DEF PublishSlot, Published
  <2>2. uiKind = "view" => views = Published + 1
    BY <1>6 DEF PublishSlot, Published
  <2>3. uiKind # "view" => views = Published
    BY <1>6 DEF PublishSlot, Published
  <2>4. writeSlot' = SlotOf(views) /\ writeSlot' \in Slot
    BY <1>6, <2>1, <2>2, <2>3, NextNumbersSlot DEF PublishSlot
  <2>5. UiTypes'
    BY <1>6, <2>4 DEF PublishSlot
  <2>6. KindFitsPc' /\ Counters'
    BY <1>6, <2>1, <2>4 DEF PublishSlot
  <2>7. HeaderFields'
    BY <1>6, <2>1 DEF PublishSlot
  <2>8. QED
    BY <2>5, <2>6, <2>7
<1>7. CASE PublishFence
  <2>1. Published' = Published
    BY <1>7 DEF PublishFence, Published
  <2>2. UiTypes'
    <3>1. nextFrameId <= MaxFrames
      BY <1>7 DEF PublishFence
    <3>2. nextFrameId' \in 1 .. MaxFrames + 1
      BY <1>7, <3>1 DEF PublishFence
    <3>3. header' \in Header
      <4>1. header' = [header EXCEPT !.fence = uiFence, !.frame = nextFrameId]
        BY <1>7 DEF PublishFence
      <4>2. nextFrameId \in 0 .. MaxFrames /\ uiFence \in 0 .. MaxFrames /\ header \in Header
        BY <3>1
      <4>3. QED
        BY ONLY <4>1, <4>2, FrameFieldsKeepType
    <3>4. uiPc' \in {"popupDirty", "publish"} /\ uiFence' \in 0 .. MaxFrames
      BY <1>7 DEF PublishFence
    <3>5. QED
      BY <1>7, <3>2, <3>3, <3>4 DEF PublishFence
  <2>3. KindFitsPc' /\ Counters'
    BY <1>7, <2>1 DEF PublishFence
  <2>4. HeaderFields'
    <3>1. /\ header'.seq = header.seq /\ header'.load = header.load
          /\ header'.view = header.view /\ header'.slot = header.slot
          /\ header'.dirty = header.dirty
          /\ header'.fence = uiFence /\ header'.frame = nextFrameId
      BY <1>7 DEF PublishFence
    <3>2. QED
      BY <1>7, <2>1, <3>1 DEF PublishFence
  <2>5. QED
    BY <2>2, <2>3, <2>4
<1>8. CASE PopupDirty
  BY <1>8 DEF PopupDirty, Published
<1>9. CASE PublishSequence
  BY <1>9 DEF PublishSequence, Published
<1>10. CASE WakeConsumer
  BY <1>10 DEF WakeConsumer, Published
<1>11. ASSUME NEW interval \in Intervals, SetFlushInterval(interval) PROVE UiNumbers'
  BY <1>11 DEF SetFlushInterval, uiVars, Published
<1>12. CASE GpuExecute \/ Consume
  <2>1. UNCHANGED <<uiVars, flushInterval, header>>
    BY <1>12 DEF GpuExecute, Consume, ConsumerWake, ConsumerSnapshot, ConsumerBeginRead,
                 ConsumerEndRead
  <2>2. QED
    BY <2>1 DEF uiVars, Published
<1>13. CASE UNCHANGED vars
  BY <1>13 DEF vars, uiVars, Published
<1>14. QED
  BY <1>1, <1>2, <1>3, <1>4, <1>5, <1>6, <1>7, <1>8, <1>9, <1>10, <1>11, <1>12, <1>13
     DEF Next, StartPublish, Publish

-----------------------------------------------------------------------------
(* The queue of the GPU and the consumer's copies.                         *)

\* What the host may append to the queue is a command.
LEMMA CommandTypes ==
    /\ \A s \in Slot, n \in Content : Copy(s, n) \in Command
    /\ \A v \in 1 .. MaxFrames : Signal(v) \in Command
BY DEF Copy, Signal, Command

\* Commands are either copies or signals.
LEMMA CommandKinds ==
    ASSUME NEW c \in Command
    PROVE  \/ IsCopy(c) /\ ~IsSignal(c) /\ c.slot \in Slot /\ c.view \in Content
           \/ IsSignal(c) /\ ~IsCopy(c) /\ c.value \in 1 .. MaxFrames
BY DEF Command, IsCopy, IsSignal

\* A view paint queues the copy of its number to the slot of its number.
LEMMA ViewCopyQueues ==
    ASSUME NEW full \in BOOLEAN, UiNumbers, ViewCopy(full)
    PROVE  /\ views + 1 \in Content
           /\ Copy(SlotOf(views + 1), views + 1) \in Command
           /\ queue' = Append(queue, Copy(SlotOf(views + 1), views + 1))
<1>1. views \in Nat /\ views + 1 \in Content
  BY FrameTransportAssumption DEF FrameTransportAssumption, ViewCopy, UiNumbers, UiTypes, Content
<1>2. writeSlot = SlotOf(views)
  BY DEF ViewCopy, UiNumbers, Counters, Published, ViewUnpublished
<1>3. SlotOf(views + 1) \in Slot /\ NextSlot(writeSlot) = SlotOf(views + 1)
  <2>1. views + 1 \in Nat
    BY <1>1
  <2>2. QED
    BY <1>1, <1>2, <2>1, NextNumbersSlot
<1>4. QED
  BY <1>1, <1>3, CommandTypes DEF ViewCopy

LEMMA GpuTypesStep == UiNumbers /\ GpuTypes /\ [Next]_vars => GpuTypes'
<1> SUFFICES ASSUME UiNumbers, GpuTypes, [Next]_vars PROVE GpuTypes'
  OBVIOUS
<1> USE FrameTransportAssumption DEF FrameTransportAssumption, GpuTypes
<1>1. ASSUME NEW full \in BOOLEAN, ViewCopy(full) PROVE GpuTypes'
  <2>1. \E c \in Command : queue' = Append(queue, c)
    BY <1>1, ViewCopyQueues
  <2>3. queue' \in Seq(Command) /\ Len(queue') = Len(queue) + 1
    BY <2>1
  <2>4. QED
    BY <1>1, <2>3 DEF ViewCopy
<1>2. ASSUME NEW signaled \in BOOLEAN, SignalFence(signaled) PROVE GpuTypes'
  <2>1. signaled => nextGpuFenceValue \in 1 .. MaxFrames
    BY <1>2 DEF SignalFence, UiNumbers, UiTypes, Counters, InFrame, MaxFrames
  <2>2. queue' \in Seq(Command) /\ Len(queue') >= Len(queue)
    BY <1>2, <2>1, CommandTypes DEF SignalFence, WithSignal
  <2>3. flushed' \in {Len(queue'), flushed} /\ UNCHANGED <<slots, gpuFence>>
    BY <1>2 DEF SignalFence
  <2>4. QED
    BY <2>2, <2>3
<1>3. CASE GpuExecute
  <2>1. /\ Head(queue) \in Command
        /\ queue' \in Seq(Command)
        /\ Len(queue') = Len(queue) - 1 /\ Len(queue) > 0
    BY <1>3 DEF GpuExecute
  <2>2. flushed' \in 0 .. Len(queue')
    BY <1>3, <2>1 DEF GpuExecute
  <2>3. CASE IsCopy(Head(queue))
    BY <1>3, <2>1, <2>2, <2>3, CommandKinds DEF GpuExecute, IsCopy, IsSignal
  <2>4. CASE IsSignal(Head(queue))
    BY <1>3, <2>1, <2>2, <2>4, CommandKinds DEF GpuExecute, IsCopy, IsSignal
  <2>5. QED
    BY <2>1, <2>3, <2>4, CommandKinds
<1>4. CASE UNCHANGED gpuVars
  BY <1>4 DEF gpuVars
<1>5. QED
  BY <1>1, <1>2, <1>3, <1>4
     DEF Next, StartPublish, Publish, PopupCopy, LoadChange, ViewDirty, PublishSlot, PublishFence,
         PopupDirty, PublishSequence, WakeConsumer, SetFlushInterval, Consume, ConsumerWake,
         ConsumerSnapshot, ConsumerBeginRead, ConsumerEndRead, vars

LEMMA ConsumerTypesStep ==
    UiNumbers /\ GpuTypes /\ ConsumerTypes /\ [Next]_vars => ConsumerTypes'
<1> SUFFICES ASSUME UiNumbers, GpuTypes, ConsumerTypes, [Next]_vars PROVE ConsumerTypes'
  OBVIOUS
<1> USE DEF ConsumerTypes
<1>1. CASE ConsumerWake
  BY <1>1 DEF ConsumerWake
<1>2. CASE ConsumerSnapshot
  BY <1>2 DEF ConsumerSnapshot, UiNumbers, UiTypes, HeaderWhole
<1>3. CASE ConsumerBeginRead
  <2>1. slots[snap.slot] \in Content
    BY DEF GpuTypes, Header
  <2>2. QED
    BY <1>3, <2>1 DEF ConsumerBeginRead
<1>4. CASE ConsumerEndRead
  <2>1. shown' \in Shown
    BY <1>4 DEF ConsumerEndRead, Shown, Header
  <2>2. 0 \in Content
    BY FrameTransportAssumption DEF FrameTransportAssumption, Content
  <2>3. QED
    BY <1>4, <2>1, <2>2 DEF ConsumerEndRead
<1>5. CASE WakeConsumer
  BY <1>5 DEF WakeConsumer, consVars
<1>6. CASE UNCHANGED <<consVars, frameReady>>
  BY <1>6 DEF consVars
<1>7. QED
  BY <1>1, <1>2, <1>3, <1>4, <1>5, <1>6
     DEF Next, StartPublish, Publish, ViewCopy, PopupCopy, LoadChange, ViewDirty, SignalFence,
         PublishSlot, PublishFence, PopupDirty, PublishSequence, SetFlushInterval, GpuExecute,
         Consume, vars

LEMMA TypesInit == Init => GpuTypes /\ ConsumerTypes
<1> SUFFICES ASSUME Init PROVE GpuTypes /\ ConsumerTypes
  OBVIOUS
<1> USE FrameTransportAssumption DEF FrameTransportAssumption
<1>1. 0 \in Slot /\ 0 \in Content /\ 0 \in 0 .. MaxFrames /\ 0 \in 0 .. MaxLoads
      /\ 0 \in 0 .. MaxFrames + MaxLoads
  BY DEF Slot, Content, MaxFrames
<1>2. GpuTypes
  BY <1>1 DEF Init, GpuTypes
<1>3. NoFrame \in Header /\ shown \in Shown
  BY <1>1 DEF Init, NoFrame, Header, Shown
<1>4. QED
  BY <1>1, <1>2, <1>3 DEF Init, ConsumerTypes

\* A snapshot is taken of whole headers only, or marked as torn.
LEMMA SnapshotsStep == UiNumbers /\ SnapshotsAreFrames /\ [Next]_vars => SnapshotsAreFrames'
<1> SUFFICES ASSUME UiNumbers, SnapshotsAreFrames, [Next]_vars PROVE SnapshotsAreFrames'
  OBVIOUS
<1>1. CASE ConsumerSnapshot
  <2>1. HeaderWhole => /\ header.dirty = header.frame
                       /\ header.view <= header.frame
                       /\ header.fence \in {0, header.frame}
    BY DEF HeaderWhole, UiNumbers, UiTypes, HeaderFields, Counters, Published, ViewUnpublished,
           InFrame, KindFitsPc
  <2>2. QED
    BY <1>1, <2>1 DEF ConsumerSnapshot, SnapshotsAreFrames
<1>2. CASE UNCHANGED <<snap, snapWhole>>
  BY <1>2 DEF SnapshotsAreFrames
<1>3. QED
  BY <1>1, <1>2
     DEF Next, StartPublish, Publish, ViewCopy, PopupCopy, LoadChange, ViewDirty, SignalFence,
         PublishSlot, PublishFence, PopupDirty, PublishSequence, WakeConsumer, SetFlushInterval,
         GpuExecute, Consume, ConsumerWake, ConsumerBeginRead, ConsumerEndRead, consVars, vars

-----------------------------------------------------------------------------
(* What the queue's order is worth.                                        *)

LEMMA Appended ==
    ASSUME NEW q \in Seq(Command), NEW c \in Command
    PROVE  /\ Append(q, c) \in Seq(Command)
           /\ DOMAIN q = 1 .. Len(q) /\ Len(q) \in Nat
           /\ DOMAIN Append(q, c) = 1 .. Len(q) + 1
           /\ Append(q, c)[Len(q) + 1] = c
           /\ \A i \in 1 .. Len(q) : Append(q, c)[i] = q[i]
           /\ \A i \in DOMAIN Append(q, c) :
                 i = Len(q) + 1 \/ (i \in DOMAIN q /\ Append(q, c)[i] = q[i])
<1> DEFINE a == Append(q, c)
<1>1. /\ a \in Seq(Command)
      /\ DOMAIN q = 1 .. Len(q) /\ Len(q) \in Nat
      /\ DOMAIN a = 1 .. Len(q) + 1
      /\ a[Len(q) + 1] = c
      /\ \A i \in 1 .. Len(q) : a[i] = q[i]
  OBVIOUS
<1> HIDE DEF a
<1>2. ASSUME NEW i \in DOMAIN a PROVE i = Len(q) + 1 \/ (i \in DOMAIN q /\ a[i] = q[i])
  <2>1. i \in 1 .. Len(q) + 1
    BY <1>1
  <2>2. i = Len(q) + 1 \/ i \in 1 .. Len(q)
    BY <1>1, <2>1
  <2>3. QED
    BY <1>1, <2>2
<1>3. QED
  BY <1>1, <1>2 DEF a

LEMMA Executed ==
    ASSUME NEW q \in Seq(Command), q # <<>>
    PROVE  /\ Tail(q) \in Seq(Command)
           /\ DOMAIN q = 1 .. Len(q) /\ Len(q) \in Nat \ {0}
           /\ DOMAIN Tail(q) = 1 .. Len(q) - 1
           /\ Head(q) = q[1] /\ Head(q) \in Command
           /\ \A i \in 1 .. Len(q) - 1 : Tail(q)[i] = q[i + 1]
  OBVIOUS

\* A later paint's copy, or any signal, changes nothing for what is behind it.
LEMMA BehindAppended ==
    ASSUME NEW q \in Seq(Command), NEW c \in Command, NEW fence \in Nat, NEW f \in Nat, NEW n \in Nat,
           Behind(q, fence, f, n), IsCopy(c) => n < c.view
    PROVE  Behind(Append(q, c), fence, f, n)
<1>1. IsCopy(c) => ~(c.view <= n)
  BY CommandKinds DEF Content
<1>2. \A i \in DOMAIN Append(q, c) : i = Len(q) + 1 \/ (i \in DOMAIN q /\ Append(q, c)[i] = q[i])
  BY Appended
<1>3. fence >= f => Made(Append(q, c), n)
  BY <1>2, Appended DEF Behind, Made
<1>4. ASSUME NEW i \in DOMAIN Append(q, c), NEW j \in DOMAIN Append(q, c),
             IsCopy(Append(q, c)[i]), Append(q, c)[i].view <= n,
             IsSignal(Append(q, c)[j]), Append(q, c)[j].value >= f
      PROVE  i < j
  <2>1. i \in DOMAIN q /\ Append(q, c)[i] = q[i]
    BY <1>1, <1>2, <1>4, Appended
  <2>2. CASE j = Len(q) + 1
    BY <2>1, <2>2, Appended
  <2>3. CASE j \in DOMAIN q /\ Append(q, c)[j] = q[j]
    BY <1>4, <2>1, <2>3 DEF Behind
  <2>4. QED
    BY <1>2, <2>2, <2>3
<1>5. QED
  BY <1>3, <1>4 DEF Behind

\* A value no signal has reached stands for all copies queued before it.
LEMMA BehindSignaled ==
    ASSUME NEW q \in Seq(Command), NEW fence \in Nat, NEW f \in 1 .. MaxFrames, NEW n \in Nat,
           SignalsBefore(q, fence, f)
    PROVE  Behind(Append(q, Signal(f)), fence, f, n)
<1> DEFINE a == Append(q, Signal(f))
<1>1. Signal(f) \in Command /\ ~IsCopy(Signal(f))
  BY CommandTypes DEF Signal, IsCopy
<1>2. \A i \in DOMAIN a : i = Len(q) + 1 \/ (i \in DOMAIN q /\ a[i] = q[i])
  BY <1>1, Appended
<1>3. a[Len(q) + 1] = Signal(f) /\ DOMAIN q = 1 .. Len(q) /\ Len(q) \in Nat
  BY <1>1, Appended
<1> HIDE DEF a
<1>4. ASSUME NEW i \in DOMAIN a, NEW j \in DOMAIN a,
             IsCopy(a[i]), IsSignal(a[j]), a[j].value >= f
      PROVE  i < j
  <2>1. i \in DOMAIN q
    BY <1>1, <1>2, <1>3, <1>4
  <2>2. j = Len(q) + 1
    <3>1. SUFFICES ASSUME j \in DOMAIN q, a[j] = q[j] PROVE FALSE
      BY <1>2
    <3>2. q[j] \in Command
      BY <3>1
    <3>3. q[j].value \in 1 .. MaxFrames
      BY <1>4, <3>1, <3>2, CommandKinds
    <3>4. QED
      BY <1>4, <3>1, <3>3 DEF SignalsBefore
  <2>3. QED
    BY <1>3, <2>1, <2>2
<1>5. ~(fence >= f)
  BY DEF SignalsBefore
<1>6. Behind(a, fence, f, n)
  BY <1>4, <1>5 DEF Behind
<1>7. QED
  BY <1>6 DEF a

FenceAfter(c, fence) == IF IsSignal(c) THEN c.value ELSE fence

\* The GPU takes the commands in order.
LEMMA BehindExecuted ==
    ASSUME NEW q \in Seq(Command), q # <<>>, NEW fence \in Nat, NEW f \in Nat, NEW n \in Nat,
           Behind(q, fence, f, n)
    PROVE  Behind(Tail(q), FenceAfter(Head(q), fence), f, n)
<1> DEFINE t == Tail(q)
<1>1. \A i \in DOMAIN t : i + 1 \in DOMAIN q /\ t[i] = q[i + 1] /\ i \in Nat
  BY Executed
<1>2. 1 \in DOMAIN q /\ Head(q) = q[1] /\ DOMAIN q = 1 .. Len(q)
  BY Executed
<1> HIDE DEF t
<1>3. Made(q, n) => Made(t, n)
  BY <1>1 DEF Made
<1>4. ASSUME FenceAfter(Head(q), fence) >= f PROVE Made(t, n)
  <2>1. CASE IsSignal(Head(q))
    <3>1. Made(q, n)
      <4>1. ASSUME NEW i \in DOMAIN q, IsCopy(q[i]) PROVE n < q[i].view
        <5>1. ~(q[i].view <= n)
          <6>1. SUFFICES ASSUME q[i].view <= n PROVE FALSE
            OBVIOUS
          <6>2. i < 1
            BY <1>2, <1>4, <2>1, <4>1, <6>1 DEF Behind, FenceAfter
          <6>3. QED
            BY <1>2, <6>2
        <5>2. q[i].view \in Nat
          BY <4>1, CommandKinds DEF Content
        <5>3. QED
          BY <5>1, <5>2
      <4>2. QED
        BY <4>1 DEF Made
    <3>2. QED
      BY <1>3, <3>1
  <2>2. CASE ~IsSignal(Head(q))
    BY <1>3, <1>4, <2>2 DEF Behind, FenceAfter
  <2>3. QED
    BY <2>1, <2>2
<1>5. ASSUME NEW i \in DOMAIN t, NEW j \in DOMAIN t,
             IsCopy(t[i]), t[i].view <= n, IsSignal(t[j]), t[j].value >= f
      PROVE  i < j
  <2>1. i + 1 < j + 1
    BY <1>1, <1>5 DEF Behind
  <2>2. QED
    BY <1>1, <2>1
<1>6. Behind(t, FenceAfter(Head(q), fence), f, n)
  BY <1>4, <1>5 DEF Behind
<1>7. QED
  BY <1>6 DEF t

\* The copy of the next paint goes behind the others.
LEMMA OrderCopied ==
    ASSUME NEW q \in Seq(Command), NEW n \in Nat, CopiesInOrder(q, n),
           Copy(SlotOf(n + 1), n + 1) \in Command
    PROVE  CopiesInOrder(Append(q, Copy(SlotOf(n + 1), n + 1)), n + 1)
<1> DEFINE c == Copy(SlotOf(n + 1), n + 1)
           a == Append(q, c)
<1>1. IsCopy(c) /\ c.view = n + 1 /\ c.slot = SlotOf(n + 1)
  BY DEF Copy, IsCopy
<1>2. /\ DOMAIN q = 1 .. Len(q) /\ Len(q) \in Nat
      /\ DOMAIN a = 1 .. Len(q) + 1
      /\ a[Len(q) + 1] = c
      /\ \A i \in 1 .. Len(q) : a[i] = q[i]
      /\ \A i \in DOMAIN a : i = Len(q) + 1 \/ (i \in DOMAIN q /\ a[i] = q[i])
  BY Appended
<1> HIDE DEF a, c
<1>3. \A i \in DOMAIN a : IsCopy(a[i]) => a[i].view \in 1 .. n + 1 /\ a[i].slot = SlotOf(a[i].view)
  BY <1>1, <1>2 DEF CopiesInOrder
<1>4. ASSUME NEW i \in DOMAIN a, NEW j \in DOMAIN a, IsCopy(a[i]), IsCopy(a[j]), i < j
      PROVE  a[i].view < a[j].view
  <2>1. i \in DOMAIN q /\ a[i] = q[i]
    BY <1>2, <1>4
  <2>2. a[i].view \in 1 .. n
    BY <1>4, <2>1 DEF CopiesInOrder
  <2>3. CASE j = Len(q) + 1
    BY <1>1, <1>2, <2>2, <2>3
  <2>4. CASE j \in DOMAIN q /\ a[j] = q[j]
    BY <1>4, <2>1, <2>4 DEF CopiesInOrder
  <2>5. QED
    BY <1>2, <2>3, <2>4
<1>5. ASSUME NEW i \in DOMAIN a, NEW m \in 1 .. n + 1, IsCopy(a[i]), a[i].view <= m
      PROVE  \E j \in DOMAIN a : IsCopy(a[j]) /\ a[j].view = m
  <2>1. CASE m = n + 1
    <3>1. Len(q) + 1 \in DOMAIN a
      BY <1>2
    <3>2. QED
      BY <1>1, <1>2, <2>1, <3>1
  <2>2. CASE m \in 1 .. n
    <3>1. i \in DOMAIN q /\ a[i] = q[i]
      BY <1>1, <1>2, <1>5, <2>2
    <3>2. PICK j \in DOMAIN q : IsCopy(q[j]) /\ q[j].view = m
      BY <1>5, <2>2, <3>1 DEF CopiesInOrder
    <3>3. j \in DOMAIN a /\ a[j] = q[j]
      BY <1>2
    <3>4. QED
      BY <3>2, <3>3
  <2>3. QED
    BY <2>1, <2>2
<1>6. CopiesInOrder(a, n + 1)
  BY <1>3, <1>4, <1>5 DEF CopiesInOrder
<1>7. QED
  BY <1>6 DEF a, c

\* A signal is no copy.
LEMMA OrderSignaled ==
    ASSUME NEW q \in Seq(Command), NEW n \in Nat, CopiesInOrder(q, n),
           NEW c \in Command, ~IsCopy(c)
    PROVE  CopiesInOrder(Append(q, c), n)
<1> DEFINE a == Append(q, c)
<1>1. /\ DOMAIN q = 1 .. Len(q) /\ Len(q) \in Nat
      /\ DOMAIN a = 1 .. Len(q) + 1
      /\ a[Len(q) + 1] = c
      /\ \A i \in 1 .. Len(q) : a[i] = q[i]
      /\ \A i \in DOMAIN a : i = Len(q) + 1 \/ (i \in DOMAIN q /\ a[i] = q[i])
  BY Appended
<1> HIDE DEF a
<1>2. \A i \in DOMAIN a : IsCopy(a[i]) => i \in DOMAIN q /\ a[i] = q[i]
  BY <1>1
<1>3. \A i \in DOMAIN q : i \in DOMAIN a /\ a[i] = q[i]
  BY <1>1
<1>4. CopiesInOrder(a, n)
  <2>1. ASSUME NEW i \in DOMAIN a, NEW m \in 1 .. n, IsCopy(a[i]), a[i].view <= m
        PROVE  \E j \in DOMAIN a : IsCopy(a[j]) /\ a[j].view = m
    <3>1. PICK j \in DOMAIN q : IsCopy(q[j]) /\ q[j].view = m
      BY <1>2, <2>1 DEF CopiesInOrder
    <3>2. QED
      BY <1>3, <3>1
  <2>2. \A i \in DOMAIN a : IsCopy(a[i]) => a[i].view \in 1 .. n /\ a[i].slot = SlotOf(a[i].view)
    BY <1>2 DEF CopiesInOrder
  <2>3. \A i, j \in DOMAIN a : IsCopy(a[i]) /\ IsCopy(a[j]) /\ i < j => a[i].view < a[j].view
    BY <1>2 DEF CopiesInOrder
  <2>4. QED
    BY <2>1, <2>2, <2>3 DEF CopiesInOrder
<1>5. QED
  BY <1>4 DEF a

LEMMA OrderExecuted ==
    ASSUME NEW q \in Seq(Command), q # <<>>, NEW n \in Nat, CopiesInOrder(q, n)
    PROVE  CopiesInOrder(Tail(q), n)
<1> DEFINE t == Tail(q)
<1>1. /\ DOMAIN q = 1 .. Len(q) /\ Len(q) \in Nat \ {0}
      /\ DOMAIN t = 1 .. Len(q) - 1
      /\ \A i \in 1 .. Len(q) - 1 : t[i] = q[i + 1]
  BY Executed
<1> HIDE DEF t
<1>2. \A i \in DOMAIN t : i \in Nat /\ i + 1 \in DOMAIN q /\ t[i] = q[i + 1]
  BY <1>1
<1>3. \A i \in DOMAIN t : IsCopy(t[i]) => t[i].view \in 1 .. n /\ t[i].slot = SlotOf(t[i].view)
  BY <1>2 DEF CopiesInOrder
<1>4. ASSUME NEW i \in DOMAIN t, NEW j \in DOMAIN t, IsCopy(t[i]), IsCopy(t[j]), i < j
      PROVE  t[i].view < t[j].view
  <2>1. i + 1 < j + 1
    BY <1>2, <1>4
  <2>2. QED
    BY <1>2, <1>4, <2>1 DEF CopiesInOrder
<1>5. ASSUME NEW i \in DOMAIN t, NEW m \in 1 .. n, IsCopy(t[i]), t[i].view <= m
      PROVE  \E j \in DOMAIN t : IsCopy(t[j]) /\ t[j].view = m
  <2>1. PICK j \in DOMAIN q : IsCopy(q[j]) /\ q[j].view = m
    BY <1>2, <1>5 DEF CopiesInOrder
  <2>2. j # 1
    <3>1. SUFFICES ASSUME j = 1 PROVE FALSE
      OBVIOUS
    <3>2. 1 < i + 1
      BY <1>1
    <3>3. m < t[i].view
      BY <1>2, <1>5, <2>1, <3>1, <3>2 DEF CopiesInOrder
    <3>4. t[i].view \in Nat
      BY <1>3, <1>5
    <3>5. QED
      BY <1>5, <3>3, <3>4
  <2>3. j - 1 \in DOMAIN t /\ t[j - 1] = q[j]
    BY <1>1, <2>2
  <2>4. QED
    BY <2>1, <2>3
<1>6. CopiesInOrder(t, n)
  BY <1>3, <1>4, <1>5 DEF CopiesInOrder
<1>7. QED
  BY <1>6 DEF t

\* What is made of a longer queue was made before.
LEMMA MadeAppended ==
    ASSUME NEW q \in Seq(Command), NEW c \in Command, NEW n \in Nat
    PROVE  /\ Made(Append(q, c), n) => Made(q, n)
           /\ Made(q, n) /\ (IsCopy(c) => n < c.view) => Made(Append(q, c), n)
<1> DEFINE a == Append(q, c)
<1>1. /\ DOMAIN q = 1 .. Len(q) /\ Len(q) \in Nat
      /\ DOMAIN a = 1 .. Len(q) + 1
      /\ a[Len(q) + 1] = c
      /\ \A i \in 1 .. Len(q) : a[i] = q[i]
      /\ \A i \in DOMAIN a : i = Len(q) + 1 \/ (i \in DOMAIN q /\ a[i] = q[i])
  BY Appended
<1> HIDE DEF a
<1>2. \A i \in DOMAIN q : i \in DOMAIN a /\ a[i] = q[i]
  BY <1>1
<1>3. Made(a, n) => Made(q, n)
  BY <1>2 DEF Made
<1>4. Made(q, n) /\ (IsCopy(c) => n < c.view) => Made(a, n)
  BY <1>1 DEF Made
<1>5. QED
  BY <1>3, <1>4 DEF a

LEMMA SlotsCopied ==
    ASSUME NEW q \in Seq(Command), NEW textures, NEW n \in Nat, SlotsHold(q, textures, n),
           Copy(SlotOf(n + 1), n + 1) \in Command
    PROVE  SlotsHold(Append(q, Copy(SlotOf(n + 1), n + 1)), textures, n + 1)
<1> DEFINE c == Copy(SlotOf(n + 1), n + 1)
<1>1. IsCopy(c) /\ c.view = n + 1
  BY DEF Copy, IsCopy
<1>2. SUFFICES ASSUME NEW m \in 0 .. n + 1, Made(Append(q, c), m), n + 1 < m + SlotCount
               PROVE  textures[SlotOf(m)] = m
  BY DEF SlotsHold
<1>3. m < c.view
  BY <1>1, <1>2, Appended DEF Made
<1>4. m \in 0 .. n /\ n < m + SlotCount
  BY <1>1, <1>2, <1>3, FrameTransportAssumption DEF FrameTransportAssumption
<1>5. Made(q, m)
  BY <1>2, MadeAppended
<1>6. QED
  BY <1>4, <1>5 DEF SlotsHold

LEMMA SlotsSignaled ==
    ASSUME NEW q \in Seq(Command), NEW textures, NEW n \in Nat, SlotsHold(q, textures, n),
           NEW c \in Command
    PROVE  SlotsHold(Append(q, c), textures, n)
<1>1. SUFFICES ASSUME NEW m \in 0 .. n, Made(Append(q, c), m), n < m + SlotCount
               PROVE  textures[SlotOf(m)] = m
  BY DEF SlotsHold
<1>2. Made(q, m)
  BY <1>1, MadeAppended
<1>3. QED
  BY <1>1, <1>2 DEF SlotsHold

TexturesAfter(c, textures) ==
    IF IsCopy(c) THEN [textures EXCEPT ![c.slot] = c.view] ELSE textures

\* The copy that is made next is that of the next number, and overwrites none
\* of the SlotCount - 1 before it.
LEMMA SlotsExecuted ==
    ASSUME NEW q \in Seq(Command), q # <<>>, NEW textures \in [Slot -> Content], NEW n \in Nat,
           CopiesInOrder(q, n), SlotsHold(q, textures, n)
    PROVE  SlotsHold(Tail(q), TexturesAfter(Head(q), textures), n)
<1> DEFINE t == Tail(q)
           h == Head(q)
<1>1. /\ DOMAIN q = 1 .. Len(q) /\ Len(q) \in Nat \ {0}
      /\ DOMAIN t = 1 .. Len(q) - 1
      /\ \A i \in 1 .. Len(q) - 1 : t[i] = q[i + 1]
      /\ h = q[1] /\ h \in Command
  BY Executed
<1> HIDE DEF t, h
<1>2. \A i \in DOMAIN q : i = 1 \/ (i - 1 \in DOMAIN t /\ t[i - 1] = q[i])
  <2>1. SUFFICES ASSUME NEW i \in DOMAIN q, i # 1 PROVE i - 1 \in DOMAIN t /\ t[i - 1] = q[i]
    OBVIOUS
  <2>2. i - 1 \in 1 .. Len(q) - 1 /\ (i - 1) + 1 = i
    BY <1>1, <2>1
  <2>3. QED
    BY <1>1, <2>2
<1>3. SUFFICES ASSUME NEW m \in 0 .. n, Made(t, m), n < m + SlotCount
               PROVE  TexturesAfter(h, textures)[SlotOf(m)] = m
  BY DEF SlotsHold, t, h
<1>4. 1 \in DOMAIN q /\ m \in Nat
  BY <1>1
<1>5. CASE ~IsCopy(h)
  <2>1. Made(q, m)
    BY <1>1, <1>2, <1>3, <1>5 DEF Made
  <2>2. QED
    BY <1>3, <1>5, <2>1 DEF SlotsHold, TexturesAfter
<1>6. CASE IsCopy(h)
  <2>1. h.view \in 1 .. n /\ h.slot = SlotOf(h.view)
    BY <1>1, <1>4, <1>6 DEF CopiesInOrder
  <2>2. SlotOf(h.view) \in Slot /\ SlotOf(m) \in Slot
    <3>1. h.view \in Nat
      BY <2>1
    <3>2. QED
      BY <1>4, <3>1, NextNumbersSlot
  <2>3. CASE m < h.view
    <3>1. Made(q, m)
      BY <1>1, <1>2, <1>3, <2>3 DEF Made
    <3>2. textures[SlotOf(m)] = m
      BY <1>3, <3>1 DEF SlotsHold
    <3>3. h.view - m < SlotCount
      BY <1>3, <1>4, <2>1, FrameTransportAssumption DEF FrameTransportAssumption
    <3>4. SlotOf(m) # SlotOf(h.view)
      BY <1>4, <2>1, <2>3, <3>3, SlotsDiffer
    <3>5. QED
      BY <1>6, <2>1, <2>2, <3>2, <3>4 DEF TexturesAfter
  <2>4. CASE h.view <= m
    <3>1. m \in 1 .. n
      BY <1>4, <2>1, <2>4
    <3>2. PICK j \in DOMAIN q : IsCopy(q[j]) /\ q[j].view = m
      BY <1>1, <1>4, <1>6, <2>4, <3>1 DEF CopiesInOrder
    <3>3. j = 1
      <4>1. SUFFICES ASSUME j # 1 PROVE FALSE
        OBVIOUS
      <4>2. m < m
        BY <1>2, <1>3, <3>2, <4>1 DEF Made
      <4>3. QED
        BY <1>4, <4>2
    <3>4. QED
      BY <1>1, <1>6, <2>1, <2>2, <3>2, <3>3 DEF TexturesAfter
  <2>5. QED
    BY <1>4, <2>1, <2>3, <2>4
<1>7. QED
  BY <1>5, <1>6

LEMMA NamesAppended ==
    ASSUME NEW q \in Seq(Command), NEW c \in Command, NEW fence \in Nat, NEW h \in Header,
           Names(q, fence, h), IsCopy(c) => h.view < c.view
    PROVE  Names(Append(q, c), fence, h)
<1>1. h.fence \in Nat /\ h.view \in Nat
  BY FrameTransportAssumption DEF FrameTransportAssumption, Header, Content
<1>2. QED
  BY <1>1, BehindAppended DEF Names

LEMMA NamesExecuted ==
    ASSUME NEW q \in Seq(Command), q # <<>>, NEW fence \in Nat, NEW h \in Header, Names(q, fence, h)
    PROVE  Names(Tail(q), FenceAfter(Head(q), fence), h)
<1>1. h.fence \in Nat /\ h.view \in Nat
  BY FrameTransportAssumption DEF FrameTransportAssumption, Header, Content
<1>2. QED
  BY <1>1, BehindExecuted DEF Names

LEMMA MadeExecuted ==
    ASSUME NEW q \in Seq(Command), q # <<>>, NEW n \in Nat, Made(q, n)
    PROVE  Made(Tail(q), n)
<1>1. \A i \in DOMAIN Tail(q) : i + 1 \in DOMAIN q /\ Tail(q)[i] = q[i + 1]
  BY Executed
<1>2. QED
  BY <1>1 DEF Made

LEMMA SignalsAppended ==
    ASSUME NEW q \in Seq(Command), NEW c \in Command, NEW fence \in Nat, NEW n \in Nat, NEW m \in Nat,
           SignalsBefore(q, fence, n), n <= m, IsSignal(c) => c.value < m
    PROVE  SignalsBefore(Append(q, c), fence, m)
<1>1. \A i \in DOMAIN q : IsSignal(q[i]) => q[i].value < m
  <2>1. SUFFICES ASSUME NEW i \in DOMAIN q, IsSignal(q[i]) PROVE q[i].value < m
    OBVIOUS
  <2>2. q[i].value \in 1 .. MaxFrames
    BY <2>1, CommandKinds
  <2>3. q[i].value < n
    BY <2>1 DEF SignalsBefore
  <2>4. QED
    BY <2>2, <2>3
<1>2. QED
  BY <1>1, Appended DEF SignalsBefore

LEMMA SignalsExecuted ==
    ASSUME NEW q \in Seq(Command), q # <<>>, NEW fence \in Nat, NEW n \in Nat,
           SignalsBefore(q, fence, n)
    PROVE  SignalsBefore(Tail(q), FenceAfter(Head(q), fence), n)
<1>1. \A i \in DOMAIN Tail(q) : i + 1 \in DOMAIN q /\ Tail(q)[i] = q[i + 1]
  BY Executed
<1>2. 1 \in DOMAIN q /\ Head(q) = q[1]
  BY Executed
<1>3. QED
  BY <1>1, <1>2 DEF SignalsBefore, FenceAfter

-----------------------------------------------------------------------------
(* The steps of the host, the GPU and the consumer.                        *)

\* What the Numbers say where the Contents need it.
LEMMA Facts ==
    ASSUME UiNumbers, GpuTypes, ConsumerTypes
    PROVE  /\ views \in Nat /\ gpuFence \in Nat /\ nextGpuFenceValue \in Nat
           /\ nextGpuFenceValue <= MaxFrames + 1
           /\ header.view \in Nat /\ header.view <= views
           /\ snap.view \in Nat /\ snap.slot \in Slot /\ snap.fence \in Nat
           /\ uiPc = "signal" /\ HasFence => nextGpuFenceValue \in 1 .. MaxFrames
           /\ SlotCount \in Nat \ {0}
<1> USE FrameTransportAssumption
    DEF FrameTransportAssumption, UiNumbers, UiTypes, GpuTypes, ConsumerTypes, Content, MaxFrames
<1>1. views \in Nat /\ gpuFence \in Nat /\ nextGpuFenceValue \in Nat /\ SlotCount \in Nat \ {0}
      /\ nextGpuFenceValue <= MaxFrames + 1
  OBVIOUS
<1>2. snap.view \in Nat /\ snap.slot \in Slot /\ snap.fence \in Nat
  BY DEF Header
<1>3. header.view \in Nat /\ header.view <= views
  <2>1. ViewUnpublished => views > 0
    BY DEF KindFitsPc, ViewUnpublished, InFrame
  <2>2. Published \in Nat /\ Published <= views
    BY <1>1, <2>1 DEF Published
  <2>3. QED
    BY <2>2 DEF HeaderFields
<1>4. uiPc = "signal" /\ HasFence => nextGpuFenceValue \in 1 .. MaxFrames
  BY DEF Counters, InFrame
<1>5. QED
  BY <1>1, <1>2, <1>3, <1>4

ContentsInv == QueueInv /\ FenceBehindCopy /\ ReadingNamed /\ SlotIntact
Types == UiNumbers /\ GpuTypes /\ ConsumerTypes
TransportInv == Types /\ SnapshotsAreFrames /\ ContentsInv

\* A view paint: its copy is not made, and all else is of earlier copies.
LEMMA ContentsViewCopy ==
    ASSUME NEW full \in BOOLEAN, Types, ContentsInv, ViewCopy(full)
    PROVE  ContentsInv'
<1> DEFINE c == Copy(SlotOf(views + 1), views + 1)
<1>1. c \in Command /\ queue' = Append(queue, c) /\ queue \in Seq(Command)
  BY ViewCopyQueues DEF Types, GpuTypes
<1>2. IsCopy(c) /\ ~IsSignal(c) /\ c.view = views + 1
  BY DEF Copy, IsCopy, IsSignal
<1>3. /\ views' = views + 1 /\ uiPc' = "dirty" /\ uiPc = "idle"
      /\ UNCHANGED <<uiFence, header, gpuFence, nextGpuFenceValue, slots, snap, snapWhole, half,
                     consPc, shown>>
  BY DEF ViewCopy, consVars
<1>4. /\ views \in Nat /\ gpuFence \in Nat /\ nextGpuFenceValue \in Nat
      /\ header.view \in Nat /\ header.view <= views /\ snap.view \in Nat
      /\ SlotCount \in Nat \ {0}
      /\ header \in Header /\ snap \in Header
  BY Facts DEF Types, UiNumbers, UiTypes, ConsumerTypes
<1>5. QueueInv'
  <2>1. CopiesInOrder(Append(queue, c), views + 1)
    BY <1>1, <1>4, OrderCopied DEF ContentsInv, QueueInv
  <2>2. SignalsBefore(Append(queue, c), gpuFence, nextGpuFenceValue)
    BY <1>1, <1>2, <1>4, SignalsAppended DEF ContentsInv, QueueInv
  <2>3. SlotsHold(Append(queue, c), slots, views + 1)
    BY <1>1, <1>4, SlotsCopied DEF ContentsInv, QueueInv
  <2>4. QED
    BY <1>1, <1>3, <2>1, <2>2, <2>3 DEF QueueInv
<1>6. snap.view <= views
  BY DEF ContentsInv, FenceBehindCopy
<1> HIDE DEF c
<1>7. FenceBehindCopy'
  <2>1. Names(Append(queue, c), gpuFence, header)
    BY <1>1, <1>2, <1>3, <1>4, NamesAppended DEF ContentsInv, FenceBehindCopy
  <2>2. snapWhole => Names(Append(queue, c), gpuFence, snap)
    BY <1>1, <1>2, <1>4, <1>6, NamesAppended DEF ContentsInv, FenceBehindCopy
  <2>3. QED
    BY <1>1, <1>3, <1>4, <1>6, <2>1, <2>2 DEF FenceBehindCopy
<1>8. ReadingNamed'
  <2>1. Made(queue, snap.view) => Made(Append(queue, c), snap.view)
    BY <1>1, <1>2, <1>4, <1>6, MadeAppended
  <2>2. QED
    BY <1>1, <1>3, <1>4, <2>1 DEF ContentsInv, ReadingNamed
<1>9. SlotIntact'
  <2>1. shown.view \in Nat
    BY DEF Types, ConsumerTypes, Shown, Content
  <2>2. QED
    BY <1>3, <1>4, <2>1 DEF ContentsInv, SlotIntact
<1>10. QED
  BY <1>5, <1>7, <1>8, <1>9 DEF ContentsInv

\* The signal of the publish goes behind every copy.
LEMMA ContentsSignal ==
    ASSUME NEW signaled \in BOOLEAN, Types, ContentsInv, SignalFence(signaled)
    PROVE  ContentsInv'
<1> DEFINE v == nextGpuFenceValue
           c == Signal(v)
<1>1. /\ uiPc = "signal" /\ uiPc' = "slot" /\ uiFence' = (IF signaled THEN v ELSE 0)
      /\ queue' = (IF signaled THEN Append(queue, c) ELSE queue)
      /\ signaled => HasFence /\ v' = v + 1
      /\ v' \in {v, v + 1}
      /\ UNCHANGED <<views, header, gpuFence, slots, snap, snapWhole, half, consPc, shown>>
  BY DEF SignalFence, WithSignal, consVars
<1>2. /\ views \in Nat /\ gpuFence \in Nat /\ v \in Nat
      /\ snap.view \in Nat /\ snap \in Header /\ header \in Header
      /\ queue \in Seq(Command)
      /\ signaled => v \in 1 .. MaxFrames
  BY <1>1, Facts DEF Types, UiNumbers, UiTypes, ConsumerTypes, GpuTypes
<1>3. signaled => c \in Command
  BY <1>2, CommandTypes
<1>4. IsSignal(c) /\ ~IsCopy(c) /\ c.value = v
  BY DEF Signal, IsSignal, IsCopy
<1> HIDE DEF c, v
<1>5. CASE signaled
  <2>1. QueueInv'
    <3>1. CopiesInOrder(queue', views)
      BY <1>1, <1>2, <1>3, <1>4, <1>5, OrderSignaled DEF ContentsInv, QueueInv
    <3>2. SlotsHold(queue', slots, views)
      BY <1>1, <1>2, <1>3, <1>5, SlotsSignaled DEF ContentsInv, QueueInv
    <3>3. SignalsBefore(queue', gpuFence, v + 1)
      BY <1>1, <1>2, <1>3, <1>4, <1>5, SignalsAppended DEF ContentsInv, QueueInv, v
    <3>4. QED
      BY <1>1, <1>5, <3>1, <3>2, <3>3 DEF QueueInv, v
  <2>2. Behind(queue', gpuFence, v, views)
    BY <1>1, <1>2, <1>5, BehindSignaled DEF ContentsInv, QueueInv, c, v
  <2>3. Names(queue', gpuFence, header)
    BY <1>1, <1>2, <1>3, <1>4, <1>5, NamesAppended DEF ContentsInv, FenceBehindCopy
  <2>4. snapWhole => Names(queue', gpuFence, snap)
    BY <1>1, <1>2, <1>3, <1>4, <1>5, NamesAppended DEF ContentsInv, FenceBehindCopy
  <2>5. FenceBehindCopy'
    BY <1>1, <1>5, <2>2, <2>3, <2>4 DEF ContentsInv, FenceBehindCopy
  <2>6. ReadingNamed'
    BY <1>1, <1>2, <1>3, <1>4, <1>5, MadeAppended DEF ContentsInv, ReadingNamed
  <2>7. SlotIntact'
    BY <1>1 DEF ContentsInv, SlotIntact
  <2>8. QED
    BY <2>1, <2>5, <2>6, <2>7 DEF ContentsInv
<1>6. CASE ~signaled
  <2>1. QueueInv'
    <3>1. SignalsBefore(queue, gpuFence, v')
      <4>1. \A x \in Nat : SignalsBefore(queue, gpuFence, x) => SignalsBefore(queue, gpuFence, x + 1)
        <5>1. SUFFICES ASSUME NEW x \in Nat, SignalsBefore(queue, gpuFence, x),
                              NEW i \in DOMAIN queue, IsSignal(queue[i])
                       PROVE  queue[i].value < x + 1
          BY <1>2 DEF SignalsBefore
        <5>2. queue[i].value \in 1 .. MaxFrames
          BY <1>2, <5>1, CommandKinds
        <5>3. QED
          BY <5>1, <5>2 DEF SignalsBefore
      <4>2. QED
        BY <1>1, <1>2, <4>1 DEF ContentsInv, QueueInv, v
    <3>2. QED
      BY <1>1, <1>6, <3>1 DEF ContentsInv, QueueInv, v
  <2>2. FenceBehindCopy'
    BY <1>1, <1>6 DEF ContentsInv, FenceBehindCopy
  <2>3. ReadingNamed' /\ SlotIntact'
    BY <1>1, <1>6 DEF ContentsInv, ReadingNamed, SlotIntact
  <2>4. QED
    BY <2>1, <2>2, <2>3 DEF ContentsInv
<1>7. QED
  BY <1>5, <1>6

\* The host turns to the next slot: nothing the consumer relies on changes.
LEMMA ContentsPublishSlot ==
    ASSUME Types, ContentsInv, PublishSlot
    PROVE  ContentsInv'
<1>1. /\ uiPc = "slot" /\ uiPc' = "fence"
      /\ UNCHANGED <<uiFence, nextGpuFenceValue, views, queue, slots, gpuFence,
                     consPc, snap, snapWhole, half, shown>>
  BY DEF PublishSlot, gpuVars, consVars
<1>2. QueueInv' /\ ReadingNamed' /\ SlotIntact'
  BY <1>1 DEF ContentsInv, QueueInv, ReadingNamed, SlotIntact
<1>3. FenceBehindCopy'
  BY <1>1 DEF ContentsInv, FenceBehindCopy
<1>4. QED
  BY <1>2, <1>3 DEF ContentsInv

\* The header's fence value catches up with its slot: both are of the last view.
LEMMA ContentsPublishFence ==
    ASSUME Types, ContentsInv, PublishFence
    PROVE  ContentsInv'
<1>1. /\ uiPc = "fence" /\ uiPc' # "fence" /\ uiPc' # "slot" /\ uiFence' = 0
      /\ header' = [header EXCEPT !.fence = uiFence, !.frame = nextFrameId]
      /\ UNCHANGED <<nextGpuFenceValue, views, queue, slots, gpuFence,
                     consPc, snap, snapWhole, half, shown>>
  BY DEF PublishFence, gpuVars, consVars
<1>2. QueueInv' /\ ReadingNamed' /\ SlotIntact'
  BY <1>1 DEF ContentsInv, QueueInv, ReadingNamed, SlotIntact
<1>3. /\ header'.fence = uiFence /\ header'.view = header.view /\ header'.slot = header.slot
  BY <1>1 DEF Types, UiNumbers, UiTypes, Header
<1>4. header.view = views /\ header.slot = SlotOf(views)
  BY <1>1 DEF Types, UiNumbers, HeaderFields, Counters, Published, ViewUnpublished
<1>5. Names(queue, gpuFence, header')
  BY <1>1, <1>3, <1>4 DEF ContentsInv, FenceBehindCopy, Names
<1>6. FenceBehindCopy'
  BY <1>1, <1>5 DEF ContentsInv, FenceBehindCopy
<1>7. QED
  BY <1>2, <1>6 DEF ContentsInv

\* Whatever else the host does leaves what the header names alone.
LEMMA ContentsKept ==
    ASSUME Types, ContentsInv,
           UNCHANGED <<nextGpuFenceValue, views, queue, slots, gpuFence, uiFence,
                       snap, snapWhole, half, shown>>,
           uiPc # "fence", uiPc' \in {"slot", "fence"} => uiPc' = uiPc,
           consPc' = "reading" => consPc = "reading",
           header'.slot = header.slot, header'.view = header.view, header'.fence = header.fence
    PROVE  ContentsInv'
<1>1. QueueInv' /\ ReadingNamed' /\ SlotIntact'
  BY DEF ContentsInv, QueueInv, ReadingNamed, SlotIntact
<1>2. Names(queue, gpuFence, header')
  BY DEF ContentsInv, FenceBehindCopy, Names
<1>3. FenceBehindCopy'
  BY <1>2 DEF ContentsInv, FenceBehindCopy
<1>4. QED
  BY <1>1, <1>3 DEF ContentsInv

\* The oldest command is run: a copy fills its slot, a signal raises the fence.
LEMMA ContentsExecute ==
    ASSUME Types, ContentsInv, GpuExecute
    PROVE  ContentsInv'
<1> DEFINE c == Head(queue)
<1>1. /\ queue # <<>> /\ queue' = Tail(queue)
      /\ slots' = TexturesAfter(c, slots) /\ gpuFence' = FenceAfter(c, gpuFence)
      /\ UNCHANGED <<uiPc, uiFence, nextGpuFenceValue, views, header,
                     consPc, snap, snapWhole, half, shown>>
  BY DEF GpuExecute, TexturesAfter, FenceAfter, IsCopy, IsSignal, uiVars, consVars
<1>2. /\ views \in Nat /\ gpuFence \in Nat /\ nextGpuFenceValue \in Nat
      /\ queue \in Seq(Command) /\ slots \in [Slot -> Content]
      /\ header \in Header /\ snap \in Header /\ snap.view \in Nat /\ uiFence \in Nat
  BY Facts DEF Types, UiNumbers, UiTypes, GpuTypes, ConsumerTypes
<1> HIDE DEF c
<1>3. QueueInv'
  <2>1. CopiesInOrder(Tail(queue), views)
    BY <1>1, <1>2, OrderExecuted DEF ContentsInv, QueueInv
  <2>2. SignalsBefore(Tail(queue), FenceAfter(c, gpuFence), nextGpuFenceValue)
    BY <1>1, <1>2, SignalsExecuted DEF ContentsInv, QueueInv, c
  <2>3. SlotsHold(Tail(queue), TexturesAfter(c, slots), views)
    BY <1>1, <1>2, SlotsExecuted DEF ContentsInv, QueueInv, c
  <2>4. QED
    BY <1>1, <2>1, <2>2, <2>3 DEF QueueInv
<1>4. FenceBehindCopy'
  <2>1. uiPc \in {"slot", "fence"} /\ uiFence > 0
        => Behind(Tail(queue), FenceAfter(c, gpuFence), uiFence, views)
    BY <1>1, <1>2, BehindExecuted DEF ContentsInv, FenceBehindCopy, c
  <2>2. uiPc # "fence" => Names(Tail(queue), FenceAfter(c, gpuFence), header)
    BY <1>1, <1>2, NamesExecuted DEF ContentsInv, FenceBehindCopy, c
  <2>3. snapWhole => Names(Tail(queue), FenceAfter(c, gpuFence), snap)
    BY <1>1, <1>2, NamesExecuted DEF ContentsInv, FenceBehindCopy, c
  <2>4. QED
    BY <1>1, <2>1, <2>2, <2>3 DEF ContentsInv, FenceBehindCopy
<1>5. ReadingNamed'
  <2>1. Made(queue, snap.view) => Made(Tail(queue), snap.view)
    BY <1>1, <1>2, MadeExecuted
  <2>2. QED
    BY <1>1, <2>1 DEF ContentsInv, ReadingNamed
<1>6. SlotIntact'
  BY <1>1 DEF ContentsInv, SlotIntact
<1>7. QED
  BY <1>3, <1>4, <1>5, <1>6 DEF ContentsInv

\* The consumer copies the header.
LEMMA ContentsSnapshot ==
    ASSUME Types, ContentsInv, ConsumerSnapshot
    PROVE  ContentsInv'
<1>1. /\ consPc' # "reading" /\ snap' = header /\ snapWhole' = HeaderWhole
      /\ UNCHANGED <<uiPc, uiFence, nextGpuFenceValue, views, queue, slots, gpuFence,
                     header, half, shown>>
  BY DEF ConsumerSnapshot, uiVars, gpuVars
<1>2. header.view <= views
  BY Facts DEF Types
<1>3. snapWhole' => uiPc # "fence"
  BY <1>1 DEF HeaderWhole
<1>4. QueueInv' /\ ReadingNamed' /\ SlotIntact'
  BY <1>1 DEF ContentsInv, QueueInv, ReadingNamed, SlotIntact
<1>5. FenceBehindCopy'
  BY <1>1, <1>2, <1>3 DEF ContentsInv, FenceBehindCopy
<1>6. QED
  BY <1>4, <1>5 DEF ContentsInv

\* The fence has the value: the copy was made, and its slot still holds it.
LEMMA ContentsBeginRead ==
    ASSUME Types, ContentsInv, ConsumerBeginRead
    PROVE  ContentsInv'
<1>1. /\ gpuFence >= snap.fence /\ half' = slots[snap.slot]
      /\ UNCHANGED <<uiPc, uiFence, nextGpuFenceValue, views, queue, slots, gpuFence,
                     header, snap, snapWhole, shown>>
  BY DEF ConsumerBeginRead, uiVars, gpuVars
<1>2. views \in Nat /\ snap.view \in Nat /\ SlotCount \in Nat \ {0} /\ snap.view <= views
  BY Facts DEF Types, ContentsInv, FenceBehindCopy
<1>3. ASSUME snapWhole, snap.fence > 0
      PROVE  /\ Made(queue, snap.view)
             /\ views < snap.view + SlotCount => half' = snap.view
  <2>1. snap.slot = SlotOf(snap.view) /\ Behind(queue, gpuFence, snap.fence, snap.view)
    BY <1>3 DEF ContentsInv, FenceBehindCopy, Names
  <2>2. Made(queue, snap.view)
    BY <1>1, <2>1 DEF Behind
  <2>3. snap.view \in 0 .. views
    BY <1>2
  <2>4. views < snap.view + SlotCount => slots[SlotOf(snap.view)] = snap.view
    BY <2>2, <2>3 DEF ContentsInv, QueueInv, SlotsHold
  <2>5. QED
    BY <1>1, <2>1, <2>2, <2>4
<1>4. ReadingNamed'
  BY <1>1, <1>3 DEF ReadingNamed
<1>5. QueueInv' /\ FenceBehindCopy' /\ SlotIntact'
  BY <1>1 DEF ContentsInv, QueueInv, FenceBehindCopy, SlotIntact
<1>6. QED
  BY <1>4, <1>5 DEF ContentsInv

\* The read ends: the slot still holds what the read began with.
LEMMA ContentsEndRead ==
    ASSUME Types, ContentsInv, ConsumerEndRead
    PROVE  ContentsInv'
<1>1. /\ consPc = "reading" /\ consPc' = "waiting"
      /\ shown'.whole = snapWhole /\ shown'.fence = snap.fence /\ shown'.view = snap.view
      /\ shown'.content = (IF slots[snap.slot] = half THEN half ELSE Torn)
      /\ UNCHANGED <<uiPc, uiFence, nextGpuFenceValue, views, queue, slots, gpuFence,
                     header, snap, snapWhole>>
  BY DEF ConsumerEndRead, uiVars, gpuVars
<1>2. views \in Nat /\ snap.view \in Nat /\ SlotCount \in Nat \ {0} /\ snap.view <= views
  BY Facts DEF Types, ContentsInv, FenceBehindCopy
<1>3. ASSUME snapWhole, snap.fence > 0, views - snap.view < SlotCount
      PROVE  slots[snap.slot] = snap.view /\ half = snap.view
  <2>1. views < snap.view + SlotCount
    BY <1>2, <1>3
  <2>2. Made(queue, snap.view) /\ half = snap.view
    BY <1>1, <1>3, <2>1 DEF ContentsInv, ReadingNamed
  <2>3. snap.slot = SlotOf(snap.view)
    BY <1>3 DEF ContentsInv, FenceBehindCopy, Names
  <2>4. snap.view \in 0 .. views
    BY <1>2
  <2>5. slots[SlotOf(snap.view)] = snap.view
    BY <2>1, <2>2, <2>4 DEF ContentsInv, QueueInv, SlotsHold
  <2>6. QED
    BY <2>2, <2>3, <2>5
<1>4. SlotIntact'
  BY <1>1, <1>3 DEF SlotIntact
<1>5. QueueInv' /\ FenceBehindCopy' /\ ReadingNamed'
  BY <1>1 DEF ContentsInv, QueueInv, FenceBehindCopy, ReadingNamed
<1>6. QED
  BY <1>4, <1>5 DEF ContentsInv

LEMMA ContentsInit == Init => ContentsInv
<1> SUFFICES ASSUME Init PROVE ContentsInv
  OBVIOUS
<1> USE FrameTransportAssumption DEF FrameTransportAssumption, Init
<1>1. SlotOf(0) = 0 /\ 0 \in Slot /\ DOMAIN queue = {}
  BY DEF SlotOf, Slot
<1>2. QueueInv
  BY <1>1 DEF QueueInv, CopiesInOrder, SignalsBefore, SlotsHold
<1>3. FenceBehindCopy /\ ReadingNamed /\ SlotIntact
  BY <1>1 DEF FenceBehindCopy, Names, NoFrame, ReadingNamed, SlotIntact
<1>4. QED
  BY <1>2, <1>3 DEF ContentsInv

LEMMA ContentsStep == Types /\ ContentsInv /\ [Next]_vars => ContentsInv'
<1> SUFFICES ASSUME Types, ContentsInv, [Next]_vars PROVE ContentsInv'
  OBVIOUS
<1>1. header \in Header
  BY DEF Types, UiNumbers, UiTypes
<1>2. CASE ViewDirty \/ PopupCopy \/ PopupDirty \/ LoadChange \/ PublishSequence \/ WakeConsumer
  <2>1. /\ UNCHANGED <<nextGpuFenceValue, views, queue, slots, gpuFence, uiFence,
                       consPc, snap, snapWhole, half, shown>>
        /\ uiPc # "fence" /\ uiPc' \notin {"slot", "fence"}
    BY <1>2 DEF ViewDirty, PopupCopy, PopupDirty, LoadChange, PublishSequence, WakeConsumer,
                gpuVars, consVars
  <2>2. /\ header'.slot = header.slot /\ header'.view = header.view
        /\ header'.fence = header.fence
    BY <1>1, <1>2 DEF ViewDirty, PopupCopy, PopupDirty, LoadChange, PublishSequence,
                      WakeConsumer, Header
  <2>3. QED
    BY <2>1, <2>2, ContentsKept
<1>3. ASSUME \/ \E interval \in Intervals : SetFlushInterval(interval)
             \/ ConsumerWake
             \/ UNCHANGED vars
      PROVE  ContentsInv'
  <2>1. /\ UNCHANGED <<nextGpuFenceValue, views, queue, slots, gpuFence, uiFence, uiPc, header,
                       snap, snapWhole, half, shown>>
        /\ consPc' = "reading" => consPc = "reading"
    BY <1>3 DEF SetFlushInterval, ConsumerWake, vars, uiVars, gpuVars, consVars
  <2>2. QED
    BY <2>1 DEF ContentsInv, QueueInv, FenceBehindCopy, ReadingNamed, SlotIntact
<1>4. QED
  BY <1>2, <1>3, ContentsViewCopy, ContentsSignal, ContentsPublishSlot, ContentsPublishFence,
     ContentsExecute, ContentsSnapshot, ContentsBeginRead, ContentsEndRead
     DEF Next, StartPublish, Publish, Consume

-----------------------------------------------------------------------------
(* The theorems.                                                           *)

\* The invariant holds initially and every step of the host, the GPU and the
\* consumer keeps it.
THEOREM TransportInvariant == Spec => []TransportInv
<1>1. Init => TransportInv
  <2>1. Init => SnapshotsAreFrames
    BY DEF Init, SnapshotsAreFrames, NoFrame
  <2>2. QED
    BY <2>1, UiNumbersInit, TypesInit, ContentsInit DEF TransportInv, Types
<1>2. TransportInv /\ [Next]_vars => TransportInv'
  BY UiNumbersStep, GpuTypesStep, ConsumerTypesStep, SnapshotsStep, ContentsStep
     DEF TransportInv, Types
<1>3. QED
  BY <1>1, <1>2, PTL DEF Spec

\* Every variable of the transport stays in its type: frame ids and fence
\* values within the number of paints (their counters never run ahead), the
\* queue one of copies and signals.
THEOREM TransportTypeCorrect == Spec => []TypeOK
<1>1. TransportInv => TypeOK
  BY TypeParts DEF TransportInv, Types, UiNumbers
<1>2. QED
  BY <1>1, TransportInvariant, PTL

\* OnAcceleratedPaint signals the fence behind its copy and reuses a slot only
\* after SlotCount frames: a consumer that waits for the header's fence value
\* shows the frame the header named, unless the host has come round again.
THEOREM SlotStaysIntact == Spec => []SlotIntact
<1>1. TransportInv => SlotIntact
  BY DEF TransportInv, ContentsInv
<1>2. QED
  BY <1>1, TransportInvariant, PTL

\* A header that is read between publishes describes one frame: the rectangles
\* written first, the slot and the fence written last are of the same publish.
THEOREM SnapshotsAreOfOneFrame == Spec => []SnapshotsAreFrames
<1>1. TransportInv => SnapshotsAreFrames
  BY DEF TransportInv
<1>2. QED
  BY <1>1, TransportInvariant, PTL
=============================================================================
