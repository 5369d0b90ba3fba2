-------------------------- MODULE ViewPaint_proofs --------------------------
(***************************************************************************)
(* Proofs about what a frame says of the page, for any page, sizes, slots  *)
(* and bounds.                                                             *)
(*                                                                         *)
(* ImageIsPage is a fact about what the consumer has shown last.  It takes *)
(* to be inductive what the next frame will say: that the slot the header  *)
(* names holds the page of that frame, that a frame with rectangles        *)
(* differs from the one before it in them alone, and that a page the host  *)
(* has dropped is made up for by new textures, which force a full frame.   *)
(***************************************************************************)
EXTENDS ViewPaint, TLAPS

-----------------------------------------------------------------------------
(* Types and bounds.                                                       *)

Owed(b) == IF b THEN 1 ELSE 0

Handles == {Handle(k, s) : k \in Pool, s \in Size} \cup {<<>>}

Counts == [paints : 0 .. MaxVersion, popups : 0 .. MaxPopups, resizes : 0 .. MaxResizes,
           openFails : 0 .. MaxOpenFails, createFails : 0 .. MaxCreateFails]

SizeTypes ==
    /\ view \in Size
    /\ resizePc \in {"idle", "height", "force", "warmup", "notify"}
    /\ resizeTo \in Requests \cup {FirstSize}
    /\ cefSize \in Size /\ wasResized \in BOOLEAN /\ needsPaint \in BOOLEAN

TextureTypes ==
    /\ ring \in [Slot -> Size \cup {NoSize}]
    /\ plane \in Size \cup {NoSize}
    /\ sharedSize \in Size \cup {NoSize}
    /\ writeSlot \in Slot
    /\ contents \in [Slot -> Page]

PaintTypes ==
    /\ uiPc \in {"idle", "rect", "ensure", "force", "warmup", "warmupStore", "publish"}
    /\ paint \in Paint
    /\ cached \in [handle : Handles, size : Size, page : Page]
    /\ page \in Page

FrameTypes ==
    /\ header \in Header
    /\ frameReady \in BOOLEAN
    /\ image \in Page
    /\ shown \in Kept
    /\ shownWhole \in BOOLEAN

CountTypes ==
    /\ forceFull \in BOOLEAN
    /\ warmup \in 0 .. WarmupFrames
    /\ counts \in Counts

Types == SizeTypes /\ TextureTypes /\ PaintTypes /\ FrameTypes /\ CountTypes

\* The paints CEF makes if Resize stores nothing more; between GetViewRect's two
\* reads the height it is about to find belongs to the paint that is due.
PaintsDue ==
    IF uiPc = "rect" THEN Owed(needsPaint \/ cefSize.h # view.h) + Owed(cefSize.w # view.w)
    ELSE Owed(needsPaint) + Owed(cefSize # view)

\* A paint that no resize asks for is one of MaxPaints; each Resize can change
\* the size CEF sees twice, since its two stores are apart.
PaintsCounted ==
    /\ counts.paints + PaintsDue + Owed(resizePc = "height")
          <= MaxPaints + 1 + 2 * counts.resizes
    /\ resizePc # "idle" => counts.resizes > 0

\* Every frame is of a paint or a popup, and a paint publishes once.
FramesCounted ==
    header.frame + Owed(uiPc \notin {"idle", "rect"}) <= counts.paints + counts.popups

\* OnAcceleratedPaint's locals, as far as it has come.
PaintLocals ==
    /\ uiPc \in {"idle", "rect", "ensure"} => ~paint.recreated
    /\ uiPc = "warmupStore" => paint.warm > 0
    /\ uiPc \in {"warmup", "warmupStore", "publish"} /\ ~paint.full
          => ~paint.recreated /\ paint.collected = paint.dirty
    /\ uiPc \notin {"idle", "rect", "ensure"} => sharedSize = paint.size

Bounded == Types /\ PaintsCounted /\ FramesCounted /\ PaintLocals

LEMMA TypesAreTypeOK == Types => TypeOK
<1> SUFFICES ASSUME Types PROVE TypeOK
  OBVIOUS
<1>1. cached.handle \in Handles /\ cached.size \in Size /\ cached.page \in Page
  BY DEF Types, PaintTypes
<1>2. QED
  BY <1>1 DEF Types, SizeTypes, TextureTypes, PaintTypes, FrameTypes, CountTypes, TypeOK, Handles,
              Counts

LEMMA SizeFacts ==
    /\ Requests \cup {FirstSize} \subseteq Size
    /\ \A v, r \in Size : [v EXCEPT !.w = r.w] \in Size /\ [v EXCEPT !.h = r.h] \in Size
    /\ \A v, r \in Size : v = r <=> v.w = r.w /\ v.h = r.h
<1>1. ASSUME NEW r \in Requests \cup {FirstSize} PROVE r \in Size
  BY <1>1, ViewPaintAssumption DEF ViewPaintAssumption, Size
<1>2. \A v, r \in Size : [v EXCEPT !.w = r.w] \in Size /\ [v EXCEPT !.h = r.h] \in Size
  BY DEF Size
<1>3. \A v, r \in Size : v.w = r.w /\ v.h = r.h => v = r
  BY DEF Size
<1>4. QED
  BY <1>1, <1>2, <1>3

LEMMA SlotFacts ==
    /\ 0 \in Slot /\ 1 % SlotCount \in Slot
    /\ \A s \in Slot : (s + 1) % SlotCount \in Slot
    /\ SlotCount > 1 => \A s \in Slot : (s + 1) % SlotCount # s
BY ViewPaintAssumption DEF ViewPaintAssumption, Slot

LEMMA BoundFacts ==
    /\ MaxVersion \in Nat /\ MaxPopups \in Nat /\ MaxPaints \in Nat /\ WarmupFrames \in Nat
    /\ MaxResizes \in Nat /\ MaxOpenFails \in Nat /\ MaxCreateFails \in Nat
    /\ MaxVersion = MaxPaints + 3 * MaxResizes + 1
    /\ Blank \in Page
    /\ NoPaint \in Paint /\ FirstHeader \in Header
    /\ \A h \in Header : KeptOf(h) \in Kept
<1>1. /\ MaxPopups \in Nat /\ MaxPaints \in Nat /\ WarmupFrames \in Nat
      /\ MaxResizes \in Nat /\ MaxOpenFails \in Nat /\ MaxCreateFails \in Nat
  BY ViewPaintAssumption DEF ViewPaintAssumption
<1>2. MaxVersion \in Nat
  BY <1>1 DEF MaxVersion
<1>3. Blank \in Page
  BY <1>2 DEF Blank, Page
<1>4. NoPaint \in Paint
  BY <1>1, <1>3, SizeFacts DEF NoPaint, Paint
<1>5. FirstHeader \in Header
  BY <1>1, <1>2, <1>3, SlotFacts DEF FirstHeader, Header
<1>6. \A h \in Header : KeptOf(h) \in Kept
  BY DEF Header, KeptOf, Kept
<1>7. QED
  BY <1>1, <1>2, <1>3, <1>4, <1>5, <1>6 DEF MaxVersion

LEMMA BoundedInit == Init => Bounded
<1> SUFFICES ASSUME Init PROVE Bounded
  OBVIOUS
<1> USE SizeFacts, SlotFacts, BoundFacts DEF Init
<1>1. SizeTypes
  BY DEF SizeTypes
<1>2. TextureTypes
  BY DEF TextureTypes
<1>3. PaintTypes
  BY DEF PaintTypes, Handles
<1>4. FrameTypes
  BY DEF FrameTypes
<1>5. CountTypes
  BY DEF CountTypes, Counts
<1>6. PaintsCounted /\ FramesCounted /\ PaintLocals
  BY DEF PaintsCounted, PaintsDue, FramesCounted, PaintLocals, Owed, FirstHeader, NoPaint
<1>7. QED
  BY <1>1, <1>2, <1>3, <1>4, <1>5, <1>6 DEF Bounded, Types

LEMMA SizeTypesStep == Bounded /\ [Next]_vars => SizeTypes'
<1> SUFFICES ASSUME Bounded, [Next]_vars PROVE SizeTypes'
  OBVIOUS
<1> USE DEF Bounded, Types, SizeTypes
<1>1. ASSUME NEW size \in Requests, ResizeWidth(size) PROVE SizeTypes'
  BY <1>1, SizeFacts DEF ResizeWidth, cefVars
<1>2. CASE Resize
  <2>1. CASE ResizeHeight
    BY <2>1, SizeFacts DEF ResizeHeight, cefVars
  <2>2. CASE ResizeForce \/ ResizeWarmup \/ ResizeNotify
    BY <2>2 DEF ResizeForce, ResizeWarmup, ResizeNotify, cefVars
  <2>3. QED
    BY <1>2, <2>1, <2>2 DEF Resize
<1>3. CASE GetViewRect
  BY <1>3, SizeFacts DEF GetViewRect, GetViewWidth, GetViewHeight, resizeVars
<1>4. CASE BeginPaint
  <2>1. \E dirty : CefPaints(dirty)
    BY <1>4 DEF BeginPaint, PaintCached, PaintOpened, OpenFails
  <2>2. QED
    BY <2>1 DEF CefPaints
<1>5. CASE FinishPaint \/ (\E rects \in SUBSET Tiles : PublishPopup(rects)) \/ ConsumerApplies
            \/ UNCHANGED vars
  <2>1. UNCHANGED <<resizeVars, cefVars>>
    BY <1>5 DEF FinishPaint, TexturesReady, TexturesRecreated, TexturesFail, TakeForce, ReadWarmup,
                StoreWarmup, PublishView, PublishPopup, ConsumerApplies, vars
  <2>2. QED
    BY <2>1 DEF resizeVars, cefVars
<1>6. QED
  BY <1>1, <1>2, <1>3, <1>4, <1>5 DEF Next

LEMMA TextureTypesStep == Bounded /\ [Next]_vars => TextureTypes'
<1> SUFFICES ASSUME Bounded, [Next]_vars PROVE TextureTypes'
  OBVIOUS
<1> USE DEF Bounded, Types, TextureTypes
<1>1. paint.page \in Page /\ paint.size \in Size
  BY DEF PaintTypes, Paint
<1>2. CASE TexturesReady
  <2>1. contents' \in [Slot -> Page]
    BY <1>1, <1>2 DEF TexturesReady, CopyTo
  <2>2. QED
    BY <1>2, <2>1 DEF TexturesReady, textureVars
<1>3. CASE TexturesRecreated
  BY <1>1, <1>3, SlotFacts, BoundFacts DEF TexturesRecreated
<1>4. ASSUME NEW n \in 0 .. SlotCount, TexturesFail(n) PROVE TextureTypes'
  BY <1>1, <1>4, BoundFacts DEF TexturesFail
<1>5. CASE PublishView
  BY <1>5, SlotFacts DEF PublishView, textureVars, NextSlot
<1>6. CASE TakeForce \/ ReadWarmup \/ StoreWarmup
            \/ (\E rects \in SUBSET Tiles : PublishPopup(rects)) \/ ConsumerApplies
  BY <1>6 DEF TakeForce, ReadWarmup, StoreWarmup, PublishPopup, ConsumerApplies, textureVars
<1>7. ASSUME (\E size \in Requests : ResizeWidth(size)) \/ Resize \/ GetViewRect \/ BeginPaint
            \/ UNCHANGED vars
      PROVE  TextureTypes'
  <2>1. UNCHANGED <<textureVars, writeSlot, contents>>
    BY <1>7 DEF ResizeWidth, Resize, ResizeHeight, ResizeForce, ResizeWarmup, ResizeNotify,
                GetViewRect, GetViewWidth, GetViewHeight, BeginPaint, PaintCached, PaintOpened,
                OpenFails, CefPaints, vars
  <2>2. QED
    BY <2>1 DEF textureVars
<1>8. QED
  BY <1>2, <1>3, <1>4, <1>5, <1>6, <1>7 DEF Next, FinishPaint

\* What CEF gives OnAcceleratedPaint.
LEMMA CefPaintTypes ==
    ASSUME Bounded, NEW dirty \in SUBSET Tiles, CefPaints(dirty)
    PROVE  /\ counts.paints + 1 \in 0 .. MaxVersion
           /\ page' \in Page
<1>1. /\ counts.paints \in Nat /\ counts.resizes \in 0 .. MaxResizes
  BY DEF Bounded, Types, CountTypes, Counts
<1>2. counts.paints + 1 <= MaxVersion
  <2>1. CASE needsPaint
    <3>1. counts.paints + 1 <= MaxPaints + 1 + 2 * counts.resizes
      BY <1>1, <2>1, BoundFacts DEF Bounded, PaintsCounted, PaintsDue, Owed, CefPaints
    <3>2. QED
      BY <1>1, <3>1, BoundFacts
  <2>2. CASE ~needsPaint
    BY <1>1, <2>2, BoundFacts DEF CefPaints
  <2>3. QED
    BY <2>1, <2>2 DEF Bounded, Types, SizeTypes
<1>3. counts.paints + 1 \in 0 .. MaxVersion
  BY <1>1, <1>2, BoundFacts
<1>4. page \in Page
  BY DEF Bounded, Types, PaintTypes
<1>5. page' \in Page
  BY <1>3, <1>4 DEF CefPaints, Page
<1>6. QED
  BY <1>3, <1>5

LEMMA PaintTypesStep == Bounded /\ [Next]_vars => PaintTypes'
<1> SUFFICES ASSUME Bounded, [Next]_vars PROVE PaintTypes'
  OBVIOUS
<1>1. /\ paint \in Paint /\ page \in Page
      /\ cached \in [handle : Handles, size : Size, page : Page]
      /\ uiPc \in {"idle", "rect", "ensure", "force", "warmup", "warmupStore", "publish"}
      /\ warmup \in 0 .. WarmupFrames /\ forceFull \in BOOLEAN /\ cefSize \in Size
  BY DEF Bounded, Types, PaintTypes, CountTypes, SizeTypes
<1>2. ASSUME NEW dirty \in SUBSET Tiles, NEW collected \in SUBSET dirty,
             NEW texture \in [handle : Handles, size : Size, page : Page],
             BeginWith(dirty, collected, texture)
      PROVE  paint' \in Paint
  <2>1. /\ texture.size \in Size /\ texture.page \in Page /\ collected \in SUBSET Tiles
    OBVIOUS
  <2>2. QED
    BY <1>2, <2>1, BoundFacts DEF BeginWith, NoPaint, Paint
<1>3. ASSUME NEW k \in Pool, NEW dirty \in SUBSET Tiles, NEW collected \in SUBSET dirty,
             PaintCached(k, dirty, collected)
      PROVE  PaintTypes'
  <2>1. page' \in Page
    BY <1>3, CefPaintTypes DEF PaintCached
  <2>2. PICK texture :
             /\ texture = IF cached.size = cefSize THEN [cached EXCEPT !.page = page'] ELSE cached
             /\ BeginWith(dirty, collected, texture)
             /\ cached' = texture
    BY <1>3 DEF PaintCached
  <2>3. texture \in [handle : Handles, size : Size, page : Page]
    BY <1>1, <2>1, <2>2
  <2>4. QED
    BY <1>2, <2>1, <2>2, <2>3 DEF PaintTypes, BeginWith
<1>4. ASSUME NEW k \in Pool, NEW dirty \in SUBSET Tiles, NEW collected \in SUBSET dirty,
             PaintOpened(k, dirty, collected)
      PROVE  PaintTypes'
  <2>1. page' \in Page
    BY <1>4, CefPaintTypes DEF PaintOpened
  <2>2. cached' \in [handle : Handles, size : Size, page : Page]
    BY <1>1, <1>4, <2>1 DEF PaintOpened, Handles
  <2>3. QED
    BY <1>2, <1>4, <2>1, <2>2 DEF PaintTypes, PaintOpened, BeginWith
<1>5. ASSUME NEW k \in Pool, NEW dirty \in SUBSET Tiles, OpenFails(k, dirty) PROVE PaintTypes'
  <2>1. page' \in Page
    BY <1>5, CefPaintTypes DEF OpenFails
  <2>2. QED
    BY <1>1, <1>5, <2>1 DEF PaintTypes, OpenFails
<1>6. CASE TexturesReady \/ TexturesRecreated \/ (\E n \in 0 .. SlotCount : TexturesFail(n))
  <2>1. [paint EXCEPT !.recreated = TRUE] \in Paint
    BY <1>1 DEF Paint
  <2>2. QED
    BY <1>1, <1>6, <2>1, BoundFacts
       DEF PaintTypes, TexturesReady, TexturesRecreated, TexturesFail, cefVars
<1>7. CASE TakeForce \/ ReadWarmup
  <2>1. /\ [paint EXCEPT !.full = TRUE, !.warm = warmup] \in Paint
        /\ \A b \in BOOLEAN : [paint EXCEPT !.full = b] \in Paint
    BY <1>1 DEF Paint
  <2>2. (forceFull \/ paint.recreated \/ paint.collected # paint.dirty) \in BOOLEAN
    OBVIOUS
  <2>3. CASE TakeForce
    BY <1>1, <2>1, <2>2, <2>3 DEF PaintTypes, TakeForce, cefVars
  <2>4. CASE ReadWarmup
    BY <1>1, <2>1, <2>4 DEF PaintTypes, ReadWarmup, cefVars
  <2>5. QED
    BY <1>7, <2>3, <2>4
<1>8. CASE StoreWarmup \/ PublishView \/ (\E rects \in SUBSET Tiles : PublishPopup(rects))
            \/ ConsumerApplies \/ (\E size \in Requests : ResizeWidth(size))
  BY <1>1, <1>8, BoundFacts
     DEF PaintTypes, StoreWarmup, PublishView, PublishPopup, ConsumerApplies, ResizeWidth, cefVars
<1>9. CASE Resize \/ GetViewRect \/ UNCHANGED vars
  BY <1>1, <1>9 DEF PaintTypes, Resize, ResizeHeight, ResizeForce, ResizeWarmup, ResizeNotify,
                    GetViewRect, GetViewWidth, GetViewHeight, cefVars, vars
<1>10. QED
  BY <1>3, <1>4, <1>5, <1>6, <1>7, <1>8, <1>9 DEF Next, BeginPaint, FinishPaint

LEMMA CountTypesStep == Bounded /\ [Next]_vars => CountTypes'
<1> SUFFICES ASSUME Bounded, [Next]_vars PROVE CountTypes'
  OBVIOUS
<1>1. /\ forceFull \in BOOLEAN /\ warmup \in 0 .. WarmupFrames /\ counts \in Counts
      /\ paint \in Paint
  BY DEF Bounded, Types, CountTypes, PaintTypes
<1>2. CASE BeginPaint
  <2>1. PICK dirty \in SUBSET Tiles :
           /\ CefPaints(dirty)
           /\ \/ counts' = [counts EXCEPT !.paints = @ + 1]
              \/ /\ counts.openFails < MaxOpenFails
                 /\ counts' = [counts EXCEPT !.paints = @ + 1, !.openFails = @ + 1]
    BY <1>2 DEF BeginPaint, PaintCached, PaintOpened, OpenFails
  <2>2. counts.paints + 1 \in 0 .. MaxVersion
    BY <2>1, CefPaintTypes
  <2>3. counts' \in Counts
    <3>1. CASE counts' = [counts EXCEPT !.paints = @ + 1]
      BY <1>1, <2>2, <3>1 DEF Counts
    <3>2. CASE /\ counts.openFails < MaxOpenFails
               /\ counts' = [counts EXCEPT !.paints = @ + 1, !.openFails = @ + 1]
      <4>1. counts.openFails + 1 \in 0 .. MaxOpenFails
        BY <1>1, <3>2, BoundFacts DEF Counts
      <4>2. QED
        BY <1>1, <2>2, <3>2, <4>1 DEF Counts
    <3>3. QED
      BY <2>1, <3>1, <3>2
  <2>4. UNCHANGED <<forceFull, warmup>>
    BY <2>1 DEF CefPaints
  <2>5. QED
    BY <1>1, <2>3, <2>4 DEF CountTypes
<1>3. ASSUME NEW n \in 0 .. SlotCount, TexturesFail(n) PROVE CountTypes'
  <2>1. counts' \in Counts
    BY <1>1, <1>3, BoundFacts DEF TexturesFail, Counts
  <2>2. QED
    BY <1>1, <1>3, <2>1 DEF TexturesFail, CountTypes
<1>4. ASSUME NEW rects \in SUBSET Tiles, PublishPopup(rects) PROVE CountTypes'
  <2>1. counts' \in Counts
    BY <1>1, <1>4, BoundFacts DEF PublishPopup, Counts
  <2>2. QED
    BY <1>1, <1>4, <2>1 DEF PublishPopup, CountTypes
<1>5. ASSUME NEW size \in Requests, ResizeWidth(size) PROVE CountTypes'
  <2>1. counts' \in Counts
    BY <1>1, <1>5, BoundFacts DEF ResizeWidth, Counts
  <2>2. QED
    BY <1>1, <1>5, <2>1 DEF ResizeWidth, CountTypes
<1>6. CASE StoreWarmup
  <2>1. paint.warm \in 0 .. WarmupFrames /\ paint.warm > 0
    BY <1>1, <1>6 DEF Bounded, PaintLocals, StoreWarmup, Paint
  <2>2. warmup' \in 0 .. WarmupFrames
    BY <1>6, <2>1, BoundFacts DEF StoreWarmup
  <2>3. QED
    BY <1>1, <1>6, <2>2 DEF StoreWarmup, CountTypes
<1>7. CASE ResizeForce \/ ResizeWarmup \/ TexturesRecreated \/ TakeForce
  <2>1. /\ forceFull' \in {TRUE, FALSE, forceFull} /\ warmup' \in {warmup, WarmupFrames}
        /\ counts' = counts
    BY <1>7 DEF ResizeForce, ResizeWarmup, TexturesRecreated, TakeForce
  <2>2. WarmupFrames \in 0 .. WarmupFrames
    BY BoundFacts
  <2>3. QED
    BY <1>1, <2>1, <2>2 DEF CountTypes
<1>8. CASE ResizeHeight \/ ResizeNotify \/ GetViewRect \/ TexturesReady \/ ReadWarmup \/ PublishView
            \/ ConsumerApplies \/ UNCHANGED vars
  BY <1>1, <1>8 DEF CountTypes, ResizeHeight, ResizeNotify, GetViewRect, GetViewWidth,
                    GetViewHeight, TexturesReady, ReadWarmup,
                    PublishView, ConsumerApplies, vars
<1>9. QED
  BY <1>2, <1>3, <1>4, <1>5, <1>6, <1>7, <1>8 DEF Next, Resize, FinishPaint

LEMMA FrameTypesStep == Bounded /\ [Next]_vars => FrameTypes'
<1> SUFFICES ASSUME Bounded, [Next]_vars PROVE FrameTypes'
  OBVIOUS
<1>1. /\ header \in Header /\ frameReady \in BOOLEAN /\ image \in Page /\ shown \in Kept
      /\ shownWhole \in BOOLEAN /\ writeSlot \in Slot
      /\ contents \in [Slot -> Page] /\ page \in Page /\ sharedSize \in Size \cup {NoSize}
  BY DEF Bounded, Types, FrameTypes, TextureTypes, PaintTypes
<1>2. /\ paint.size \in Size /\ paint.full \in BOOLEAN /\ paint.recreated \in BOOLEAN
      /\ paint.collected \in SUBSET Tiles
  BY DEF Bounded, Types, PaintTypes, Paint
<1>3. /\ counts.paints \in 0 .. MaxVersion /\ counts.popups \in 0 .. MaxPopups
      /\ header.frame \in 0 .. MaxVersion + MaxPopups
  BY <1>1 DEF Bounded, Types, CountTypes, Counts, Header
<1>4. CASE PublishView
  <2>1. header.frame + 1 \in 0 .. MaxVersion + MaxPopups
    <3>1. header.frame + 1 <= counts.paints + counts.popups
      BY <1>3, <1>4 DEF Bounded, FramesCounted, PublishView, Owed
    <3>2. QED
      BY <1>3, <3>1, BoundFacts
  <2>2. NextSlot \in Slot
    BY <1>1, SlotFacts DEF NextSlot
  <2>3. (IF paint.full THEN {} ELSE paint.collected) \in SUBSET Tiles
    BY <1>2
  <2>4. header' \in Header
    BY <1>1, <1>2, <1>4, <2>1, <2>2, <2>3 DEF PublishView, Header
  <2>5. QED
    BY <1>1, <1>4, <2>4 DEF FrameTypes, PublishView, consVars
<1>5. ASSUME NEW rects \in SUBSET Tiles, PublishPopup(rects) PROVE FrameTypes'
  <2>1. header.frame + 1 \in 0 .. MaxVersion + MaxPopups
    <3>1. counts.popups + 1 <= MaxPopups /\ header.frame <= counts.paints + counts.popups
      BY <1>3, <1>5, BoundFacts DEF Bounded, FramesCounted, PublishPopup, Owed
    <3>2. QED
      BY <1>3, <3>1, BoundFacts
  <2>2. header' \in Header
    BY <1>1, <1>5, <2>1 DEF PublishPopup, Header
  <2>3. QED
    BY <1>1, <1>5, <2>2 DEF FrameTypes, PublishPopup, consVars
<1>6. CASE TexturesRecreated
  <2>1. header' \in Header
    BY <1>1, <1>2, <1>6, SlotFacts DEF TexturesRecreated, Header
  <2>2. QED
    BY <1>1, <1>6, <2>1 DEF FrameTypes, TexturesRecreated, consVars
<1>7. CASE ConsumerApplies
  <2>1. CASE UNCHANGED consVars
    BY <1>1, <1>7, <2>1 DEF FrameTypes, ConsumerApplies, consVars
  <2>2. CASE image' = [t \in Tiles |-> IF CopiesAll(header) \/ t \in header.rects
                                       THEN contents[header.slot][t] ELSE image[t]]
             /\ shown' = KeptOf(header) /\ shownWhole' = ~paint.recreated
    <3>1. contents[header.slot] \in Page
      BY <1>1 DEF Header
    <3>2. image' \in Page
      BY <1>1, <2>2, <3>1 DEF Page
    <3>3. QED
      BY <1>1, <1>2, <1>7, <2>2, <3>2, BoundFacts DEF FrameTypes, ConsumerApplies
  <2>3. QED
    BY <1>7, <2>1, <2>2 DEF ConsumerApplies
<1>8. CASE BeginPaint
  <2>1. UNCHANGED <<header, frameReady, consVars>>
    BY <1>8 DEF BeginPaint, PaintCached, PaintOpened, OpenFails, CefPaints
  <2>2. QED
    BY <1>1, <2>1 DEF FrameTypes, consVars
<1>9. ASSUME (\E size \in Requests : ResizeWidth(size)) \/ Resize \/ GetViewRect \/ TexturesReady
             \/ (\E n \in 0 .. SlotCount : TexturesFail(n)) \/ TakeForce \/ ReadWarmup \/ StoreWarmup
             \/ UNCHANGED vars
      PROVE  FrameTypes'
  <2>1. UNCHANGED <<header, frameReady, consVars>>
    BY <1>9 DEF ResizeWidth, Resize, ResizeHeight, ResizeForce, ResizeWarmup, ResizeNotify,
                GetViewRect, GetViewWidth, GetViewHeight, TexturesReady, TexturesFail, TakeForce,
                ReadWarmup, StoreWarmup, vars
  <2>2. QED
    BY <1>1, <2>1 DEF FrameTypes, consVars
<1>10. QED
  BY <1>4, <1>5, <1>6, <1>7, <1>8, <1>9 DEF Next, FinishPaint

LEMMA PaintsCountedStep == Bounded /\ [Next]_vars => PaintsCounted'
<1> SUFFICES ASSUME Bounded, [Next]_vars PROVE PaintsCounted'
  OBVIOUS
<1> USE BoundFacts DEF Owed, PaintsCounted, PaintsDue
<1>1. /\ counts \in Counts /\ counts.paints \in Nat /\ counts.resizes \in Nat
      /\ needsPaint \in BOOLEAN /\ PaintsCounted /\ view \in Size /\ cefSize \in Size
      /\ resizePc \in {"idle", "height", "force", "warmup", "notify"}
  BY DEF Bounded, Types, CountTypes, Counts, SizeTypes
<1>2. ASSUME NEW size \in Requests, ResizeWidth(size) PROVE PaintsCounted'
  <2>1. /\ counts'.resizes = counts.resizes + 1 /\ counts'.paints = counts.paints
        /\ resizePc = "idle" /\ resizePc' = "height" /\ view'.h = view.h
        /\ UNCHANGED <<cefSize, needsPaint, uiPc>>
    BY <1>1, <1>2, SizeFacts DEF ResizeWidth, Counts, cefVars, Size
  <2>2. QED
    BY <1>1, <2>1
<1>3. CASE Resize
  <2>1. CASE ResizeHeight
    <3>1. /\ view'.w = view.w /\ resizePc = "height" /\ resizePc' = "force"
          /\ UNCHANGED <<cefSize, needsPaint, uiPc, counts>>
      BY <1>1, <2>1 DEF ResizeHeight, cefVars, Size
    <3>2. QED
      BY <1>1, <3>1
  <2>2. CASE ResizeForce \/ ResizeWarmup \/ ResizeNotify
    BY <1>1, <2>2 DEF ResizeForce, ResizeWarmup, ResizeNotify, cefVars
  <2>3. QED
    BY <1>3, <2>1, <2>2 DEF Resize
<1>4. CASE GetViewRect
  <2>1. CASE GetViewWidth
    <3>1. /\ cefSize'.w = view.w /\ cefSize'.h = cefSize.h
          /\ needsPaint' = (needsPaint \/ cefSize.w # view.w)
          /\ uiPc = "idle" /\ uiPc' = "rect"
          /\ UNCHANGED <<view, resizePc, counts>>
      BY <1>1, <2>1 DEF GetViewWidth, resizeVars, Size
    <3>2. cefSize # view <=> cefSize.w # view.w \/ cefSize.h # view.h
      BY <1>1, SizeFacts
    <3>3. QED
      BY <1>1, <3>1, <3>2
  <2>2. CASE GetViewHeight
    <3>1. /\ cefSize'.h = view.h /\ cefSize'.w = cefSize.w
          /\ needsPaint' = (needsPaint \/ cefSize.h # view.h)
          /\ uiPc = "rect" /\ uiPc' = "idle"
          /\ UNCHANGED <<view, resizePc, counts>>
      BY <1>1, <2>2 DEF GetViewHeight, resizeVars, Size
    <3>2. cefSize' \in Size
      BY <1>1, <2>2, SizeFacts DEF GetViewHeight
    <3>3. cefSize' # view <=> cefSize.w # view.w
      BY <1>1, <3>1, <3>2, SizeFacts
    <3>4. QED
      BY <1>1, <3>1, <3>3
  <2>3. QED
    BY <1>4, <2>1, <2>2 DEF GetViewRect
<1>5. CASE BeginPaint
  <2>1. PICK dirty \in SUBSET Tiles : CefPaints(dirty)
    BY <1>5 DEF BeginPaint, PaintCached, PaintOpened, OpenFails
  <2>2. counts'.paints = counts.paints + 1 /\ counts'.resizes = counts.resizes
    BY <1>1, <1>5 DEF BeginPaint, PaintCached, PaintOpened, OpenFails, Counts
  <2>3. /\ needsPaint' = FALSE /\ UNCHANGED <<cefSize, view, resizePc>>
        /\ ~needsPaint => counts.paints < MaxPaints
        /\ uiPc = "idle"
    BY <2>1 DEF CefPaints
  <2>4. uiPc' # "rect"
    BY <1>5, <2>3 DEF BeginPaint, PaintCached, PaintOpened, OpenFails, BeginWith
  <2>5. QED
    BY <1>1, <2>2, <2>3, <2>4
<1>6. CASE FinishPaint \/ (\E rects \in SUBSET Tiles : PublishPopup(rects)) \/ ConsumerApplies
            \/ UNCHANGED vars
  <2>1. UNCHANGED <<resizeVars, cefVars>> /\ counts'.paints = counts.paints
        /\ counts'.resizes = counts.resizes /\ (uiPc' = "rect" <=> uiPc = "rect")
    BY <1>1, <1>6 DEF FinishPaint, TexturesReady, TexturesRecreated, TexturesFail, TakeForce,
                ReadWarmup, StoreWarmup, PublishView, PublishPopup, ConsumerApplies, vars, Counts
  <2>2. QED
    BY <1>1, <2>1 DEF resizeVars, cefVars
<1>7. QED
  BY <1>2, <1>3, <1>4, <1>5, <1>6 DEF Next

LEMMA FramesCountedStep == Bounded /\ [Next]_vars => FramesCounted'
<1> SUFFICES ASSUME Bounded, [Next]_vars PROVE FramesCounted'
  OBVIOUS
<1> USE DEF Owed, FramesCounted
<1>1. /\ counts \in Counts /\ counts.paints \in Nat /\ counts.popups \in Nat
      /\ header \in Header /\ header.frame \in Nat /\ FramesCounted
  BY BoundFacts DEF Bounded, Types, CountTypes, Counts, FrameTypes, Header
<1>2. CASE BeginPaint
  <2>1. counts'.paints = counts.paints + 1 /\ counts'.popups = counts.popups /\ header' = header
        /\ uiPc = "idle"
    BY <1>1, <1>2 DEF BeginPaint, PaintCached, PaintOpened, OpenFails, CefPaints, Counts
  <2>2. QED
    BY <1>1, <2>1
<1>3. CASE PublishView
  BY <1>1, <1>3 DEF PublishView
<1>4. CASE \E rects \in SUBSET Tiles : PublishPopup(rects)
  BY <1>1, <1>4 DEF PublishPopup, Header, Counts
<1>5. CASE TexturesRecreated
  BY <1>1, <1>5 DEF TexturesRecreated, Header
<1>6. ASSUME (\E size \in Requests : ResizeWidth(size)) \/ (\E n \in 0 .. SlotCount : TexturesFail(n))
             \/ TexturesReady \/ TakeForce \/ ReadWarmup \/ StoreWarmup
      PROVE FramesCounted'
  <2>1. /\ UNCHANGED header
        /\ counts'.paints = counts.paints /\ counts'.popups = counts.popups
        /\ uiPc \in {"idle", "rect"} => uiPc' = uiPc
    BY <1>1, <1>6 DEF ResizeWidth, TexturesReady, TexturesFail, TakeForce, ReadWarmup, StoreWarmup,
                      Counts
  <2>2. QED
    BY <1>1, <2>1
<1>7. CASE Resize \/ GetViewRect \/ ConsumerApplies \/ UNCHANGED vars
  BY <1>1, <1>7 DEF Resize, ResizeHeight, ResizeForce, ResizeWarmup, ResizeNotify, GetViewRect,
                    GetViewWidth, GetViewHeight,
                    ConsumerApplies, vars
<1>8. QED
  BY <1>2, <1>3, <1>4, <1>5, <1>6, <1>7 DEF Next, FinishPaint

LEMMA PaintLocalsStep == Bounded /\ [Next]_vars => PaintLocals'
<1> SUFFICES ASSUME Bounded, [Next]_vars PROVE PaintLocals'
  OBVIOUS
<1> USE DEF PaintLocals
<1>1. /\ paint \in Paint /\ PaintLocals /\ ~NoPaint.recreated /\ warmup \in Nat
      /\ forceFull \in BOOLEAN
  BY BoundFacts DEF Bounded, Types, PaintTypes, CountTypes, NoPaint
<1>2. CASE BeginPaint
  <2>1. CASE uiPc' = "ensure" /\ ~paint'.recreated
    BY <2>1
  <2>2. CASE UNCHANGED <<uiPc, paint>> /\ uiPc = "idle"
    BY <1>1, <2>2
  <2>3. ASSUME NEW dirty, NEW collected, NEW texture, BeginWith(dirty, collected, texture)
        PROVE  uiPc' = "ensure" /\ ~paint'.recreated
    BY <2>3 DEF BeginWith, NoPaint
  <2>4. QED
    BY <1>2, <2>1, <2>2, <2>3 DEF BeginPaint, PaintCached, PaintOpened, OpenFails, CefPaints
<1>3. CASE TexturesReady
  BY <1>1, <1>3 DEF TexturesReady, Ready, textureVars
<1>4. CASE TexturesRecreated
  BY <1>1, <1>4 DEF TexturesRecreated, Paint
<1>5. CASE (\E n \in 0 .. SlotCount : TexturesFail(n)) \/ PublishView
  BY <1>1, <1>5 DEF TexturesFail, PublishView
<1>6. CASE TakeForce
  <2>1. /\ paint'.full <=> forceFull \/ paint.recreated \/ paint.collected # paint.dirty
        /\ paint'.recreated = paint.recreated /\ paint'.collected = paint.collected
        /\ paint'.dirty = paint.dirty /\ paint'.size = paint.size
    BY <1>1, <1>6 DEF TakeForce, Paint
  <2>2. QED
    BY <1>1, <1>6, <2>1 DEF TakeForce, textureVars
<1>7. CASE ReadWarmup
  <2>1. CASE warmup > 0
    BY <1>1, <1>7, <2>1 DEF ReadWarmup, Paint, textureVars
  <2>2. CASE ~(warmup > 0)
    BY <1>1, <1>7, <2>2 DEF ReadWarmup, textureVars
  <2>3. QED
    BY <2>1, <2>2
<1>8. CASE StoreWarmup
  BY <1>1, <1>8 DEF StoreWarmup, textureVars
<1>9. ASSUME (\E size \in Requests : ResizeWidth(size)) \/ Resize \/ GetViewRect
             \/ (\E rects \in SUBSET Tiles : PublishPopup(rects)) \/ ConsumerApplies \/ UNCHANGED vars
      PROVE  PaintLocals'
  <2>1. /\ UNCHANGED <<paint, textureVars>>
        /\ uiPc' = uiPc \/ {uiPc, uiPc'} \subseteq {"idle", "rect"}
    BY <1>9 DEF ResizeWidth, Resize, ResizeHeight, ResizeForce, ResizeWarmup, ResizeNotify,
                GetViewRect, GetViewWidth, GetViewHeight, PublishPopup, ConsumerApplies, vars
  <2>2. QED
    BY <1>1, <2>1 DEF textureVars
<1>10. QED
  BY <1>2, <1>3, <1>4, <1>5, <1>6, <1>7, <1>8, <1>9 DEF Next, FinishPaint

LEMMA BoundedStep == Bounded /\ [Next]_vars => Bounded'
<1> SUFFICES ASSUME Bounded, [Next]_vars PROVE Bounded'
  OBVIOUS
<1>1. Types'
  BY SizeTypesStep, TextureTypesStep, PaintTypesStep, FrameTypesStep, CountTypesStep DEF Types
<1>2. QED
  BY <1>1, PaintsCountedStep, FramesCountedStep, PaintLocalsStep DEF Bounded

-----------------------------------------------------------------------------
(* Frames: what holds of the header and of the consumer's copy of it       *)
(* whatever CEF and the device do.                                         *)

\* The header names the slot and the size of the textures in use.
HeaderFollows ==
    /\ header.slot = writeSlot
    /\ header.size = sharedSize

\* A header read in mid-paint is not the base of a delta: the publish that
\* follows is a full frame.
ShownFollows ==
    /\ shown.frame <= header.frame
    /\ shown.frame = header.frame => shown.truth = header.truth
    /\ ~shownWhole => \/ shown.frame = header.frame /\ paint.recreated
                      \/ shown.frame + 1 = header.frame /\ header.full
                      \/ shown.frame + 1 < header.frame

\* Only a failed creation leaves textures of another size than the recorded one.
RingMatches == counts.createFails = 0 => \A s \in Slot : ring[s] = sharedSize

\* The textures that are there have been made together, with one size.
OneSize == \A s, t \in Slot : ring[s] = NoSize \/ ring[t] = NoSize \/ ring[s] = ring[t]

TexturesFollow == RingMatches /\ OneSize

FrameInv == Bounded /\ HeaderFollows /\ ShownFollows /\ TexturesFollow

\* A step that changes nothing of what a frame says: neither the textures nor
\* the header, and of OnAcceleratedPaint's locals only forceFull.  If it gives
\* CEF another size, CEF has to paint.
QuietStep ==
    /\ UNCHANGED <<ring, sharedSize, writeSlot, contents, header, page, image, shown, shownWhole>>
    /\ counts'.openFails = counts.openFails /\ counts'.createFails = counts.createFails
    /\ paint'.size = paint.size /\ paint'.page = paint.page
    /\ paint'.dirty = paint.dirty /\ paint'.recreated = paint.recreated
    /\ cefSize' = cefSize \/ needsPaint'
    /\ needsPaint => needsPaint'
    /\ \/ uiPc' = uiPc
       \/ uiPc \in {"idle", "rect"} /\ uiPc' \in {"idle", "rect"}
       \/ /\ uiPc \in {"force", "warmup", "warmupStore"}
          /\ uiPc' \in {"warmup", "warmupStore", "publish"}

LEMMA QuietSteps ==
    ASSUME Bounded,
           \/ \E size \in Requests : ResizeWidth(size)
           \/ Resize \/ GetViewRect
           \/ TakeForce \/ ReadWarmup \/ StoreWarmup
           \/ UNCHANGED vars
    PROVE  QuietStep
<1>1. paint \in Paint /\ counts \in Counts /\ cefSize \in Size /\ view \in Size
  BY DEF Bounded, Types, PaintTypes, CountTypes, SizeTypes
<1>2. CASE (\E size \in Requests : ResizeWidth(size)) \/ Resize \/ UNCHANGED vars
  BY <1>1, <1>2 DEF QuietStep, ResizeWidth, Resize, ResizeHeight, ResizeForce, ResizeWarmup,
                    ResizeNotify, textureVars, cefVars, consVars, vars, Counts
<1>3. CASE TakeForce \/ ReadWarmup \/ StoreWarmup
  <2>1. /\ UNCHANGED <<textureVars, writeSlot, contents, header, cefVars, consVars, counts>>
        /\ paint'.size = paint.size /\ paint'.page = paint.page
        /\ paint'.dirty = paint.dirty /\ paint'.recreated = paint.recreated
        /\ uiPc \in {"force", "warmup", "warmupStore"}
        /\ uiPc' \in {"warmup", "warmupStore", "publish"}
    BY <1>1, <1>3 DEF TakeForce, ReadWarmup, StoreWarmup, Paint
  <2>2. QED
    BY <2>1 DEF QuietStep, textureVars, cefVars, consVars
<1>4. CASE GetViewRect
  <2>1. cefSize' = cefSize \/ needsPaint'
    <3>1. CASE GetViewWidth
      <4>1. cefSize.w = view.w => [cefSize EXCEPT !.w = view.w] = cefSize
        BY <1>1 DEF Size
      <4>2. QED
        BY <3>1, <4>1 DEF GetViewWidth
    <3>2. CASE GetViewHeight
      <4>1. cefSize.h = view.h => [cefSize EXCEPT !.h = view.h] = cefSize
        BY <1>1 DEF Size
      <4>2. QED
        BY <3>2, <4>1 DEF GetViewHeight
    <3>3. QED
      BY <1>4, <3>1, <3>2 DEF GetViewRect
  <2>2. QED
    BY <1>4, <2>1
       DEF QuietStep, GetViewRect, GetViewWidth, GetViewHeight, textureVars, consVars
<1>5. QED
  BY <1>2, <1>3, <1>4

\* The members of the records that a step needs.
LEMMA FieldTypes ==
    ASSUME Bounded
    PROVE  /\ header \in Header /\ shown \in Kept /\ paint \in Paint /\ counts \in Counts
           /\ header.frame \in Nat /\ shown.frame \in Nat /\ header.slot \in Slot
           /\ header.truth \in Page /\ page \in Page /\ image \in Page
           /\ contents \in [Slot -> Page] /\ ring \in [Slot -> Size \cup {NoSize}]
           /\ writeSlot \in Slot /\ NextSlot \in Slot
           /\ paint.size \in Size /\ paint.page \in Page
           /\ counts.openFails \in Nat /\ counts.createFails \in Nat
           /\ paint.recreated \in BOOLEAN /\ paint.full \in BOOLEAN
           /\ header.full \in BOOLEAN
<1> USE BoundFacts DEF Bounded, Types
<1>1. header \in Header /\ shown \in Kept /\ image \in Page
  BY DEF FrameTypes
<1>2. paint \in Paint /\ page \in Page
  BY DEF PaintTypes
<1>3. contents \in [Slot -> Page] /\ ring \in [Slot -> Size \cup {NoSize}] /\ writeSlot \in Slot
  BY DEF TextureTypes
<1>4. counts \in Counts
  BY DEF CountTypes
<1>5. NextSlot \in Slot
  BY <1>3, SlotFacts DEF NextSlot
<1>6. /\ header.frame \in Nat /\ shown.frame \in Nat /\ header.slot \in Slot
      /\ header.truth \in Page /\ header.full \in BOOLEAN
  BY <1>1 DEF Header, Kept
<1>7. /\ paint.size \in Size /\ paint.page \in Page
      /\ paint.recreated \in BOOLEAN /\ paint.full \in BOOLEAN
  BY <1>2 DEF Paint
<1>8. counts.openFails \in Nat /\ counts.createFails \in Nat
  BY <1>4 DEF Counts
<1>9. QED
  BY <1>1, <1>2, <1>3, <1>4, <1>5, <1>6, <1>7, <1>8

\* Begin of a paint: CEF's page changes, and perhaps OnAcceleratedPaint takes it up.
LEMMA BeginSteps ==
    ASSUME Bounded, BeginPaint
    PROVE  /\ UNCHANGED <<ring, sharedSize, writeSlot, contents, header, image, shown, shownWhole>>
           /\ uiPc = "idle" /\ uiPc' \in {"idle", "ensure"}
           /\ counts'.createFails = counts.createFails
           /\ ~paint'.recreated /\ cefSize' = cefSize
           /\ \/ counts'.openFails = counts.openFails + 1
              \/ /\ counts'.openFails = counts.openFails
                 /\ uiPc' = "ensure"
                 /\ \A t \in Tiles \ paint'.dirty : page'[t] = page[t]
                 /\ needsPaint => paint'.dirty = Tiles
<1>1. uiPc = "idle" => ~paint.recreated
  BY DEF Bounded, PaintLocals
<1>2. counts \in Counts
  BY FieldTypes
<1>3. PICK k \in Pool, dirty \in SUBSET Tiles :
         \/ \E collected \in SUBSET dirty : PaintCached(k, dirty, collected)
         \/ \E collected \in SUBSET dirty : PaintOpened(k, dirty, collected)
         \/ OpenFails(k, dirty)
  BY DEF BeginPaint
<1>4. CefPaints(dirty)
  BY <1>3 DEF PaintCached, PaintOpened, OpenFails
<1>5. /\ UNCHANGED <<ring, sharedSize, writeSlot, contents, header, image, shown, shownWhole>>
      /\ uiPc = "idle"
      /\ \A t \in Tiles \ dirty : page'[t] = page[t]
      /\ cefSize' = cefSize /\ (needsPaint => dirty = Tiles)
  BY <1>4 DEF CefPaints, textureVars, consVars
<1>6. CASE OpenFails(k, dirty)
  BY <1>1, <1>2, <1>5, <1>6 DEF OpenFails, Counts
<1>7. CASE \E collected \in SUBSET dirty : \E texture : BeginWith(dirty, collected, texture)
  <2>1. uiPc' = "ensure" /\ paint'.dirty = dirty /\ ~paint'.recreated
    BY <1>7 DEF BeginWith, NoPaint
  <2>2. CASE counts' = [counts EXCEPT !.paints = @ + 1]
    BY <1>2, <1>5, <2>1, <2>2 DEF Counts
  <2>3. QED
    BY <1>3, <1>2, <1>5, <1>6, <2>1, <2>2 DEF PaintCached, PaintOpened
<1>8. QED
  BY <1>3, <1>6, <1>7 DEF PaintCached, PaintOpened

LEMMA FramesInit == Init => FrameInv
<1> SUFFICES ASSUME Init PROVE FrameInv
  OBVIOUS
<1>1. Bounded
  BY BoundedInit
<1>2. HeaderFollows /\ ShownFollows /\ TexturesFollow
  BY DEF Init, HeaderFollows, ShownFollows, TexturesFollow, RingMatches, OneSize, FirstHeader,
            KeptOf
<1>3. QED
  BY <1>1, <1>2 DEF FrameInv

LEMMA FramesStep == FrameInv /\ [Next]_vars => FrameInv'
<1> SUFFICES ASSUME FrameInv, [Next]_vars PROVE (HeaderFollows /\ ShownFollows /\ TexturesFollow)'
  BY BoundedStep DEF FrameInv
<1>1. Bounded /\ HeaderFollows /\ ShownFollows /\ TexturesFollow /\ PaintLocals
  BY DEF FrameInv, Bounded
<1>2. /\ header \in Header /\ shown \in Kept /\ paint \in Paint /\ counts \in Counts
      /\ header.frame \in Nat /\ shown.frame \in Nat /\ counts.createFails \in Nat
      /\ ring \in [Slot -> Size \cup {NoSize}]
  BY <1>1, FieldTypes
<1> USE DEF HeaderFollows, ShownFollows, TexturesFollow, RingMatches, OneSize
<1>3. CASE QuietStep
  BY <1>1, <1>2, <1>3 DEF QuietStep
<1>4. CASE BeginPaint
  BY <1>1, <1>2, <1>4, BeginSteps DEF PaintLocals
<1>5. CASE TexturesReady
  BY <1>1, <1>2, <1>5 DEF TexturesReady, textureVars, consVars
<1>6. CASE TexturesRecreated
  <2>1. /\ header'.slot = 0 /\ header'.size = paint.size /\ header'.frame = header.frame
        /\ header'.truth = header.truth /\ header'.full = TRUE
    BY <1>2, <1>6 DEF TexturesRecreated, Header
  <2>2. paint'.recreated
    BY <1>2, <1>6 DEF TexturesRecreated, Paint
  <2>3. UNCHANGED <<shown, shownWhole, counts>>
    BY <1>6 DEF TexturesRecreated, consVars
  <2>4. HeaderFollows'
    BY <1>6, <2>1 DEF TexturesRecreated
  <2>5. TexturesFollow'
    BY <1>6 DEF TexturesRecreated
  <2>6. ShownFollows'
    BY <1>1, <2>1, <2>2, <2>3
  <2>7. QED
    BY <2>4, <2>5, <2>6
<1>7. ASSUME NEW n \in 0 .. SlotCount, TexturesFail(n)
      PROVE  (HeaderFollows /\ ShownFollows /\ TexturesFollow)'
  <2>1. counts'.createFails = counts.createFails + 1
    BY <1>2, <1>7 DEF TexturesFail, Counts
  <2>2. ~paint.recreated
    BY <1>1, <1>7 DEF PaintLocals, TexturesFail
  <2>3. QED
    BY <1>1, <1>2, <1>7, <2>1, <2>2 DEF TexturesFail, consVars
<1>8. CASE PublishView
  <2>1. /\ header'.slot = writeSlot' /\ header'.size = paint.size
        /\ header'.frame = header.frame + 1 /\ header'.full = paint.full
        /\ uiPc = "publish"
        /\ UNCHANGED <<textureVars, consVars, counts>>
    BY <1>8 DEF PublishView
  <2>2. paint.recreated => paint.full
    BY <1>1, <2>1 DEF PaintLocals
  <2>3. sharedSize = paint.size
    BY <1>1, <2>1 DEF PaintLocals
  <2>4. QED
    BY <1>1, <1>2, <2>1, <2>2, <2>3 DEF textureVars, consVars
<1>9. ASSUME NEW rects \in SUBSET Tiles, PublishPopup(rects)
      PROVE  (HeaderFollows /\ ShownFollows /\ TexturesFollow)'
  <2>1. /\ header'.frame = header.frame + 1 /\ header'.size = sharedSize /\ header'.slot = writeSlot
        /\ UNCHANGED <<textureVars, consVars, writeSlot, paint>>
        /\ counts'.createFails = counts.createFails
        /\ ~paint.recreated
    BY <1>1, <1>2, <1>9 DEF PublishPopup, Header, Counts, PaintLocals
  <2>2. QED
    BY <1>1, <1>2, <2>1 DEF textureVars, consVars
<1>10. CASE ConsumerApplies
  <2>1. /\ UNCHANGED <<textureVars, writeSlot, header, paint, counts>>
        /\ UNCHANGED consVars \/ (shown' = KeptOf(header) /\ shownWhole' = ~paint.recreated)
    BY <1>10 DEF ConsumerApplies
  <2>2. CASE UNCHANGED consVars
    BY <1>1, <1>2, <2>1, <2>2 DEF consVars, textureVars
  <2>3. CASE shown' = KeptOf(header) /\ shownWhole' = ~paint.recreated
    <3>1. shown'.frame = header'.frame /\ shown'.truth = header'.truth /\ header'.frame \in Nat
      BY <1>2, <2>1, <2>3 DEF KeptOf
    <3>2. ~shownWhole' => paint'.recreated
      BY <2>1, <2>3
    <3>3. ShownFollows'
      BY ONLY <3>1, <3>2 DEF ShownFollows
    <3>4. HeaderFollows' /\ TexturesFollow'
      BY <1>1, <2>1 DEF textureVars
    <3>5. QED
      BY <3>3, <3>4
  <2>4. QED
    BY <2>1, <2>2, <2>3
<1>11. QED
  BY <1>1, <1>3, <1>4, <1>5, <1>6, <1>7, <1>8, <1>9, <1>10, QuietSteps DEF Next, FinishPaint

-----------------------------------------------------------------------------
(* Contents: what the textures hold.  The texture opened for the handle is *)
(* taken to be the one CEF painted (TextureIsThePaint), which holds when   *)
(* no handle value is used twice, see below.                               *)

\* The paint in the back slot, once the copy to it is queued.
CopyMade ==
    uiPc \notin {"idle", "rect", "ensure"} => \/ Unrecorded
                                             \/ /\ \A s \in Slot : ring[s] = paint.size
                                                /\ contents[NextSlot] = paint.page

\* The next paint creates new textures, or is of the whole page.
MadeUpFor == \/ \E s \in Slot : ring[s] = NoSize
             \/ cefSize # sharedSize
             \/ needsPaint

\* Before the first textures there is nothing to be seen.
NothingYet == sharedSize = NoSize => /\ header.truth = Blank
                                     /\ contents = [s \in Slot |-> Blank]

\* The slot a whole header names holds that frame's page.
HeaderHolds ==
    ~paint.recreated /\ ring[header.slot] = header.size => contents[header.slot] = header.truth

\* CEF's page is the one last published, but for the damage of the paint in
\* hand; a page that was dropped is made up for.
PageKnown ==
    counts.openFails = 0 =>
        IF uiPc \in {"idle", "rect"} THEN page = header.truth \/ MadeUpFor
        ELSE \/ \A t \in Tiles \ paint.dirty : page[t] = header.truth[t]
             \/ paint.recreated
             \/ uiPc = "ensure" /\ ~Ready

\* A frame with rectangles differs in them alone from the consumer's image, if
\* that is the image of the frame before.
DeltaSound ==
    /\ counts.openFails = 0 /\ ~paint.recreated
    /\ ~header.full /\ header.rects # {} /\ header.frame = shown.frame + 1
    => \A t \in Tiles \ header.rects : header.truth[t] = image[t]

ContentInv == NothingYet /\ HeaderHolds /\ PageKnown /\ DeltaSound /\ ImageIsPage

\* Textures EnsureSharedTextures takes for ready are the paint's, unless they
\* are of a size that was never recorded.
LEMMA ReadyOrUnrecorded ==
    ASSUME OneSize, Ready, ~Unrecorded
    PROVE  \A s \in Slot : ring[s] = paint.size
<1>1. PICK t \in Slot : ring[t] \in {NoSize, sharedSize}
  BY DEF Unrecorded
<1>2. ring[t] = paint.size /\ ring[t] # NoSize
  BY <1>1 DEF Ready
<1>3. QED
  BY <1>2 DEF Ready, OneSize

LEMMA CopyMadeStep == FrameInv /\ CopyMade /\ [Next]_vars => CopyMade'
<1> SUFFICES ASSUME FrameInv, CopyMade, [Next]_vars PROVE CopyMade'
  OBVIOUS
<1> USE DEF CopyMade, Unrecorded
<1>0. Bounded /\ OneSize
  BY DEF FrameInv, TexturesFollow
<1>1. /\ paint \in Paint /\ contents \in [Slot -> Page] /\ writeSlot \in Slot /\ NextSlot \in Slot
  BY <1>0, FieldTypes
<1>2. CASE QuietStep
  BY <1>2 DEF QuietStep, NextSlot
<1>3. CASE BeginPaint
  BY <1>0, <1>3, BeginSteps
<1>4. CASE TexturesReady
  <2>1. /\ UNCHANGED <<ring, sharedSize, writeSlot, paint>>
        /\ contents' = [contents EXCEPT ![NextSlot] = IF ring[NextSlot] = paint.size THEN paint.page
                                                      ELSE @]
    BY <1>4 DEF TexturesReady, CopyTo, textureVars
  <2>2. CASE Unrecorded
    BY <2>1, <2>2
  <2>3. CASE ~Unrecorded
    <3>1. \A s \in Slot : ring[s] = paint.size
      BY <1>0, <1>4, <2>3, ReadyOrUnrecorded DEF TexturesReady
    <3>2. QED
      BY <1>1, <2>1, <3>1 DEF NextSlot
  <2>4. QED
    BY <2>2, <2>3
<1>5. CASE TexturesRecreated
  <2>1. paint'.page = paint.page /\ paint'.size = paint.size
    BY <1>1, <1>5 DEF TexturesRecreated, Paint
  <2>2. NextSlot' = 1 % SlotCount
    BY <1>5, ViewPaintAssumption DEF TexturesRecreated, NextSlot, ViewPaintAssumption
  <2>3. QED
    BY <1>5, <2>1, <2>2, SlotFacts DEF TexturesRecreated
<1>6. CASE (\E n \in 0 .. SlotCount : TexturesFail(n)) \/ PublishView
            \/ (\E rects \in SUBSET Tiles : PublishPopup(rects))
  BY <1>6 DEF TexturesFail, PublishView, PublishPopup
<1>7. CASE ConsumerApplies
  BY <1>7 DEF ConsumerApplies, textureVars, NextSlot
<1>8. QED
  BY <1>2, <1>3, <1>4, <1>5, <1>6, <1>7, <1>0, QuietSteps DEF Next, FinishPaint

LEMMA PublishedWasPainted ==
    ASSUME Bounded, CopyMade, TextureIsThePaint, PublishView, ~Unrecorded
    PROVE  /\ ring[header'.slot] = header'.size
           /\ contents[header'.slot] = header'.truth
<1>1. NextSlot \in Slot
  BY FieldTypes
<1>2. /\ uiPc = "publish"
      /\ header'.slot = NextSlot /\ header'.size = paint.size /\ header'.truth = page
  BY DEF PublishView
<1>3. QED
  BY <1>1, <1>2 DEF CopyMade, TextureIsThePaint

\* What the steps below need: the invariants, and the device and CEF as above.
Assumed ==
    /\ FrameInv /\ CopyMade /\ ContentInv
    /\ TextureIsThePaint
    /\ SlotCount > 1
    /\ NoSize \notin Size

LEMMA ContentQuiet == ASSUME Assumed, QuietStep PROVE ContentInv'
<1>1. \/ uiPc' = uiPc
      \/ uiPc \in {"idle", "rect"} /\ uiPc' \in {"idle", "rect"}
      \/ uiPc \notin {"idle", "rect", "ensure"} /\ uiPc' \notin {"idle", "rect", "ensure"}
  BY DEF QuietStep
<1>2. NothingYet' /\ HeaderHolds' /\ DeltaSound' /\ ImageIsPage'
  BY DEF Assumed, ContentInv, QuietStep, NothingYet, HeaderHolds, DeltaSound, ImageIsPage
<1>3. PageKnown'
  <2>1. (page = header.truth \/ MadeUpFor) => (page = header.truth \/ MadeUpFor)'
    BY DEF QuietStep, MadeUpFor
  <2>2. Ready' <=> Ready
    BY DEF QuietStep, Ready
  <2>3. QED
    BY <1>1, <2>1, <2>2 DEF Assumed, ContentInv, QuietStep, PageKnown
<1>4. QED
  BY <1>2, <1>3 DEF ContentInv

LEMMA ContentBegin == ASSUME Assumed, TextureIsThePaint', BeginPaint PROVE ContentInv'
<1>1. /\ UNCHANGED <<ring, sharedSize, writeSlot, contents, header, image, shown, shownWhole>>
      /\ uiPc = "idle" /\ ~paint'.recreated /\ cefSize' = cefSize
      /\ \/ counts'.openFails = counts.openFails + 1
         \/ /\ counts'.openFails = counts.openFails
            /\ uiPc' = "ensure"
            /\ \A t \in Tiles \ paint'.dirty : page'[t] = page[t]
            /\ needsPaint => paint'.dirty = Tiles
  BY BeginSteps DEF Assumed, FrameInv
<1>2. counts.openFails \in Nat /\ ~paint.recreated
  BY <1>1, FieldTypes DEF Assumed, FrameInv, Bounded, PaintLocals
<1>3. NothingYet' /\ HeaderHolds' /\ DeltaSound' /\ ImageIsPage'
  BY <1>1, <1>2 DEF Assumed, ContentInv, NothingYet, HeaderHolds, DeltaSound, ImageIsPage
<1>4. PageKnown'
  <2>1. SUFFICES ASSUME counts'.openFails = 0
                 PROVE  \/ \A t \in Tiles \ paint'.dirty : page'[t] = header.truth[t]
                        \/ ~Ready'
    BY <1>1, <1>2 DEF PageKnown
  <2>2. /\ counts.openFails = 0 /\ uiPc' = "ensure"
        /\ \A t \in Tiles \ paint'.dirty : page'[t] = page[t]
        /\ needsPaint => paint'.dirty = Tiles
    BY <1>1, <1>2, <2>1
  <2>3. page = header.truth \/ MadeUpFor
    BY <1>1, <2>2 DEF Assumed, ContentInv, PageKnown
  <2>4. paint'.size = cefSize
    BY <1>1, <2>2 DEF TextureIsThePaint
  <2>5. CASE needsPaint \/ page = header.truth
    BY <2>2, <2>5
  <2>6. CASE cefSize # sharedSize \/ \E s \in Slot : ring[s] = NoSize
    BY <1>1, <2>4, <2>6 DEF Ready
  <2>7. QED
    BY <2>3, <2>5, <2>6 DEF MadeUpFor
<1>5. QED
  BY <1>3, <1>4 DEF ContentInv

\* The copy goes to a slot the header does not name.
LEMMA ContentReady == ASSUME Assumed, TexturesReady PROVE ContentInv'
<1>1. /\ UNCHANGED <<ring, sharedSize, writeSlot, header, paint, page, image, shown, shownWhole,
                     counts>>
      /\ uiPc = "ensure" /\ uiPc' = "force"
      /\ contents' = [contents EXCEPT ![NextSlot] = IF ring[NextSlot] = paint.size THEN paint.page
                                                    ELSE @]
      /\ sharedSize = paint.size /\ Ready
  BY DEF TexturesReady, Ready, CopyTo, textureVars, cefVars, consVars
<1>2. /\ header.slot = writeSlot /\ writeSlot \in Slot /\ NextSlot \in Slot
      /\ contents \in [Slot -> Page] /\ paint.size \in Size
  BY FieldTypes DEF Assumed, FrameInv, HeaderFollows
<1>3. NextSlot # header.slot
  BY <1>2, SlotFacts DEF Assumed, NextSlot
<1>4. sharedSize # NoSize
  BY <1>1, <1>2 DEF Assumed
<1>5. contents'[header.slot] = contents[header.slot]
  BY <1>1, <1>2, <1>3
<1>6. NothingYet' /\ HeaderHolds' /\ DeltaSound' /\ ImageIsPage'
  BY <1>1, <1>4, <1>5 DEF Assumed, ContentInv, NothingYet, HeaderHolds, DeltaSound, ImageIsPage
<1>7. PageKnown'
  BY <1>1 DEF Assumed, ContentInv, PageKnown
<1>8. QED
  BY <1>6, <1>7 DEF ContentInv

\* The header is rewritten in place: until the publish it is not a frame.
LEMMA ContentRecreated == ASSUME Assumed, TexturesRecreated PROVE ContentInv'
<1>1. paint \in Paint /\ paint.size \in Size
  BY FieldTypes DEF Assumed, FrameInv
<1>2. /\ paint'.recreated /\ sharedSize' = paint.size /\ uiPc' = "force"
      /\ UNCHANGED <<image, shown, shownWhole, counts>>
  BY <1>1 DEF TexturesRecreated, consVars, Paint
<1>3. QED
  BY <1>1, <1>2 DEF Assumed, ContentInv, NothingYet, HeaderHolds, PageKnown, DeltaSound, ImageIsPage

\* A first failure is at a size that is not the recorded one: no texture has the
\* size the header gives.
LEMMA ContentFails ==
    ASSUME Assumed, NEW n \in 0 .. SlotCount, TexturesFail(n), counts'.createFails <= 1
    PROVE  ContentInv'
<1>1. /\ paint \in Paint /\ paint.size \in Size /\ counts \in Counts
      /\ counts.createFails \in Nat /\ header.slot \in Slot
  BY FieldTypes DEF Assumed, FrameInv
<1>2. /\ UNCHANGED <<sharedSize, cefSize, writeSlot, header, page, image, shown, shownWhole>>
      /\ uiPc = "ensure"
      /\ counts'.openFails = counts.openFails /\ counts'.createFails = counts.createFails + 1
      /\ ~paint.recreated /\ paint' = NoPaint /\ uiPc' = "idle" /\ ~Ready
      /\ ring' = [s \in Slot |-> IF s < n THEN paint.size ELSE NoSize]
      /\ contents' = [s \in Slot |-> Blank]
  BY <1>1 DEF Assumed, FrameInv, Bounded, PaintLocals, TexturesFail, Counts, cefVars, consVars
<1>3. counts.createFails = 0
  BY <1>1, <1>2
<1>4. \A s \in Slot : ring[s] = sharedSize
  BY <1>3 DEF Assumed, FrameInv, TexturesFollow, RingMatches
<1>5. sharedSize # paint.size
  <2>1. SUFFICES ASSUME sharedSize = paint.size PROVE Ready
    BY <1>2
  <2>2. \A s \in Slot : ring[s] # NoSize
    BY <1>1, <1>4, <2>1 DEF Assumed
  <2>3. QED
    BY <2>1, <2>2 DEF Ready
<1>6. header.size = sharedSize
  BY DEF Assumed, FrameInv, HeaderFollows
<1>7. NothingYet' /\ DeltaSound' /\ ImageIsPage'
  BY <1>2 DEF Assumed, ContentInv, NothingYet, DeltaSound, ImageIsPage
<1>8. HeaderHolds'
  <2>1. CASE sharedSize = NoSize
    BY <1>1, <1>2, <2>1 DEF Assumed, ContentInv, NothingYet, HeaderHolds
  <2>2. CASE sharedSize # NoSize
    BY <1>1, <1>2, <1>5, <1>6, <2>2 DEF HeaderHolds
  <2>3. QED
    BY <2>1, <2>2
<1>9. PageKnown'
  <2>1. cefSize' # sharedSize'
    BY <1>2, <1>5 DEF Assumed, TextureIsThePaint
  <2>2. QED
    BY <1>2, <2>1 DEF PageKnown, MadeUpFor
<1>10. QED
  BY <1>7, <1>8, <1>9 DEF ContentInv

\* A view frame is published.
LEMMA ContentPublish == ASSUME Assumed, PublishView PROVE ContentInv'
<1>1. /\ header' = [frame |-> header.frame + 1, size |-> paint.size, slot |-> NextSlot,
                    full |-> paint.full, resized |-> paint.recreated,
                    rects |-> IF paint.full THEN {} ELSE paint.collected, truth |-> page]
      /\ uiPc = "publish" /\ uiPc' = "idle" /\ paint' = NoPaint
      /\ UNCHANGED <<ring, sharedSize, contents, page, image, shown, shownWhole, counts>>
  BY DEF PublishView, textureVars, cefVars, consVars
<1>2. NextSlot \in Slot
  BY FieldTypes DEF Assumed, FrameInv
<1>3. /\ header.frame \in Nat /\ shown.frame \in Nat /\ paint.size \in Size
      /\ paint.recreated \in BOOLEAN
  BY FieldTypes DEF Assumed, FrameInv
<1>4. sharedSize = paint.size /\ sharedSize # NoSize
  BY <1>1, <1>3 DEF Assumed, FrameInv, Bounded, PaintLocals
<1>5. NothingYet' /\ HeaderHolds' /\ PageKnown' /\ ImageIsPage'
  <2>1. HeaderHolds'
    <3>1. CASE Unrecorded
      BY <1>1, <1>2, <1>4, <3>1 DEF HeaderHolds, Unrecorded
    <3>2. CASE ~Unrecorded
      BY <1>1, <3>2, PublishedWasPainted DEF HeaderHolds, Assumed, FrameInv
    <3>3. QED
      BY <3>1, <3>2
  <2>2. NothingYet' /\ PageKnown' /\ ImageIsPage'
    BY <1>1, <1>4 DEF Assumed, ContentInv, NothingYet, PageKnown, ImageIsPage
  <2>3. QED
    BY <2>1, <2>2
<1>6. DeltaSound'
  <2>1. SUFFICES ASSUME counts.openFails = 0, ~paint.full, header.frame + 1 = shown.frame + 1
                 PROVE  \A t \in Tiles \ paint.collected : page[t] = image[t]
    BY <1>1 DEF DeltaSound
  <2>2. ~paint.recreated /\ paint.collected = paint.dirty
    BY <1>1, <2>1 DEF Assumed, FrameInv, Bounded, PaintLocals
  <2>3. shown.frame = header.frame
    BY <1>3, <2>1
  <2>4. shownWhole /\ shown.truth = header.truth
    BY <1>3, <2>2, <2>3 DEF Assumed, FrameInv, ShownFollows
  <2>5. image = header.truth
    BY <2>1, <2>4 DEF Assumed, ContentInv, ImageIsPage
  <2>6. \A t \in Tiles \ paint.dirty : page[t] = header.truth[t]
    BY <1>1, <2>1, <2>2 DEF Assumed, ContentInv, PageKnown
  <2>7. QED
    BY <2>2, <2>5, <2>6
<1>7. QED
  BY <1>5, <1>6 DEF ContentInv

\* A popup frame is published: the same slot and the same page.
LEMMA ContentPopup ==
    ASSUME Assumed, NEW rects \in SUBSET Tiles, PublishPopup(rects)
    PROVE  ContentInv'
<1>1. /\ header \in Header /\ counts \in Counts /\ header.frame \in Nat /\ shown.frame \in Nat
      /\ paint.recreated \in BOOLEAN
  BY FieldTypes DEF Assumed, FrameInv
<1>2. /\ header'.frame = header.frame + 1 /\ header'.size = sharedSize /\ header'.slot = writeSlot
      /\ header'.truth = header.truth
      /\ uiPc = "idle" /\ counts'.openFails = counts.openFails
      /\ UNCHANGED <<ring, sharedSize, contents, page, image, shown, shownWhole, paint, uiPc,
                     cefSize, needsPaint>>
  BY <1>1 DEF PublishPopup, textureVars, cefVars, consVars, Header, Counts
<1>3. header.size = sharedSize /\ header.slot = writeSlot
  BY DEF Assumed, FrameInv, HeaderFollows
<1>4. NothingYet' /\ HeaderHolds' /\ PageKnown' /\ ImageIsPage'
  BY <1>2, <1>3
     DEF Assumed, ContentInv, NothingYet, HeaderHolds, PageKnown, ImageIsPage, MadeUpFor
<1>5. DeltaSound'
  <2>1. SUFFICES ASSUME counts.openFails = 0, header.frame + 1 = shown.frame + 1
                 PROVE  image = header.truth
    BY <1>2 DEF DeltaSound
  <2>2. shown.frame = header.frame /\ ~paint.recreated
    BY <1>1, <1>2, <2>1 DEF Assumed, FrameInv, Bounded, PaintLocals
  <2>3. shownWhole /\ shown.truth = header.truth
    BY <1>1, <2>2 DEF Assumed, FrameInv, ShownFollows
  <2>4. QED
    BY <2>1, <2>3 DEF Assumed, ContentInv, ImageIsPage
<1>6. QED
  BY <1>4, <1>5 DEF ContentInv

\* The consumer takes up a frame: all of it, or its rectangles.
LEMMA ContentApplies == ASSUME Assumed, ConsumerApplies PROVE ContentInv'
<1>1. /\ header \in Header /\ header.frame \in Nat /\ shown.frame \in Nat /\ header.slot \in Slot
      /\ image \in Page /\ header.truth \in Page /\ contents \in [Slot -> Page]
  BY FieldTypes DEF Assumed, FrameInv
<1>2. UNCHANGED <<ring, sharedSize, contents, header, page, paint, uiPc, counts, cefSize,
                needsPaint>>
  BY DEF ConsumerApplies, textureVars, cefVars
<1>3. NothingYet' /\ HeaderHolds' /\ PageKnown'
  BY <1>2 DEF Assumed, ContentInv, NothingYet, HeaderHolds, PageKnown, MadeUpFor, Ready
<1>4. CASE UNCHANGED consVars
  BY <1>2, <1>3, <1>4 DEF Assumed, ContentInv, consVars, DeltaSound, ImageIsPage
<1>5. CASE /\ header.frame # shown.frame /\ ring[header.slot] = header.size
           /\ image' = [t \in Tiles |-> IF CopiesAll(header) \/ t \in header.rects
                                        THEN contents[header.slot][t] ELSE image[t]]
           /\ shown' = KeptOf(header) /\ shownWhole' = ~paint.recreated
  <2>1. DeltaSound'
    BY <1>1, <1>2, <1>5 DEF DeltaSound, KeptOf
  <2>2. ASSUME ~paint.recreated, counts.openFails = 0 PROVE image' = header.truth
    <3>1. contents[header.slot] = header.truth
      BY <1>5, <2>2 DEF Assumed, ContentInv, HeaderHolds
    <3>2. \A t \in Tiles : image'[t] = header.truth[t]
      BY <1>5, <2>2, <3>1 DEF CopiesAll, Assumed, ContentInv, DeltaSound
    <3>3. image' \in [Tiles -> 0 .. MaxVersion] /\ header.truth \in [Tiles -> 0 .. MaxVersion]
      BY <1>1, <1>5 DEF Page
    <3>4. QED
      BY <3>2, <3>3
  <2>3. ImageIsPage'
    BY <1>2, <1>5, <2>2 DEF ImageIsPage, KeptOf
  <2>4. QED
    BY <1>3, <2>1, <2>3 DEF ContentInv
<1>6. QED
  BY <1>4, <1>5 DEF ConsumerApplies

LEMMA ContentStep ==
    ASSUME Assumed, [Next]_vars, TextureIsThePaint', (counts.createFails <= 1)'
    PROVE  ContentInv'
<1>1. Bounded
  BY DEF Assumed, FrameInv
<1>2. QED
  BY <1>1, QuietSteps, ContentQuiet, ContentBegin, ContentReady, ContentRecreated, ContentFails,
     ContentPublish, ContentPopup, ContentApplies DEF Next, FinishPaint

LEMMA ContentInit == Init => ContentInv /\ CopyMade
<1> SUFFICES ASSUME Init PROVE ContentInv /\ CopyMade
  OBVIOUS
<1>1. NothingYet /\ DeltaSound /\ ImageIsPage /\ CopyMade
  BY DEF Init, NothingYet, DeltaSound, ImageIsPage, CopyMade, FirstHeader, KeptOf
<1>2. HeaderHolds
  BY SlotFacts DEF Init, HeaderHolds, FirstHeader
<1>3. PageKnown
  BY DEF Init, PageKnown, FirstHeader
<1>4. QED
  BY <1>1, <1>2, <1>3 DEF ContentInv

-----------------------------------------------------------------------------
(* The assumption on the handles, and EnsureSharedTextures' promise.        *)

\* A cached handle is that of a texture of the cached size.
HandleOfTexture == cached.handle # <<>> => \E k \in Pool : cached.handle = Handle(k, cached.size)

LEMMA TextureStep ==
    ASSUME ~HandlesReused, Bounded, HandleOfTexture, TextureIsThePaint, [Next]_vars
    PROVE  HandleOfTexture' /\ TextureIsThePaint'
<1> USE DEF HandleOfTexture, TextureIsThePaint
<1>1. /\ paint \in Paint /\ cached \in [handle : Handles, size : Size, page : Page]
  BY DEF Bounded, Types, PaintTypes
<1>2. ASSUME NEW k \in Pool, NEW dirty \in SUBSET Tiles, NEW collected \in SUBSET dirty,
             PaintCached(k, dirty, collected)
      PROVE  HandleOfTexture' /\ TextureIsThePaint'
  <2>1. cached.handle = <<k, cefSize>> /\ cached.handle # <<>>
    BY <1>2 DEF PaintCached, Handle
  <2>2. PICK j \in Pool : cached.handle = <<j, cached.size>>
    BY <2>1 DEF Handle
  <2>3. cached.size = cefSize
    BY <2>1, <2>2
  <2>4. /\ cached' = [cached EXCEPT !.page = page']
        /\ BeginWith(dirty, collected, cached')
        /\ cefSize' = cefSize
    BY <1>2, <2>3 DEF PaintCached, CefPaints
  <2>5. cached'.size = cefSize /\ cached'.page = page' /\ cached'.handle = cached.handle
    BY <1>1, <2>3, <2>4
  <2>6. paint'.size = cached'.size /\ paint'.page = cached'.page
    BY <2>4 DEF BeginWith, NoPaint
  <2>7. QED
    BY <2>1, <2>4, <2>5, <2>6 DEF Handle
<1>3. ASSUME NEW k \in Pool, NEW dirty \in SUBSET Tiles, NEW collected \in SUBSET dirty,
             PaintOpened(k, dirty, collected)
      PROVE  HandleOfTexture' /\ TextureIsThePaint'
  <2>1. /\ cached' = [handle |-> Handle(k, cefSize), size |-> cefSize, page |-> page']
        /\ BeginWith(dirty, collected, cached')
        /\ cefSize' = cefSize
    BY <1>3 DEF PaintOpened, CefPaints
  <2>2. paint'.size = cached'.size /\ paint'.page = cached'.page
    BY <2>1 DEF BeginWith, NoPaint
  <2>3. QED
    BY <2>1, <2>2
<1>4. ASSUME NEW k \in Pool, NEW dirty \in SUBSET Tiles, OpenFails(k, dirty)
      PROVE  HandleOfTexture' /\ TextureIsThePaint'
  BY <1>4 DEF OpenFails, CefPaints
<1>5. CASE GetViewRect \/ PublishView \/ (\E n \in 0 .. SlotCount : TexturesFail(n))
  BY <1>5 DEF GetViewRect, GetViewWidth, GetViewHeight, PublishView, TexturesFail
<1>6. CASE TexturesReady \/ TexturesRecreated \/ TakeForce \/ ReadWarmup \/ StoreWarmup
  <2>1. /\ paint'.size = paint.size /\ paint'.page = paint.page /\ uiPc \notin {"idle", "rect"}
        /\ UNCHANGED <<cefSize, page, cached>>
    BY <1>1, <1>6 DEF TexturesReady, TexturesRecreated, TakeForce, ReadWarmup, StoreWarmup, cefVars,
                      Paint
  <2>2. QED
    BY <2>1
<1>7. ASSUME (\E size \in Requests : ResizeWidth(size)) \/ Resize
             \/ (\E rects \in SUBSET Tiles : PublishPopup(rects)) \/ ConsumerApplies \/ UNCHANGED vars
      PROVE  HandleOfTexture' /\ TextureIsThePaint'
  <2>1. UNCHANGED <<uiPc, paint, cefSize, page, cached>>
    BY <1>7 DEF ResizeWidth, Resize, ResizeHeight, ResizeForce, ResizeWarmup, ResizeNotify,
                PublishPopup, ConsumerApplies, cefVars, vars
  <2>2. QED
    BY <2>1
<1>8. QED
  BY <1>2, <1>3, <1>4, <1>5, <1>6, <1>7 DEF Next, BeginPaint, FinishPaint

LEMMA TargetSize == ASSUME FrameInv, MaxCreateFails = 0 PROVE TargetSizeEnsured
<1>1. counts.createFails = 0
  BY DEF FrameInv, Bounded, Types, CountTypes, Counts
<1>2. QED
  BY <1>1 DEF FrameInv, Bounded, PaintLocals, TexturesFollow, RingMatches, TargetSizeEnsured

-----------------------------------------------------------------------------
(* The theorems.                                                           *)

\* What holds whatever CEF and the device do: types, locals, headers.
THEOREM FramesInvariant == Spec => []FrameInv
<1>1. QED
  BY FramesInit, FramesStep, PTL DEF Spec

\* Every variable of the paint stays in its type: however Resize and the UI
\* thread interleave on m_warmupFullFrames it is neither negative nor more than
\* its first value, and a paint publishes at most one frame.
THEOREM PaintTypeCorrect == Spec => []TypeOK
<1>1. FrameInv => TypeOK
  BY TypesAreTypeOK DEF FrameInv, Bounded
<1>2. QED
  BY <1>1, FramesInvariant, PTL

\* As long as the opened texture is the one CEF painted, a view frame is
\* published with a slot of the size its header gives that holds the page,
\* through resizes, popups and any number of failures.  The property leaves out
\* the frame of a page that is back at the recorded size while the textures of a
\* failed creation are all there (Unrecorded).
THEOREM PublishesWhatWasPainted ==
    Spec /\ []TextureIsThePaint => PublishesPainted
<1>1. Init => CopyMade
  BY ContentInit
<1>2. FrameInv /\ CopyMade /\ [Next]_vars => CopyMade'
  BY CopyMadeStep
<1>3. FrameInv /\ CopyMade /\ TextureIsThePaint /\ [Next]_vars
      => [PublishView /\ ~Unrecorded => /\ ring[header'.slot] = header'.size
                                        /\ contents[header'.slot] = header'.truth]_vars
  BY PublishedWasPainted DEF FrameInv
<1>4. QED
  BY <1>1, <1>2, <1>3, FramesInvariant, PTL DEF Spec, PublishesPainted

\* Under the same assumption, and if no more than one creation fails, a consumer
\* that copies only the declared damage has the page as CEF painted it whenever
\* every paint was opened: no missed frame, popup, overflow or new texture leaves
\* a stale tile, and a frame of the size EnsureSharedTextures took for ready
\* wrongly is never taken up.
\* Two slots are needed, for the copy not to go to the slot the header names.
THEOREM ImageIsAlwaysPage ==
    ASSUME SlotCount > 1, NoSize \notin Size
    PROVE  Spec /\ []TextureIsThePaint /\ [](counts.createFails <= 1) => []ImageIsPage
<1> DEFINE OneFailure == counts.createFails <= 1
<1>1. Init => CopyMade /\ ContentInv
  BY ContentInit
<1>2. /\ FrameInv /\ CopyMade /\ ContentInv /\ TextureIsThePaint /\ [Next]_vars
      /\ TextureIsThePaint' /\ OneFailure'
      => CopyMade' /\ ContentInv'
  BY CopyMadeStep, ContentStep DEF FrameInv, Assumed
<1>3. ContentInv => ImageIsPage
  BY DEF ContentInv
<1> HIDE DEF OneFailure
<1>4. Spec /\ []TextureIsThePaint /\ []OneFailure => []ImageIsPage
  BY <1>1, <1>2, <1>3, FramesInvariant, PTL DEF Spec
<1>5. QED
  BY <1>4 DEF OneFailure

\* Without failed creations EnsureSharedTextures keeps its promise
\* (osr_handler.h:175): once it has returned true every texture has the size
\* of the paint.
THEOREM EnsuresTargetSize == ASSUME MaxCreateFails = 0 PROVE Spec => []TargetSizeEnsured
<1>1. FrameInv => TargetSizeEnsured
  BY TargetSize
<1>2. QED
  BY <1>1, FramesInvariant, PTL

\* If CEF gives no handle value to two textures, the cache never serves another
\* texture than the one CEF has painted.
THEOREM CachedTextureIsThePaint == ASSUME ~HandlesReused PROVE Spec => []TextureIsThePaint
<1>1. Init => HandleOfTexture /\ TextureIsThePaint
  BY DEF Init, HandleOfTexture, TextureIsThePaint
<1>2. FrameInv /\ HandleOfTexture /\ TextureIsThePaint /\ [Next]_vars
      => HandleOfTexture' /\ TextureIsThePaint'
  BY TextureStep DEF FrameInv
<1>3. QED
  BY <1>1, <1>2, FramesInvariant, PTL DEF Spec

\* So, with handles that are not used twice and no more than one failed creation,
\* both hold: what the host publishes from recorded textures is the page, and
\* what the consumer shows is the page.
THEOREM PaintIsRight ==
    ASSUME ~HandlesReused, MaxCreateFails <= 1, SlotCount > 1, NoSize \notin Size
    PROVE  Spec => PublishesPainted /\ []ImageIsPage
<1>1. FrameInv => counts.createFails <= 1
  BY BoundFacts DEF FrameInv, Bounded, Types, CountTypes, Counts
<1>2. Spec => [](counts.createFails <= 1)
  BY <1>1, FramesInvariant, PTL
<1>3. QED
  BY <1>2, CachedTextureIsThePaint, PublishesWhatWasPainted, ImageIsAlwaysPage, PTL
=============================================================================
