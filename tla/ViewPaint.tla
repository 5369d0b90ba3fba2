----------------------------- MODULE ViewPaint -----------------------------
(***************************************************************************)
(* What a frame says of the page: the shared textures kept at the size CEF *)
(* paints with, the cached CEF texture, and the damage (dirty rectangles   *)
(* or FULL_FRAME) a frame is published with.                               *)
(*                                                                         *)
(* OnAcceleratedPaint runs on the UI thread, Resize on the control thread, *)
(* without a common lock.  CEF and the consumer are outside: CEF paints    *)
(* the page into a texture of its pool and passes the damage; the consumer *)
(* keeps an image, and copies from the slot only what a frame declares     *)
(* damaged, or everything when frame_id shows that it missed one           *)
(* (PROJECT_LOG.md:51,60).                                                 *)
(*                                                                         *)
(* The page is a set of tiles; the content of a tile is the number of the  *)
(* paint that changed it last.  GPU order, fences and the torn header are  *)
(* the subject of FrameTransport: here a publish is one step.              *)
(***************************************************************************)
EXTENDS Integers, FiniteSets

CONSTANTS Tiles,          \* parts of the page
          Pool,           \* the textures CEF paints into, of each size
          FirstSize,      \* the size given on the command line
          Requests,       \* the sizes a Resize event may carry
          SlotCount,      \* SHM_FRAME_SLOT_COUNT
          WarmupFrames,   \* 3
          HandlesReused,  \* CEF's handle values come back for other textures
          MaxPaints,      \* bound: paints that no resize asks for
          MaxPopups,      \* bound: popup frames
          MaxResizes,     \* bound: Resize events
          MaxOpenFails,   \* bound: failed OpenSharedResource1
          MaxCreateFails  \* bound: failed texture or handle creations

Size == [w : {r.w : r \in Requests \cup {FirstSize}}, h : {r.h : r \in Requests \cup {FirstSize}}]
NoSize == [w |-> 0, h |-> 0]
Slot == 0 .. SlotCount - 1

ASSUME ViewPaintAssumption ==
    /\ SlotCount \in Nat \ {0}
    /\ WarmupFrames \in Nat
    /\ HandlesReused \in BOOLEAN
    /\ {MaxPaints, MaxPopups, MaxResizes, MaxOpenFails, MaxCreateFails} \subseteq Nat
    /\ Requests \cup {FirstSize} \subseteq [w : Nat, h : Nat] \ {NoSize}

VARIABLES
    view,          \* m_width, m_height
    resizePc,      \* where Resize is
    resizeTo,      \* its arguments
    forceFull,     \* m_forceFullFrame
    warmup,        \* m_warmupFullFrames
    ring,          \* the size of each m_sharedTexture, NoSize if null
    plane,         \* the size of m_sharedPopupTexture, NoSize if null
    sharedSize,    \* m_sharedWidth, m_sharedHeight
    writeSlot,     \* m_writeSlot
    contents,      \* the page in each shared texture
    cached,        \* m_cachedHandleView and m_cachedTextureView
    header,        \* the shared frame header
    frameReady,    \* the event CEFHost_FrameReady
    uiPc,          \* where OnAcceleratedPaint is
    paint,         \* its arguments and locals
    cefSize,       \* CEF: the size it paints with
    wasResized,    \* CEF: WasResized has been called
    needsPaint,    \* CEF: the page has not been painted since its size changed
    page,          \* CEF: the page as it is painted
    image,         \* the consumer's image
    shown,         \* of the header it last applied: frame, size and truth
    shownWhole,    \* history: that header was not read in mid-paint
    counts         \* paints, popups, resizes, failures so far

resizeVars == <<view, resizePc, resizeTo>>
textureVars == <<ring, plane, sharedSize>>
cefVars == <<cefSize, wasResized, needsPaint, page>>
consVars == <<image, shown, shownWhole>>
vars == <<resizeVars, forceFull, warmup, textureVars, writeSlot, contents, cached,
          header, frameReady, uiPc, paint, cefVars, consVars, counts>>

MaxVersion == MaxPaints + 3 * MaxResizes + 1
Page == [Tiles -> 0 .. MaxVersion]
Blank == [t \in Tiles |-> 0]

\* popup: the rectangle is of the popup plane.  truth: history, the page as
\* CEF had it when the frame was published.
Header == [frame : 0 .. MaxVersion + MaxPopups, size : Size \cup {NoSize}, slot : Slot,
           full : BOOLEAN, resized : BOOLEAN, rects : SUBSET Tiles, truth : Page]
FirstHeader == [frame |-> 0, size |-> NoSize, slot |-> 0, full |-> TRUE, resized |-> FALSE,
                rects |-> {}, truth |-> Blank]

\* What the consumer keeps of a header it has applied.
Kept == [frame : 0 .. MaxVersion + MaxPopups, size : Size \cup {NoSize}, truth : Page]
KeptOf(h) == [frame |-> h.frame, size |-> h.size, truth |-> h.truth]

\* size, page: the texture it copies; dirty, collected: the damage, and as
\* much of it as fits MAX_DIRTY_RECTS; recreated, full, warm: its locals.
Paint == [size : Size, page : Page, dirty : SUBSET Tiles, collected : SUBSET Tiles,
          recreated : BOOLEAN, full : BOOLEAN, warm : 0 .. WarmupFrames]
NoPaint == [size |-> FirstSize, page |-> Blank, dirty |-> {}, collected |-> {},
            recreated |-> FALSE, full |-> FALSE, warm |-> 0]

Handle(k, size) == IF HandlesReused THEN <<k>> ELSE <<k, size>>

TypeOK ==
    /\ view \in Size
    /\ resizePc \in {"idle", "height", "force", "warmup", "notify"}
    /\ resizeTo \in Requests \cup {FirstSize}
    /\ forceFull \in BOOLEAN
    /\ warmup \in 0 .. WarmupFrames
    /\ ring \in [Slot -> Size \cup {NoSize}]
    /\ plane \in Size \cup {NoSize}
    /\ sharedSize \in Size \cup {NoSize}
    /\ writeSlot \in Slot
    /\ contents \in [Slot -> Page]
    /\ cached.handle \in {Handle(k, s) : k \in Pool, s \in Size} \cup {<<>>}
    /\ cached.size \in Size /\ cached.page \in Page
    /\ header \in Header
    /\ frameReady \in BOOLEAN
    /\ uiPc \in {"idle", "rect", "ensure", "force", "warmup", "warmupStore", "publish"}
    /\ paint \in Paint
    /\ cefSize \in Size /\ wasResized \in BOOLEAN /\ needsPaint \in BOOLEAN
    /\ page \in Page /\ image \in Page
    /\ shown \in Kept
    /\ shownWhole \in BOOLEAN
    /\ counts \in [paints : 0 .. MaxVersion, popups : 0 .. MaxPopups, resizes : 0 .. MaxResizes,
                   openFails : 0 .. MaxOpenFails, createFails : 0 .. MaxCreateFails]

Init ==
    /\ view = FirstSize
    /\ resizePc = "idle" /\ resizeTo = FirstSize
    /\ forceFull = TRUE
    /\ warmup = WarmupFrames
    /\ ring = [s \in Slot |-> NoSize] /\ plane = NoSize /\ sharedSize = NoSize
    /\ writeSlot = 0
    /\ contents = [s \in Slot |-> Blank]
    /\ cached = [handle |-> <<>>, size |-> FirstSize, page |-> Blank]
    /\ header = FirstHeader
    /\ frameReady = FALSE
    /\ uiPc = "idle" /\ paint = NoPaint
    /\ cefSize = FirstSize /\ wasResized = FALSE /\ needsPaint = TRUE
    /\ page = Blank
    /\ image = Blank /\ shown = KeptOf(FirstHeader) /\ shownWhole = TRUE
    /\ counts = [paints |-> 0, popups |-> 0, resizes |-> 0, openFails |-> 0, createFails |-> 0]

-----------------------------------------------------------------------------
(* The control thread: Resize.  The two members of the size are plain      *)
(* stores; so is that of m_warmupFullFrames.                               *)

ResizeWidth(size) ==
    /\ resizePc = "idle"
    /\ counts.resizes < MaxResizes
    /\ counts' = [counts EXCEPT !.resizes = @ + 1]
    /\ view' = [view EXCEPT !.w = size.w]
    /\ resizeTo' = size
    /\ resizePc' = "height"
    /\ UNCHANGED <<forceFull, warmup, textureVars, writeSlot, contents, cached, header,
                   frameReady, uiPc, paint, cefVars, consVars>>

ResizeHeight ==
    /\ resizePc = "height"
    /\ view' = [view EXCEPT !.h = resizeTo.h]
    /\ resizePc' = "force"
    /\ UNCHANGED <<resizeTo, forceFull, warmup, textureVars, writeSlot, contents, cached, header,
                   frameReady, uiPc, paint, cefVars, consVars, counts>>

ResizeForce ==
    /\ resizePc = "force"
    /\ forceFull' = TRUE
    /\ resizePc' = "warmup"
    /\ UNCHANGED <<view, resizeTo, warmup, textureVars, writeSlot, contents, cached, header,
                   frameReady, uiPc, paint, cefVars, consVars, counts>>

ResizeWarmup ==
    /\ resizePc = "warmup"
    /\ warmup' = WarmupFrames
    /\ resizePc' = "notify"
    /\ UNCHANGED <<view, resizeTo, forceFull, textureVars, writeSlot, contents, cached, header,
                   frameReady, uiPc, paint, cefVars, consVars, counts>>

ResizeSilent ==  \* a mutated form: without WasResized
    /\ resizePc = "notify"
    /\ resizePc' = "idle"
    /\ UNCHANGED <<view, resizeTo, forceFull, warmup, textureVars, writeSlot, contents, cached,
                   header, frameReady, uiPc, paint, cefVars, consVars, counts>>

ResizeNotify ==
    /\ resizePc = "notify"
    /\ wasResized' = TRUE
    /\ resizePc' = "idle"
    /\ UNCHANGED <<view, resizeTo, forceFull, warmup, textureVars, writeSlot, contents, cached,
                   header, frameReady, uiPc, paint, cefSize, needsPaint, page, consVars, counts>>

-----------------------------------------------------------------------------
(* CEF, on the UI thread between two paints.  GetViewRect may be called at *)
(* any time, and is after WasResized; it reads the two plain members one   *)
(* after the other, with Resize's stores before, after or in between.  A   *)
(* call that has nothing new to find when it begins is left out.           *)

GetViewWidth ==
    /\ uiPc = "idle"
    /\ wasResized \/ cefSize # view
    /\ wasResized' = FALSE
    /\ cefSize' = [cefSize EXCEPT !.w = view.w]
    /\ needsPaint' = (needsPaint \/ cefSize.w # view.w)
    /\ uiPc' = "rect"
    /\ UNCHANGED <<resizeVars, forceFull, warmup, textureVars, writeSlot, contents, cached,
                   header, frameReady, paint, page, consVars, counts>>

GetViewHeight ==
    /\ uiPc = "rect"
    /\ cefSize' = [cefSize EXCEPT !.h = view.h]
    /\ needsPaint' = (needsPaint \/ cefSize.h # view.h)
    /\ uiPc' = "idle"
    /\ UNCHANGED <<resizeVars, forceFull, warmup, textureVars, writeSlot, contents, cached,
                   header, frameReady, paint, wasResized, page, consVars, counts>>

\* CEF paints the damaged tiles: all of them when the page has a new size.
CefPaints(dirty) ==
    /\ uiPc = "idle"
    /\ IF needsPaint THEN dirty = Tiles
       ELSE dirty # {} /\ counts.paints < MaxPaints
    /\ page' = [t \in Tiles |-> IF t \in dirty THEN counts.paints + 1 ELSE page[t]]
    /\ needsPaint' = FALSE
    /\ UNCHANGED <<cefSize, wasResized, view, resizePc, resizeTo, forceFull, warmup, textureVars,
                   writeSlot, contents, header, frameReady, consVars>>

-----------------------------------------------------------------------------
(* The UI thread: OnAcceleratedPaint.                                      *)

BeginWith(dirty, collected, texture) ==
    /\ paint' = [NoPaint EXCEPT !.size = texture.size, !.page = texture.page, !.dirty = dirty,
                                !.collected = collected]
    /\ uiPc' = "ensure"

\* The handle is the cached one: the texture that was opened for it is used.
PaintCached(k, dirty, collected) ==
    /\ CefPaints(dirty)
    /\ cached.handle = Handle(k, cefSize)
    /\ LET texture == IF cached.size = cefSize THEN [cached EXCEPT !.page = page'] ELSE cached IN
       /\ BeginWith(dirty, collected, texture)
       /\ cached' = texture
    /\ counts' = [counts EXCEPT !.paints = @ + 1]

PaintOpened(k, dirty, collected) ==
    /\ CefPaints(dirty)
    /\ cached.handle # Handle(k, cefSize)
    /\ cached' = [handle |-> Handle(k, cefSize), size |-> cefSize, page |-> page']
    /\ BeginWith(dirty, collected, cached')
    /\ counts' = [counts EXCEPT !.paints = @ + 1]

OpenFails(k, dirty) ==
    /\ CefPaints(dirty)
    /\ cached.handle # Handle(k, cefSize)
    /\ counts.openFails < MaxOpenFails
    /\ counts' = [counts EXCEPT !.paints = @ + 1, !.openFails = @ + 1]
    /\ UNCHANGED <<cached, uiPc, paint>>

\* EnsureSharedTextures.
ReadyBySize == sharedSize = paint.size  \* a mutated form: the textures are not looked at
Ready == sharedSize = paint.size /\ \A s \in Slot : ring[s] # NoSize

NextSlot == (writeSlot + 1) % SlotCount

\* CopyResource does nothing when the sizes differ.
CopyTo(slot) ==
    contents' = [contents EXCEPT ![slot] = IF ring'[slot] = paint.size THEN paint.page ELSE @]

TexturesReady ==
    /\ uiPc = "ensure"
    /\ Ready
    /\ uiPc' = "force"
    /\ UNCHANGED textureVars
    /\ CopyTo(NextSlot)
    /\ UNCHANGED <<resizeVars, forceFull, warmup, writeSlot, cached, header, frameReady, paint,
                   cefVars, consVars, counts>>

\* UpdateSharedResizeHeader rewrites the header in place: no sequence, no event.
TexturesRecreated ==
    /\ uiPc = "ensure"
    /\ ~Ready
    /\ ring' = [s \in Slot |-> paint.size]
    /\ plane' = paint.size
    /\ sharedSize' = paint.size
    /\ contents' = [s \in Slot |-> IF s = 1 % SlotCount THEN paint.page ELSE Blank]
    /\ writeSlot' = 0
    /\ forceFull' = TRUE
    /\ warmup' = WarmupFrames
    /\ paint' = [paint EXCEPT !.recreated = TRUE]
    /\ header' = [header EXCEPT !.size = paint.size, !.slot = 0, !.full = TRUE,
                                !.resized = TRUE, !.rects = {}]
    /\ uiPc' = "force"
    /\ UNCHANGED <<resizeVars, cached, frameReady, cefVars, consVars, counts>>

\* The creation stops after n textures of the ring; with all of them, at the
\* last one's handle, at the popup plane or at the plane's handle.
TexturesFail(n) ==
    /\ uiPc = "ensure"
    /\ ~Ready
    /\ counts.createFails < MaxCreateFails
    /\ counts' = [counts EXCEPT !.createFails = @ + 1]
    /\ ring' = [s \in Slot |-> IF s < n THEN paint.size ELSE NoSize]
    /\ plane' \in {NoSize} \cup (IF n = SlotCount THEN {paint.size} ELSE {})
    /\ contents' = [s \in Slot |-> Blank]
    /\ paint' = NoPaint
    /\ uiPc' = "idle"
    /\ UNCHANGED <<resizeVars, forceFull, warmup, sharedSize, writeSlot, cached, header,
                   frameReady, cefVars, consVars>>

TakeForceDespiteOverflow ==  \* a mutated form: the rectangles are truncated
    /\ uiPc = "force"
    /\ paint' = [paint EXCEPT !.full = forceFull \/ paint.recreated]
    /\ forceFull' = FALSE
    /\ uiPc' = "warmup"
    /\ UNCHANGED <<resizeVars, warmup, textureVars, writeSlot, contents, cached, header,
                   frameReady, cefVars, consVars, counts>>

\* The exchange of m_forceFullFrame; a recreation and an overflow force too.
TakeForce ==
    /\ uiPc = "force"
    /\ paint' = [paint EXCEPT !.full = forceFull \/ paint.recreated \/ paint.collected # paint.dirty]
    /\ forceFull' = FALSE
    /\ uiPc' = "warmup"
    /\ UNCHANGED <<resizeVars, warmup, textureVars, writeSlot, contents, cached, header,
                   frameReady, cefVars, consVars, counts>>

ReadWarmupUnguarded ==  \* a mutated form
    /\ uiPc = "warmup"
    /\ paint' = [paint EXCEPT !.full = TRUE, !.warm = warmup]
    /\ uiPc' = "warmupStore"
    /\ UNCHANGED <<resizeVars, forceFull, warmup, textureVars, writeSlot, contents, cached,
                   header, frameReady, cefVars, consVars, counts>>

\* m_warmupFullFrames is tested and decremented without a lock against Resize.
ReadWarmup ==
    /\ uiPc = "warmup"
    /\ IF warmup > 0
       THEN /\ paint' = [paint EXCEPT !.full = TRUE, !.warm = warmup]
            /\ uiPc' = "warmupStore"
       ELSE /\ uiPc' = "publish"
            /\ UNCHANGED paint
    /\ UNCHANGED <<resizeVars, forceFull, warmup, textureVars, writeSlot, contents, cached,
                   header, frameReady, cefVars, consVars, counts>>

StoreWarmup ==
    /\ uiPc = "warmupStore"
    /\ warmup' = paint.warm - 1
    /\ uiPc' = "publish"
    /\ UNCHANGED <<resizeVars, forceFull, textureVars, writeSlot, contents, cached, header,
                   frameReady, paint, cefVars, consVars, counts>>

PublishView ==
    /\ uiPc = "publish"
    /\ writeSlot' = NextSlot
    /\ header' = [frame |-> header.frame + 1, size |-> paint.size, slot |-> NextSlot,
                  full |-> paint.full, resized |-> paint.recreated,
                  rects |-> IF paint.full THEN {} ELSE paint.collected, truth |-> page]
    /\ frameReady' = TRUE
    /\ paint' = NoPaint
    /\ uiPc' = "idle"
    /\ UNCHANGED <<resizeVars, forceFull, warmup, textureVars, contents, cached, cefVars,
                   consVars, counts>>

\* OnAcceleratedPaint(PET_POPUP): the rectangle is where the popup is.
PublishPopup(rects) ==
    /\ uiPc = "idle"
    /\ counts.popups < MaxPopups
    /\ plane # NoSize
    /\ sharedSize # NoSize
    /\ counts' = [counts EXCEPT !.popups = @ + 1]
    /\ header' = [header EXCEPT !.frame = @ + 1, !.size = sharedSize, !.slot = writeSlot,
                                !.full = FALSE, !.resized = FALSE, !.rects = rects]
    /\ frameReady' = TRUE
    /\ UNCHANGED <<resizeVars, forceFull, warmup, textureVars, writeSlot, contents, cached,
                   uiPc, paint, cefVars, consVars>>

-----------------------------------------------------------------------------
(* The consumer.  It opens the slot's texture by name, and passes over a   *)
(* frame whose texture is not there; dirty_count 0 means the full frame    *)
(* (SharedMemoryLayout.h:211).                                             *)

CopiesAll(h) == h.full \/ h.rects = {} \/ h.frame # shown.frame + 1

ConsumerApplies ==
    /\ frameReady
    /\ frameReady' = FALSE
    /\ IF header.frame # shown.frame /\ ring[header.slot] = header.size
       THEN /\ image' = [t \in Tiles |-> IF CopiesAll(header) \/ t \in header.rects
                                         THEN contents[header.slot][t] ELSE image[t]]
            /\ shown' = KeptOf(header)
            /\ shownWhole' = ~paint.recreated
       ELSE UNCHANGED consVars
    /\ UNCHANGED <<resizeVars, forceFull, warmup, textureVars, writeSlot, contents, cached,
                   header, uiPc, paint, cefVars, counts>>

-----------------------------------------------------------------------------
GetViewRect == GetViewWidth \/ GetViewHeight

Resize == ResizeHeight \/ ResizeForce \/ ResizeWarmup \/ ResizeNotify

BeginPaint ==
    \E k \in Pool, dirty \in SUBSET Tiles :
        \/ \E collected \in SUBSET dirty : PaintCached(k, dirty, collected) \/ PaintOpened(k, dirty, collected)
        \/ OpenFails(k, dirty)

FinishPaint ==
    \/ TexturesReady \/ TexturesRecreated
    \/ \E n \in 0 .. SlotCount : TexturesFail(n)
    \/ TakeForce \/ ReadWarmup \/ StoreWarmup
    \/ PublishView

Next ==
    \/ \E size \in Requests : ResizeWidth(size)
    \/ Resize
    \/ GetViewRect
    \/ BeginPaint
    \/ FinishPaint
    \/ \E rects \in SUBSET Tiles : PublishPopup(rects)
    \/ ConsumerApplies

\* Neither Resize nor OnAcceleratedPaint blocks; CEF asks for the size after
\* WasResized and paints a page whose size has changed; the consumer waits
\* on the event.
Spec ==
    /\ Init
    /\ [][Next]_vars
    /\ WF_vars(Resize)
    /\ WF_vars(FinishPaint)
    /\ WF_vars(GetViewWidth /\ wasResized)
    /\ WF_vars(GetViewHeight)
    /\ WF_vars(BeginPaint /\ needsPaint)
    /\ WF_vars(ConsumerApplies)

-----------------------------------------------------------------------------
\* Every texture is there, and none has the size EnsureSharedTextures recorded.
Unrecorded == \A s \in Slot : ring[s] \notin {NoSize, sharedSize}

(* A view frame is published with a slot that has the size the header      *)
(* gives and holds what CEF has painted, through resizes, popup frames and *)
(* failed creations.  Left out is the frame of a page that is back at the  *)
(* recorded size after a creation that failed with all its textures made:  *)
(* EnsureSharedTextures takes those for ready, see TargetSizeEnsured.      *)
PublishesPainted ==
    [][PublishView /\ ~Unrecorded => /\ ring[header'.slot] = header'.size
                                     /\ contents[header'.slot] = header'.truth]_vars

(* A consumer that copies only the declared damage, and everything when it *)
(* has missed a frame, has the page as CEF painted it, if every paint was  *)
(* opened: the frames it skips, the popup frames in between, the overflows *)
(* and the new textures never leave it with a stale tile.                  *)
ImageIsPage == shownWhole /\ counts.openFails = 0 => image = shown.truth

(* "Fix dirty-rect ghosting caused by delta application on stale base      *)
(* frames when frames are dropped." (PROJECT_LOG.md:55): the consumer has  *)
(* the page as CEF painted it, the paints the host has dropped included.   *)
DroppedFramesRecovered == shownWhole => image = shown.truth

(* However Resize interleaves with the UI thread's paints, the consumer    *)
(* ends up with the page at the size last asked for, if every texture was  *)
(* opened and created: after a failure nothing asks CEF to paint again.    *)
SizeConverges ==
    [](counts.openFails = 0 /\ counts.createFails = 0) =>
        <>[](shown.size = view /\ image = page)

(* "Ensures shared texture resources exist for target size."               *)
(* (osr_handler.h:175): after EnsureSharedTextures has returned true every *)
(* shared texture has the size of the paint.                               *)
TargetSizeEnsured == uiPc = "force" => \A s \in Slot : ring[s] = paint.size

(* "The handle's resource cannot be cached" (cef_render_handler.h:163): the*)
(* texture OnAcceleratedPaint goes on with is the one CEF has painted.     *)
TextureIsThePaint ==
    uiPc \notin {"idle", "rect"} => paint.page = page /\ paint.size = cefSize
=============================================================================
