------------------------------- MODULE PageState -------------------------------
(***************************************************************************)
(* What the frame header tells the consumer besides the view: how the load *)
(* of the page is going, the cursor, and the popup (a drop-down list),     *)
(* whose pixels travel in a texture of their own, the popup plane.  The    *)
(* callbacks of CEF write the header from its UI thread; only some of them *)
(* signal CEFHost_FrameReady, an auto-reset event.                         *)
(*                                                                         *)
(* Space is one-dimensional: the view is so many columns wide, and a       *)
(* column of a texture holds a column of some popup paint.  A callback is  *)
(* one step (FrameTransport and ViewPaint have the reads in mid-paint, the *)
(* view's pixels and the dirty rectangles, m_popupClearRect with them).    *)
(*                                                                         *)
(* External: CEF, which shows, moves, paints and hides the popup and loads *)
(* the frames of the page, and the consumer, which takes the event, then   *)
(* the header and the plane.                                               *)
(***************************************************************************)
EXTENDS Integers

CONSTANTS Widths,     \* the widths the view is painted in
          Rects,      \* where popups are shown: records of x and w
          Cursors,
          Statuses,   \* the HTTP status a load may end with
          MaxPaints   \* bound: popup paints

ASSUME PageStateAssumption ==
    /\ Widths \subseteq Nat \ {0}
    /\ Rects \subseteq [x : Int, w : Nat \ {0}]
    /\ MaxPaints \in Nat

VARIABLES
    popupVisible,  \* m_popupVisible
    popupRect,     \* m_popupRect
    popupTexture,  \* m_popupTexture: its width, and which paint it holds
    plane,         \* m_sharedPopupTexture: a paint and a column of it, by column
    header,        \* the fields of the frame header
    frameReady,    \* the event CEFHost_FrameReady
    load,          \* history: what the last callback for the main frame said
    untold,        \* history: what has changed since the event was last signalled
    consumerPc,    \* where the consumer is
    seen           \* the header and the plane it has taken last

popupVars == <<popupVisible, popupRect, popupTexture>>
consumerVars == <<consumerPc, seen>>
vars == <<popupVars, plane, header, frameReady, load, untold, consumerVars>>

NoRect == [x |-> 0, w |-> 0]
NoTexture == [w |-> 0, paint |-> 0]
Blank == <<0, 0>>

\* A texture without a column is a null pointer.
Columns(n) == 0 .. n - 1
Width(texture) == IF texture = <<>> THEN 0 ELSE 1 + CHOOSE c \in DOMAIN texture : \A d \in DOMAIN texture : d <= c

PageTypeOK ==
    /\ popupVisible \in BOOLEAN
    /\ popupRect \in (IF popupVisible THEN Rects \cup {NoRect} ELSE {NoRect})
    /\ popupTexture \in [w : {r.w : r \in Rects}, paint : 1 .. MaxPaints] \cup {NoTexture}
    /\ DOMAIN plane \in {Columns(n) : n \in Widths \cup {0}}
    /\ \A c \in DOMAIN plane : plane[c] = Blank \/ plane[c][1] \in 1 .. popupTexture.paint
    /\ header.load \in {"Idle", "Loading", "Ready", "Error"}
    /\ header.visible => header.rect \in Rects \cup {NoRect}
    /\ untold \subseteq {"cursor", "popup"}
    /\ consumerPc \in {"waiting", "woken"}

Init ==
    /\ popupVisible = FALSE /\ popupRect = NoRect /\ popupTexture = NoTexture
    /\ plane = [c \in {} |-> Blank]
    /\ \E k \in Cursors :
        header = [visible |-> FALSE, rect |-> NoRect, load |-> "Idle", cursor |-> k]
    /\ frameReady = FALSE
    /\ load = "Idle"
    /\ untold = {}
    /\ consumerPc = "waiting"
    /\ seen = [header |-> header, plane |-> plane]

-----------------------------------------------------------------------------
(* The load of the page: OnLoadStart, OnLoadEnd, OnLoadError.              *)

\* Mutant: a callback for any frame of the page counts.
OnLoadOfAny(isMain, state) ==
    /\ load' = IF isMain THEN state ELSE load
    /\ header' = [header EXCEPT !.load = state]
    /\ frameReady' = TRUE
    /\ untold' = untold \ {"cursor"}
    /\ UNCHANGED <<popupVars, plane, consumerVars>>

OnLoad(isMain, state) ==
    \/ /\ isMain
       /\ load' = state
       /\ header' = [header EXCEPT !.load = state]
       /\ frameReady' = TRUE
       /\ untold' = untold \ {"cursor"}
       /\ UNCHANGED <<popupVars, plane, consumerVars>>
    \/ ~isMain /\ UNCHANGED vars

\* CEF may call them in any order, for any frame of the page.
OnLoadStart(isMain) == OnLoad(isMain, "Loading")
OnLoadEnd(isMain, status) == OnLoad(isMain, IF status >= 400 THEN "Error" ELSE "Ready")
OnLoadError(isMain) == OnLoad(isMain, "Error")

OnCursorChange(k) ==
    /\ k # header.cursor
    /\ header' = [header EXCEPT !.cursor = k]
    /\ untold' = untold \cup {"cursor"}
    /\ UNCHANGED <<popupVars, plane, frameReady, load, consumerVars>>

-----------------------------------------------------------------------------
(* The popup.                                                              *)

OnPopupShowKeeping(show) ==  \* a mutated form: the rectangle outlives the popup
    /\ popupVisible' = show
    /\ untold' = untold \cup {"popup"}
    /\ UNCHANGED <<popupRect, popupTexture, plane, header, frameReady, load, consumerVars>>

OnPopupShow(show) ==
    /\ popupVisible' = show
    /\ popupRect' = IF show THEN popupRect ELSE NoRect
    /\ untold' = untold \cup {"popup"}
    /\ UNCHANGED <<popupTexture, plane, header, frameReady, load, consumerVars>>

\* CEF sizes a popup it has shown.
OnPopupSize(rect) ==
    /\ popupVisible
    /\ rect # popupRect
    /\ popupRect' = rect
    /\ untold' = untold \cup {"popup"}
    /\ UNCHANGED <<popupVisible, popupTexture, plane, header, frameReady, load, consumerVars>>

\* texture's columns from 0 on, as many as fit from column x of the plane on.
Pasted(onto, x, w, texture) ==
    [c \in DOMAIN onto |-> IF c \in x .. x + w - 1 /\ c - x < texture.w
                           THEN <<texture.paint, c - x>> ELSE onto[c]]

\* What CopySubresourceRegion makes of a box that either texture does not hold
\* is not defined: nothing, or what of it they do hold.
Copied(onto, x, w, texture) ==
    IF w <= texture.w /\ x >= 0 /\ x + w <= Width(onto) THEN {Pasted(onto, x, w, texture)}
    ELSE {onto, Pasted(onto, x, w, texture)}

Publish ==
    /\ header' = [header EXCEPT !.visible = popupVisible, !.rect = popupRect]
    /\ frameReady' = TRUE
    /\ untold' = {}

Clamp(x) == IF x < 0 THEN 0 ELSE IF x > Width(plane) THEN Width(plane) ELSE x

\* OnAcceleratedPaint with PET_POPUP: published at once if there is a plane.
PaintPopup(w) ==
    LET x0 == Clamp(popupRect.x)
        x1 == Clamp(popupRect.x + popupRect.w)
    IN  /\ popupTexture.paint < MaxPaints
        /\ popupTexture' = [w |-> w, paint |-> popupTexture.paint + 1]
        /\ IF Width(plane) = 0
           THEN UNCHANGED <<plane, header, frameReady, untold>>
           ELSE /\ plane' \in IF popupVisible /\ x1 > x0
                              THEN Copied(plane, x0, x1 - x0, popupTexture') ELSE {plane}
                /\ Publish
        /\ UNCHANGED <<popupVisible, popupRect, load, consumerVars>>

RefreshedOnlyNew(onto) ==  \* a mutated form: the plane is refreshed by popup paints only
    IF Width(onto) = Width(plane) THEN {onto}
    ELSE Copied(onto, popupRect.x, popupRect.w, popupTexture)
Refreshed(onto) ==
    IF popupVisible /\ popupTexture # NoTexture /\ popupRect.w > 0
    THEN Copied(onto, popupRect.x, popupRect.w, popupTexture) ELSE {onto}

\* OnAcceleratedPaint with PET_VIEW; EnsureSharedTextures makes a plane of a new size.
PaintView(w) ==
    LET onto == IF w = Width(plane) THEN plane ELSE [c \in Columns(w) |-> Blank]
    IN  /\ plane' \in Refreshed(onto)
        /\ Publish
        /\ UNCHANGED <<popupVars, load, consumerVars>>

-----------------------------------------------------------------------------
(* The consumer.                                                           *)

Wake ==
    /\ consumerPc = "waiting"
    /\ frameReady
    /\ frameReady' = FALSE
    /\ consumerPc' = "woken"
    /\ UNCHANGED <<popupVars, plane, header, load, untold, seen>>

Take ==
    /\ consumerPc = "woken"
    /\ seen' = [header |-> header, plane |-> plane]
    /\ consumerPc' = "waiting"
    /\ UNCHANGED <<popupVars, plane, header, frameReady, load, untold>>

PageNext ==
    \/ \E isMain \in BOOLEAN :
        \/ OnLoadStart(isMain)
        \/ \E status \in Statuses : OnLoadEnd(isMain, status)
        \/ OnLoadError(isMain)
    \/ \E k \in Cursors : OnCursorChange(k)
    \/ \E show \in BOOLEAN : OnPopupShow(show)
    \/ \E rect \in Rects : OnPopupSize(rect)
    \/ \E w \in {r.w : r \in Rects} : PaintPopup(w)
    \/ \E w \in Widths : PaintView(w)
    \/ Wake \/ Take

PageSpec == Init /\ [][PageNext]_vars

-----------------------------------------------------------------------------
UpToDate == consumerPc = "waiting" /\ ~frameReady

(* A consumer with nothing left to take shows the last popup it was given  *)
(* in full, wherever that was moved to and whatever became of the plane:   *)
(* the popup's columns are in the plane at the rectangle the header names, *)
(* if it was painted in that width and lies in the view.                   *)
PopupWhole ==
    LET rect == seen.header.rect
    IN  /\ UpToDate /\ seen.header.visible
        /\ popupTexture.w = rect.w /\ rect.x >= 0 /\ rect.x + rect.w <= Width(seen.plane)
        => \A c \in Columns(rect.w) : seen.plane[rect.x + c] = <<popupTexture.paint, c>>

(* A consumer with nothing left to take knows how the load of the main     *)
(* frame stands, whatever the frames inside it do; and it knows the cursor *)
(* and the popup but for what has changed since the last frame.            *)
NothingKeptBack ==
    UpToDate =>
        /\ seen.header.load = load
        /\ "cursor" \notin untold => seen.header.cursor = header.cursor
        /\ "popup" \notin untold => /\ seen.header.visible = popupVisible
                                    /\ seen.header.rect = popupRect
=============================================================================
