---------------------------- MODULE HostPage_proofs ----------------------------
(***************************************************************************)
(* Proofs about a host from its command line to what a consumer sees of    *)
(* its page.                                                               *)
(*                                                                         *)
(* PageState: what a consumer that has nothing left to take knows, of the  *)
(* header and of the popup plane, for every set of cursors, rectangles and *)
(* widths and any number of paints.                                        *)
(*                                                                         *)
(* HostStart: for every set of command lines, session ids and ring sizes,  *)
(* and any number of launches: a browser has its channels, no event is     *)
(* replayed to a later host, the configuration is the promised one, hosts  *)
(* share no object, and a file URL names the file.  FromArgs and           *)
(* SanitizeSessionId are folds over the arguments and the characters; that *)
(* < is well-founded on Nat (NatLessThanWellFounded) stands in for the     *)
(* induction they need.                                                    *)
(***************************************************************************)
EXTENDS PageState, HostStart, WellFoundedInduction, SequenceTheorems, FiniteSetTheorems,
        TLAPS

-----------------------------------------------------------------------------
(* PageState.                                                              *)

Places == Rects \cup {NoRect}
LoadStates == {"Idle", "Loading", "Ready", "Error"}
Headers == [visible : BOOLEAN, rect : Places, load : LoadStates, cursor : Cursors]

\* The part of the types that the argument needs.
HeaderType ==
    /\ popupVisible \in BOOLEAN
    /\ popupRect \in Places
    /\ header \in Headers

\* The header says what the callbacks said, but for a popup changed since.
HeaderTrue ==
    /\ header.load = load
    /\ "popup" \notin untold => header.visible = popupVisible /\ header.rect = popupRect

\* The consumer has what the header says, but for a cursor changed since, or
\* the event will wake it.
HeaderSeen ==
    UpToDate =>
        /\ seen.header.load = header.load
        /\ seen.header.visible = header.visible
        /\ seen.header.rect = header.rect
        /\ "cursor" \notin untold => seen.header.cursor = header.cursor

ToldInv == HeaderType /\ HeaderTrue /\ HeaderSeen

(* The invariant gives the property the run checks: a header that is true   *)
(* and has been seen keeps nothing back (osr_handler.cpp:853-861).         *)
LEMMA ToldEnough == ToldInv => NothingKeptBack
BY DEF ToldInv, HeaderTrue, HeaderSeen, NothingKeptBack

(* InitFrameHeaderDefaults leaves a true header, and none was taken before. *)
LEMMA ToldInit == Init => ToldInv
<1> SUFFICES ASSUME Init PROVE ToldInv
  OBVIOUS
<1>1. PICK k \in Cursors :
        header = [visible |-> FALSE, rect |-> NoRect, load |-> "Idle", cursor |-> k]
  BY DEF Init
<1>2. HeaderType
  BY <1>1 DEF Init, HeaderType, Headers, Places, LoadStates
<1>3. HeaderTrue
  BY <1>1 DEF Init, HeaderTrue
<1>4. HeaderSeen
  BY DEF Init, HeaderSeen, UpToDate
<1> QED
  BY <1>2, <1>3, <1>4 DEF ToldInv

(* A load callback tells the consumer at once (osr_handler.cpp:1218-1221).  *)
LEMMA LoadKeepsTold ==
    ASSUME NEW isMain \in BOOLEAN, NEW state \in LoadStates, ToldInv, OnLoad(isMain, state)
    PROVE  ToldInv'
<1>1. CASE ~isMain /\ UNCHANGED vars
  BY <1>1 DEF ToldInv, HeaderType, HeaderTrue, HeaderSeen, UpToDate, vars, popupVars, consumerVars
<1>2. CASE /\ header' = [header EXCEPT !.load = state] /\ load' = state
           /\ frameReady' = TRUE /\ untold' = untold \ {"cursor"}
           /\ UNCHANGED popupVars
  <2>1. HeaderType'
    BY <1>2 DEF ToldInv, HeaderType, Headers, popupVars
  <2>2. HeaderTrue'
    BY <1>2 DEF ToldInv, HeaderType, Headers, HeaderTrue, popupVars
  <2>3. HeaderSeen'
    BY <1>2 DEF HeaderSeen, UpToDate
  <2> QED
    BY <2>1, <2>2, <2>3 DEF ToldInv
<1> QED
  BY <1>1, <1>2 DEF OnLoad

(* So does a publish, of the popup or of the view, whatever happens to the  *)
(* plane (osr_handler.cpp:666-684, 854-861).                               *)
LEMMA PublishKeepsTold ==
    ASSUME ToldInv, Publish, UNCHANGED <<popupVisible, popupRect, load>>
    PROVE  ToldInv'
<1>1. HeaderType'
  BY DEF ToldInv, HeaderType, Headers, Publish
<1>2. HeaderTrue'
  BY DEF ToldInv, HeaderType, Headers, HeaderTrue, Publish
<1>3. HeaderSeen'
  BY DEF HeaderSeen, UpToDate, Publish
<1> QED
  BY <1>1, <1>2, <1>3 DEF ToldInv

(* Every step of the host, of CEF and of the consumer keeps the invariant.  *)
LEMMA ToldStep == ToldInv /\ [PageNext]_vars => ToldInv'
<1> SUFFICES ASSUME ToldInv, [PageNext]_vars PROVE ToldInv'
  OBVIOUS
<1>1. CASE \E isMain \in BOOLEAN : \/ OnLoadStart(isMain)
                                   \/ \E status \in Statuses : OnLoadEnd(isMain, status)
                                   \/ OnLoadError(isMain)
  <2>1. PICK isMain \in BOOLEAN, state \in LoadStates : OnLoad(isMain, state)
    BY <1>1 DEF OnLoadStart, OnLoadEnd, OnLoadError, LoadStates
  <2> QED
    BY <2>1, LoadKeepsTold
<1>2. ASSUME NEW k \in Cursors, OnCursorChange(k) PROVE ToldInv'
  BY <1>2 DEF ToldInv, HeaderType, Headers, HeaderTrue, HeaderSeen, UpToDate, OnCursorChange,
              popupVars, consumerVars
<1>3. ASSUME NEW show \in BOOLEAN, OnPopupShow(show) PROVE ToldInv'
  BY <1>3 DEF ToldInv, HeaderType, Places, HeaderTrue, HeaderSeen, UpToDate, OnPopupShow,
              consumerVars
<1>4. ASSUME NEW rect \in Rects, OnPopupSize(rect) PROVE ToldInv'
  BY <1>4 DEF ToldInv, HeaderType, Places, HeaderTrue, HeaderSeen, UpToDate, OnPopupSize,
              consumerVars
<1>5. ASSUME NEW w, PaintPopup(w) PROVE ToldInv'
  <2>1. CASE Publish
    BY <1>5, <2>1, PublishKeepsTold DEF PaintPopup
  <2>2. CASE UNCHANGED <<plane, header, frameReady, untold>>
    BY <1>5, <2>2 DEF PaintPopup, ToldInv, HeaderType, HeaderTrue, HeaderSeen, UpToDate,
                      consumerVars
  <2> QED
    BY <1>5, <2>1, <2>2 DEF PaintPopup
<1>6. ASSUME NEW w, PaintView(w) PROVE ToldInv'
  BY <1>6, PublishKeepsTold DEF PaintView, popupVars
<1>7. CASE Wake
  BY <1>7 DEF Wake, ToldInv, HeaderType, HeaderTrue, HeaderSeen, UpToDate, popupVars
<1>8. CASE Take
  BY <1>8 DEF Take, ToldInv, HeaderType, HeaderTrue, HeaderSeen, UpToDate, popupVars
<1>9. CASE UNCHANGED vars
  BY <1>9 DEF ToldInv, HeaderType, HeaderTrue, HeaderSeen, UpToDate, vars, popupVars, consumerVars
<1> QED
  BY <1>1, <1>2, <1>3, <1>4, <1>5, <1>6, <1>7, <1>8, <1>9 DEF PageNext

(* A consumer with nothing left to take knows how the load of the main     *)
(* frame stands, and the cursor and the popup but for what has changed     *)
(* since the last frame (OnLoadStart, OnLoadEnd, OnLoadError,              *)
(* OnCursorChange, OnPopupShow, OnPopupSize write the header; the frame    *)
(* event is signalled by some of them only).                               *)
THEOREM ConsumerIsTold == PageSpec => []NothingKeptBack
<1>1. Init => ToldInv
  BY ToldInit
<1>2. ToldInv /\ [PageNext]_vars => ToldInv'
  BY ToldStep
<1>3. ToldInv => NothingKeptBack
  BY ToldEnough
<1> QED
  BY <1>1, <1>2, <1>3, PTL DEF PageSpec

-----------------------------------------------------------------------------
(* The popup plane.                                                        *)

Textures == [w : {r.w : r \in Rects}, paint : 1 .. MaxPaints] \cup {NoTexture}

\* A column of the plane is blank or one of a popup paint up to the last.
Cells(last) == {Blank} \cup (1 .. last) \X Int
PlaneOf(n, last) == [Columns(n) -> Cells(last)]

PlaneType ==
    /\ popupVisible \in BOOLEAN
    /\ popupRect \in (IF popupVisible THEN Places ELSE {NoRect})
    /\ popupTexture \in Textures
    /\ \E n \in Widths \cup {0} : plane \in PlaneOf(n, popupTexture.paint)
    /\ consumerPc \in {"waiting", "woken"}
    /\ untold \subseteq {"cursor", "popup"}

\* The texture, painted in the width of the rectangle, is in onto there.
InPlane(onto, rect, texture) ==
    /\ texture.w = rect.w /\ rect.x >= 0 /\ rect.x + rect.w <= Width(onto)
    => \A c \in Columns(rect.w) : onto[rect.x + c] = <<texture.paint, c>>

\* The plane holds what the header says, and the consumer has this plane
\* unless the event will wake it.
PlaneTrue ==
    /\ header.visible => InPlane(plane, header.rect, popupTexture)
    /\ UpToDate => seen.plane = plane

PlaneInv == ToldInv /\ PlaneType /\ PlaneTrue

LEMMA WidthOfPlane ==
    ASSUME NEW n \in Nat, NEW S, NEW f \in [Columns(n) -> S]
    PROVE  Width(f) = n
<1>1. CASE n = 0
  <2>1. Columns(n) = {}
    BY <1>1 DEF Columns
  <2>2. f = <<>>
    BY <2>1
  <2>3. QED
    BY <1>1, <2>2 DEF Width
<1>2. CASE n # 0
  <2>1. n - 1 \in DOMAIN f /\ \A d \in DOMAIN f : d \in Int /\ d <= n - 1
    BY <1>2 DEF Columns
  <2>2. f # <<>>
    BY <2>1
  <2>3. \A c \in DOMAIN f : (\A d \in DOMAIN f : d <= c) => c = n - 1
    BY <2>1
  <2>4. (CHOOSE c \in DOMAIN f : \A d \in DOMAIN f : d <= c) = n - 1
    BY <2>1, <2>3
  <2>5. Width(f) = 1 + (n - 1)
    BY <2>2, <2>4, Zenon DEF Width
  <2>6. QED
    BY <2>5
<1>3. QED
  BY <1>1, <1>2

\* What a popup paint has for a width and a number.
LEMMA TextureTypes ==
    ASSUME NEW texture \in Textures
    PROVE  /\ texture.w \in Nat /\ texture.paint \in Nat
           /\ \/ texture = NoTexture
              \/ texture.w \in {r.w : r \in Rects} /\ texture.paint \in 1 .. MaxPaints
           /\ texture = NoTexture => texture.w = 0 /\ texture.paint = 0
BY PageStateAssumption DEF PageStateAssumption, Textures, NoTexture

LEMMA PlaceTypes == \A rect \in Places : rect.x \in Int /\ rect.w \in Nat
BY PageStateAssumption DEF PageStateAssumption, Places, NoRect

\* A copy into the plane, of whatever box, leaves a plane.
LEMMA CopyKeepsPlane ==
    ASSUME NEW n \in Nat, NEW last \in Nat, NEW onto \in PlaneOf(n, last),
           NEW x \in Int, NEW w \in Nat,
           NEW texture, texture.paint \in Nat \ {0}, texture.paint >= last,
           NEW out \in Copied(onto, x, w, texture)
    PROVE  out \in PlaneOf(n, texture.paint)
<1>1. Cells(last) \subseteq Cells(texture.paint)
  BY DEF Cells
<1>2. onto \in PlaneOf(n, texture.paint)
  BY <1>1 DEF PlaneOf
<1>3. \A c \in Columns(n) : <<texture.paint, c - x>> \in Cells(texture.paint)
  BY DEF Columns, Cells
<1>4. Pasted(onto, x, w, texture) \in PlaneOf(n, texture.paint)
  BY <1>2, <1>3 DEF PlaneOf, Pasted
<1>5. QED
  BY <1>2, <1>4 DEF Copied

\* A copy that fits both textures brings every column over.
LEMMA CopyIsWhole ==
    ASSUME NEW n \in Nat, NEW last \in Nat, NEW onto \in PlaneOf(n, last),
           NEW x \in Int, NEW w \in Nat,
           NEW texture, texture.w = w, x >= 0, x + w <= n,
           NEW out \in Copied(onto, x, w, texture)
    PROVE  \A c \in Columns(w) : out[x + c] = <<texture.paint, c>>
<1>1. Width(onto) = n
  BY WidthOfPlane DEF PlaneOf
<1>2. out = Pasted(onto, x, w, texture)
  BY <1>1 DEF Copied
<1>3. SUFFICES ASSUME NEW c \in Columns(w) PROVE out[x + c] = <<texture.paint, c>>
  OBVIOUS
<1>4. x + c \in Columns(n) /\ x + c \in x .. x + w - 1 /\ (x + c) - x = c /\ c < texture.w
  BY <1>3 DEF Columns
<1>5. DOMAIN onto = Columns(n)
  BY DEF PlaneOf
<1>6. QED
  BY <1>2, <1>4, <1>5 DEF Pasted

\* Two planes of one width hold the same rectangles.
LEMMA InPlaneOfNone ==
    ASSUME NEW n \in Nat, NEW last \in Nat, NEW onto \in PlaneOf(n, last), NEW rect \in Places,
           NEW texture, n = 0 \/ rect.w = 0
    PROVE  InPlane(onto, rect, texture)
<1>1. Width(onto) = n /\ rect.x \in Int /\ rect.w \in Nat
  BY WidthOfPlane, PlaceTypes DEF PlaneOf
<1>2. rect.x >= 0 /\ rect.x + rect.w <= n => Columns(rect.w) = {}
  BY <1>1 DEF Columns
<1>3. QED
  BY <1>1, <1>2 DEF InPlane

LEMMA PopupPainted ==
    ASSUME NEW w \in {r.w : r \in Rects}, PlaneInv, PaintPopup(w)
    PROVE  PlaneType' /\ PlaneTrue'
<1>1. PICK n \in Widths \cup {0} : plane \in PlaneOf(n, popupTexture.paint)
  BY DEF PlaneInv, PlaneType
<1>2. /\ n \in Nat /\ Width(plane) = n
      /\ popupTexture \in Textures /\ popupTexture.paint \in Nat
      /\ popupRect \in Places /\ popupRect.x \in Int /\ popupRect.w \in Nat
      /\ w \in Nat
  <2>1. n \in Nat /\ w \in Nat
    BY PageStateAssumption DEF PageStateAssumption
  <2>2. popupRect \in Places /\ popupTexture \in Textures
    BY DEF PlaneInv, PlaneType, Places
  <2>3. QED
    BY <1>1, <2>1, <2>2, WidthOfPlane, TextureTypes, PlaceTypes DEF PlaneOf
<1> DEFINE last == popupTexture.paint
           new == [w |-> w, paint |-> last + 1]
<1>3. /\ popupTexture' = new /\ last < MaxPaints
      /\ UNCHANGED <<popupVisible, popupRect, consumerPc, seen>>
  BY DEF PaintPopup, consumerVars
<1>4. new \in Textures /\ new.paint = last + 1 /\ new.w = w
  BY <1>2, <1>3, PageStateAssumption DEF PageStateAssumption, Textures
<1>5. PlaneOf(n, last) \subseteq PlaneOf(n, last + 1)
  BY <1>2 DEF PlaneOf, Cells
<1> HIDE DEF new
<1>6. CASE Width(plane) = 0
  <2>1. UNCHANGED <<plane, header, frameReady, untold>>
    BY <1>6 DEF PaintPopup
  <2>2. PlaneType'
    BY <1>1, <1>3, <1>4, <1>5, <2>1 DEF PlaneInv, PlaneType
  <2>3. header.rect \in Places
    BY DEF PlaneInv, ToldInv, HeaderType, Headers
  <2>4. InPlane(plane, header.rect, new)
    BY <1>1, <1>2, <1>6, <2>3, InPlaneOfNone
  <2>5. PlaneTrue'
    BY <1>3, <2>1, <2>4 DEF PlaneInv, PlaneTrue, UpToDate
  <2>6. QED
    BY <2>2, <2>5
<1>7. CASE Width(plane) # 0
  <2> DEFINE x0 == Clamp(popupRect.x)
             x1 == Clamp(popupRect.x + popupRect.w)
  <2>1. /\ plane' \in IF popupVisible /\ x1 > x0 THEN Copied(plane, x0, x1 - x0, new) ELSE {plane}
        /\ Publish
    BY <1>3, <1>7 DEF PaintPopup
  <2>2. /\ x0 \in Nat /\ x1 \in Nat
        /\ popupRect.x >= 0 /\ popupRect.x + popupRect.w <= n
           => x0 = popupRect.x /\ x1 = popupRect.x + popupRect.w
    BY <1>2 DEF Clamp
  <2> HIDE DEF x0, x1
  <2>3. plane' \in PlaneOf(n, last + 1)
    <3>1. CASE popupVisible /\ x1 > x0
      <4>1. x1 - x0 \in Nat /\ plane' \in Copied(plane, x0, x1 - x0, new)
        BY <2>1, <2>2, <3>1
      <4>2. QED
        BY <1>1, <1>2, <1>4, <2>2, <4>1, CopyKeepsPlane
    <3>2. CASE ~(popupVisible /\ x1 > x0)
      BY <1>1, <1>5, <2>1, <3>2
    <3>3. QED
      BY <3>1, <3>2
  <2>4. PlaneType'
    BY <1>3, <1>4, <2>1, <2>3 DEF PlaneInv, PlaneType, Publish
  <2>5. Width(plane') = n
    BY <1>2, <2>3, WidthOfPlane DEF PlaneOf
  <2>6. ASSUME popupVisible PROVE InPlane(plane', popupRect, new)
    <3>1. SUFFICES ASSUME new.w = popupRect.w, popupRect.x >= 0, popupRect.x + popupRect.w <= n
                   PROVE  \A c \in Columns(popupRect.w) : plane'[popupRect.x + c] = <<new.paint, c>>
      BY <2>5 DEF InPlane
    <3>2. CASE popupRect.w = 0
      BY <3>2 DEF Columns
    <3>3. CASE popupRect.w # 0
      <4>1. x1 > x0 /\ x0 = popupRect.x /\ x1 - x0 = popupRect.w
        BY <1>2, <2>2, <3>1, <3>3
      <4>2. plane' \in Copied(plane, popupRect.x, popupRect.w, new)
        BY <2>1, <2>6, <4>1
      <4>3. QED
        BY <1>1, <1>2, <3>1, <4>2, CopyIsWhole
    <3>4. QED
      BY <3>2, <3>3
  <2>7. header'.visible = popupVisible /\ header'.rect = popupRect
    BY <2>1 DEF Publish, PlaneInv, ToldInv, HeaderType, Headers
  <2>8. PlaneTrue'
    BY <1>3, <2>1, <2>6, <2>7 DEF PlaneTrue, UpToDate, Publish
  <2>9. QED
    BY <2>4, <2>8
<1>8. QED
  BY <1>6, <1>7

LEMMA ViewPainted ==
    ASSUME NEW w \in Widths, PlaneInv, PaintView(w)
    PROVE  PlaneType' /\ PlaneTrue'
<1> DEFINE onto == IF w = Width(plane) THEN plane ELSE [c \in Columns(w) |-> Blank]
           last == popupTexture.paint
<1>1. PICK n \in Widths \cup {0} : plane \in PlaneOf(n, last)
  BY DEF PlaneInv, PlaneType
<1>2. /\ n \in Nat /\ w \in Nat /\ Width(plane) = n
      /\ popupTexture \in Textures /\ last \in Nat /\ popupTexture.w \in Nat
      /\ popupRect \in Places /\ popupRect.x \in Int /\ popupRect.w \in Nat
  <2>1. n \in Nat /\ w \in Nat
    BY PageStateAssumption DEF PageStateAssumption
  <2>2. popupRect \in Places /\ popupTexture \in Textures
    BY DEF PlaneInv, PlaneType, Places
  <2>3. QED
    BY <1>1, <2>1, <2>2, WidthOfPlane, TextureTypes, PlaceTypes DEF PlaneOf
<1>3. onto \in PlaneOf(w, last)
  <2>1. [c \in Columns(w) |-> Blank] \in PlaneOf(w, last)
    BY DEF PlaneOf, Cells
  <2>2. QED
    BY <1>1, <1>2, <2>1
<1> HIDE DEF onto
<1>4. /\ plane' \in Refreshed(onto) /\ Publish
      /\ UNCHANGED <<popupVisible, popupRect, popupTexture, consumerPc, seen>>
  BY DEF PaintView, onto, popupVars, consumerVars
<1>5. plane' \in PlaneOf(w, last)
  <2>1. CASE popupVisible /\ popupTexture # NoTexture /\ popupRect.w > 0
    <3>1. plane' \in Copied(onto, popupRect.x, popupRect.w, popupTexture)
      BY <1>4, <2>1 DEF Refreshed
    <3>2. last \in Nat \ {0} /\ last >= last
      BY <1>2, <2>1, TextureTypes
    <3>3. QED
      BY <1>2, <1>3, <3>1, <3>2, CopyKeepsPlane
  <2>2. CASE ~(popupVisible /\ popupTexture # NoTexture /\ popupRect.w > 0)
    BY <1>3, <1>4, <2>2 DEF Refreshed
  <2>3. QED
    BY <2>1, <2>2
<1>6. PlaneType'
  BY <1>4, <1>5 DEF PlaneInv, PlaneType, Publish
<1>7. Width(plane') = w
  BY <1>2, <1>5, WidthOfPlane DEF PlaneOf
<1>8. ASSUME popupVisible PROVE InPlane(plane', popupRect, popupTexture)
  <2>1. CASE popupRect.w = 0
    BY <1>2, <1>5, <2>1, InPlaneOfNone
  <2>2. CASE popupRect.w # 0
    <3>1. SUFFICES ASSUME popupTexture.w = popupRect.w, popupRect.x >= 0,
                          popupRect.x + popupRect.w <= w
                   PROVE  \A c \in Columns(popupRect.w) :
                             plane'[popupRect.x + c] = <<popupTexture.paint, c>>
      BY <1>7 DEF InPlane
    <3>2. popupTexture # NoTexture /\ popupRect.w > 0
      BY <1>2, <2>2, <3>1, TextureTypes
    <3>3. plane' \in Copied(onto, popupRect.x, popupRect.w, popupTexture)
      BY <1>4, <1>8, <3>2 DEF Refreshed
    <3>4. QED
      BY <1>2, <1>3, <3>1, <3>3, CopyIsWhole
  <2>3. QED
    BY <2>1, <2>2
<1>9. header'.visible = popupVisible /\ header'.rect = popupRect
  BY <1>4 DEF Publish, PlaneInv, ToldInv, HeaderType, Headers
<1>10. PlaneTrue'
  BY <1>4, <1>8, <1>9 DEF PlaneTrue, UpToDate, Publish
<1>11. QED
  BY <1>6, <1>10

LEMMA PlaneInit == Init => PlaneInv
<1> SUFFICES ASSUME Init PROVE PlaneInv
  OBVIOUS
<1>1. plane \in PlaneOf(0, 0)
  BY DEF Init, PlaneOf, Columns
<1>2. PlaneType
  BY <1>1 DEF Init, PlaneType, Places, Textures, NoTexture
<1>3. PlaneTrue
  BY DEF Init, PlaneTrue, UpToDate
<1>4. QED
  BY <1>2, <1>3, ToldInit DEF PlaneInv

LEMMA PlaneStep == PlaneInv /\ [PageNext]_vars => PlaneInv'
<1> SUFFICES ASSUME PlaneInv, [PageNext]_vars PROVE PlaneType' /\ PlaneTrue'
  BY ToldStep DEF PlaneInv
<1>1. header \in Headers /\ PlaneType /\ PlaneTrue
  BY DEF PlaneInv, ToldInv, HeaderType
<1> USE DEF PlaneType, PlaneTrue, UpToDate, popupVars, consumerVars
<1>2. CASE \E isMain \in BOOLEAN : \/ OnLoadStart(isMain)
                                   \/ \E status \in Statuses : OnLoadEnd(isMain, status)
                                   \/ OnLoadError(isMain)
  <2>1. PICK isMain \in BOOLEAN, state \in LoadStates : OnLoad(isMain, state)
    BY <1>2 DEF OnLoadStart, OnLoadEnd, OnLoadError, LoadStates
  <2>2. CASE UNCHANGED vars
    BY <1>1, <2>2 DEF vars
  <2>3. CASE ~UNCHANGED vars
    <3>1. header'.visible = header.visible /\ header'.rect = header.rect
      BY <1>1, <2>1, <2>3 DEF OnLoad, Headers
    <3>2. QED
      BY <1>1, <2>1, <2>3, <3>1 DEF OnLoad
  <2>4. QED
    BY <2>2, <2>3
<1>3. ASSUME NEW k \in Cursors, OnCursorChange(k) PROVE PlaneType' /\ PlaneTrue'
  BY <1>1, <1>3 DEF OnCursorChange, Headers
<1>4. ASSUME NEW show \in BOOLEAN, OnPopupShow(show) PROVE PlaneType' /\ PlaneTrue'
  BY <1>1, <1>4 DEF OnPopupShow, Places
<1>5. ASSUME NEW rect \in Rects, OnPopupSize(rect) PROVE PlaneType' /\ PlaneTrue'
  BY <1>1, <1>5 DEF OnPopupSize, Places
<1>6. CASE Wake \/ Take \/ UNCHANGED vars
  <2>1. UNCHANGED <<popupVisible, popupRect, popupTexture, plane, header, untold>>
    BY <1>6 DEF Wake, Take, vars
  <2>2. PlaneType'
    BY <1>1, <1>6, <2>1 DEF Wake, Take, vars
  <2>3. (UpToDate => seen.plane = plane)'
    BY <1>1, <1>6, <2>1 DEF Wake, Take, vars
  <2>4. QED
    BY <1>1, <2>1, <2>2, <2>3
<1>7. QED
  BY <1>2, <1>3, <1>4, <1>5, <1>6, PopupPainted, ViewPainted DEF PageNext

(* The popup plane the consumer opens holds the popup's last paint where   *)
(* the popup is shown, and what the consumer has seen is that plane, but   *)
(* for what it will be told of (osr_handler.cpp:593-693 and 753-766).      *)
THEOREM PlaneInvariant == PageSpec => []PlaneInv
<1>1. QED
  BY PlaneInit, PlaneStep, PTL DEF PageSpec

(* The popup, its texture and the plane stay in their types: the plane has *)
(* one of the widths the view was painted in, and no column of it is of a  *)
(* later paint than the popup's last (osr_handler.cpp:593-693).            *)
THEOREM PageTypeCorrect == PageSpec => []PageTypeOK
<1>1. ASSUME PlaneInv PROVE PageTypeOK
  <2>1. PICK n \in Widths \cup {0} : plane \in PlaneOf(n, popupTexture.paint)
    BY <1>1 DEF PlaneInv, PlaneType
  <2>2. DOMAIN plane \in {Columns(m) : m \in Widths \cup {0}}
    BY <2>1 DEF PlaneOf
  <2>3. \A c \in DOMAIN plane : plane[c] = Blank \/ plane[c][1] \in 1 .. popupTexture.paint
    BY <2>1 DEF PlaneOf, Cells
  <2>4. header \in Headers
    BY <1>1 DEF PlaneInv, ToldInv, HeaderType
  <2>5. QED
    BY <1>1, <2>2, <2>3, <2>4
       DEF PlaneInv, PlaneType, Textures, Places, Headers, LoadStates, PageTypeOK
<1>2. QED
  BY <1>1, PlaneInvariant, PTL

(* A consumer with nothing left to take shows the last popup it was given  *)
(* in full, wherever that was moved to and whatever became of the plane    *)
(* (osr_handler.cpp: the copy on a popup paint, 593-693, and the refresh   *)
(* on a view paint, 753-766).                                              *)
THEOREM PopupIsWhole == PageSpec => []PopupWhole
<1>1. ASSUME PlaneInv PROVE PopupWhole
  <2>1. UpToDate => /\ seen.header.visible = header.visible /\ seen.header.rect = header.rect
                    /\ seen.plane = plane
    BY <1>1 DEF PlaneInv, ToldInv, HeaderSeen, PlaneTrue
  <2>2. header.visible => InPlane(plane, header.rect, popupTexture)
    BY <1>1 DEF PlaneInv, PlaneTrue
  <2>3. QED
    BY <2>1, <2>2 DEF PopupWhole, InPlane
<1>2. QED
  BY <1>1, PlaneInvariant, PTL

-----------------------------------------------------------------------------
(* HostStart: induction, and folds over sequences.                         *)

\* Induction, for a set instead of a predicate.
LEMMA Climb ==
    ASSUME NEW S, 0 \in S, \A n \in Nat : n \in S => n + 1 \in S
    PROVE  Nat \subseteq S
<1> SUFFICES ASSUME Nat \ S # {} PROVE FALSE
  OBVIOUS
<1>1. PICK x \in Nat \ S : \A y \in Nat \ S : <<y, x>> \notin OpToRel(<, Nat)
  BY NatLessThanWellFounded, WFMin
<1>2. x \in Nat /\ x # 0
  OBVIOUS
<1>3. x - 1 \in Nat /\ x - 1 < x /\ (x - 1) + 1 = x
  BY <1>2
<1>4. x - 1 \notin S
  BY <1>3
<1> QED
  BY <1>1, <1>2, <1>3, <1>4 DEF OpToRel

\* The largest of some indices.
LEMMA Largest ==
    ASSUME NEW n \in Nat, NEW s \in SUBSET (1 .. n), s # {}
    PROVE  Max(s) \in s /\ \A x \in s : x <= Max(s)
<1> DEFINE T == {y \in Nat : \E x \in s : y = n - x}
<1>1. PICK x0 \in s : TRUE
  OBVIOUS
<1>2. n - x0 \in T
  OBVIOUS
<1>3. PICK d \in T : \A y \in T : <<y, d>> \notin OpToRel(<, Nat)
  BY <1>2, NatLessThanWellFounded, WFMin
<1>4. PICK m \in s : d = n - m
  BY <1>3
<1>5. ASSUME NEW x \in s PROVE x <= m
  <2>1. n - x \in T
    OBVIOUS
  <2>2. ~(n - x < d)
    BY <1>3, <2>1 DEF OpToRel
  <2> QED
    BY <1>4, <2>2
<1>6. \E y \in s : \A x \in s : y >= x
  BY <1>5
<1>7. Max(s) \in s /\ \A x \in s : Max(s) >= x
  BY <1>6 DEF Max
<1> QED
  BY <1>7

\* G is the fold of seq with op, for every set of its n indices, the largest taken last.
Folds(G, n, op, base, seq) ==
    \A s \in SUBSET (1 .. n) :
        G[s] = IF s = {} THEN base ELSE op[<<G[s \ {Max(s)}], seq[Max(s)]>>]

\* There is such a function.
LEMMA FoldExists ==
    ASSUME NEW V, NEW It, NEW op \in [V \X It -> V], NEW base \in V,
           NEW n \in Nat, NEW seq \in [1 .. n -> It]
    PROVE  \E G \in [SUBSET (1 .. n) -> V] : Folds(G, n, op, base, seq)
<1> DEFINE R(G, s) == IF s = {} THEN base ELSE op[<<G[s \ {Max(s)}], seq[Max(s)]>>]
           Gs == [SUBSET (1 .. n) -> V]
           Solves(G, k) == \A s \in SUBSET (1 .. k) : G[s] = R(G, s)
           K == {k \in Nat : k <= n => \E G \in Gs : Solves(G, k)}
<1>1. 0 \in K
  <2> DEFINE G == [s \in SUBSET (1 .. n) |-> base]
  <2>1. G \in Gs
    OBVIOUS
  <2>2. Solves(G, 0)
    <3>1. SUBSET (1 .. 0) = {{}}
      OBVIOUS
    <3> QED
      BY <3>1
  <2> QED
    BY <2>1, <2>2
<1>2. ASSUME NEW k \in Nat, NEW G \in Gs, Solves(G, k), k + 1 <= n
      PROVE  \E H \in Gs : Solves(H, k + 1)
  <2> DEFINE H == [s \in SUBSET (1 .. n) |-> R(G, s)]
  <2>1. ASSUME NEW s \in SUBSET (1 .. n) PROVE R(G, s) \in V
    <3>1. CASE s = {}
      BY <3>1
    <3>2. CASE s # {}
      <4>1. Max(s) \in 1 .. n
        BY <3>2, Largest
      <4>2. G[s \ {Max(s)}] \in V /\ seq[Max(s)] \in It
        BY <4>1
      <4> QED
        BY <3>2, <4>2
    <3> QED
      BY <3>1, <3>2
  <2>2. H \in Gs
    BY <2>1
  <2>3. ASSUME NEW s \in SUBSET (1 .. k + 1) PROVE H[s] = R(H, s)
    <3>1. s \in SUBSET (1 .. n)
      BY <1>2
    <3>2. CASE s = {}
      BY <3>1, <3>2
    <3>3. CASE s # {}
      <4>1. Max(s) \in s /\ \A x \in s : x <= Max(s)
        BY <3>1, <3>3, Largest
      <4> DEFINE rest == s \ {Max(s)}
      <4>2. ASSUME NEW x \in rest PROVE x \in 1 .. k
        <5>1. x \in s /\ x # Max(s) /\ x <= Max(s)
          BY <4>1
        <5>2. x \in 1 .. k + 1 /\ Max(s) \in 1 .. k + 1
          BY <4>1, <5>1
        <5> QED
          BY <5>1, <5>2
      <4>3. rest \in SUBSET (1 .. k) /\ rest \in SUBSET (1 .. n)
        BY <4>2, <3>1
      <4> HIDE DEF rest
      <4>4. H[rest] = G[rest]
        BY <4>3, <1>2
      <4>5. R(H, s) = R(G, s)
        <5> HIDE DEF H
        <5> QED
          BY <4>4 DEF rest
      <4> QED
        BY <4>5, <3>1
    <3> QED
      BY <3>2, <3>3
  <2> QED
    BY <2>2, <2>3
<1>3. n \in K
  <2> HIDE DEF Gs, Solves
  <2>1. ASSUME NEW k \in Nat, k \in K PROVE k + 1 \in K
    BY <2>1, <1>2
  <2> HIDE DEF K
  <2> QED
    BY <1>1, <2>1, Climb
<1>4. PICK G \in Gs : Solves(G, n)
  <2> HIDE DEF Gs, Solves
  <2> QED
    BY <1>3
<1> QED
  BY <1>4 DEF Folds

-----------------------------------------------------------------------------
(* FromArgs, one argument after the other.                                 *)

\* The provers do not know that a literal is a string.
Texts == STRING \cup {"", "default"}

Configs == [help : BOOLEAN, tuning : BOOLEAN, cadence : BOOLEAN, url : Texts,
            width : 1 .. UIntMod, height : 1 .. UIntMod, fps : 1 .. 240, session : Texts]
ArgStates == [cfg : Configs, want : Texts]
ArgStart == [cfg |-> DefaultConfig, want |-> ""]

LEMMA ArgStartTyped == ArgStart \in ArgStates
<1>1. 1920 \in 1 .. UIntMod /\ 1080 \in 1 .. UIntMod /\ 60 \in 1 .. 240
  BY HostConfigAssumption
<1>2. DefaultConfig \in Configs
  BY <1>1 DEF DefaultConfig, Configs, Texts
<1> QED
  BY <1>2 DEF ArgStart, ArgStates, Texts

LEMMA ExtentTyped ==
    ASSUME NEW v, IsNumber(v)
    PROVE  Extent(v) \in 1 .. UIntMod
<1>1. NumberOf[v] \in Int /\ UIntMod \in Nat /\ UIntMod > 0
  BY HostConfigAssumption DEF IsNumber
<1>2. ToUInt(NumberOf[v]) \in 0 .. UIntMod - 1
  BY <1>1 DEF ToUInt
<1> QED
  BY <1>1, <1>2 DEF Extent, AtLeastOne

LEMMA ClampedTyped ==
    ASSUME NEW n \in Int
    PROVE  Clamped(n) \in 1 .. 240
BY DEF Clamped

LEMMA AssignTyped ==
    ASSUME NEW cfg \in Configs, NEW key \in Texts, NEW v \in Texts
    PROVE  Assign(cfg, key, v) \in Configs
<1>1. CASE key = "--url" /\ v # ""
  BY <1>1 DEF Assign, Configs
<1>2. CASE key = "--session-id"
  BY <1>2 DEF Assign, Configs
<1>3. CASE key = "--width" /\ IsNumber(v)
  BY <1>3, ExtentTyped DEF Assign, Configs
<1>4. CASE key = "--height" /\ IsNumber(v)
  BY <1>4, ExtentTyped DEF Assign, Configs
<1>5. CASE key = "--fps" /\ IsNumber(v)
  <2>1. Clamped(NumberOf[v]) \in 1 .. 240
    <3>1. NumberOf[v] \in Int
      BY <1>5, HostConfigAssumption DEF IsNumber
    <3> QED
      BY <3>1, ClampedTyped
  <2> QED
    BY <1>5, <2>1 DEF Assign, Configs
<1>6. CASE key = "--size" /\ IsSize(v)
  <2> DEFINE w == Extent(SizeOf[v][1])
             l == Extent(SizeOf[v][2])
  <2>1. w \in 1 .. UIntMod /\ l \in 1 .. UIntMod
    BY <1>6, ExtentTyped DEF IsSize
  <2>2. Assign(cfg, key, v) = [cfg EXCEPT !.width = w, !.height = l]
    BY <1>6 DEF Assign
  <2> HIDE DEF w, l
  <2> QED
    <3>1. [cfg EXCEPT !.width = w] \in Configs
      BY <2>1 DEF Configs
    <3> DEFINE wide == [cfg EXCEPT !.width = w]
    <3>2. Assign(cfg, key, v) = [wide EXCEPT !.height = l]
      BY <2>2
    <3> HIDE DEF wide
    <3> QED
      <4>1. wide \in Configs
        BY <3>1 DEF wide
      <4> QED
        BY <2>1, <3>2, <4>1 DEF Configs
<1>7. CASE ~(\/ key = "--url" /\ v # ""
             \/ key = "--session-id"
             \/ key \in {"--width", "--height", "--fps"} /\ IsNumber(v)
             \/ key = "--size" /\ IsSize(v))
  <2>1. Assign(cfg, key, v) = cfg
    BY <1>7 DEF Assign
  <2> QED
    BY <2>1
<1> QED
  BY <1>1, <1>2, <1>3, <1>4, <1>5, <1>6, <1>7

LEMMA TakeArgTyped ==
    ASSUME NEW s \in ArgStates, NEW a \in ArgRecords
    PROVE  TakeArg(s, a) \in ArgStates
<1>1. /\ s.cfg \in Configs /\ s.want \in Texts
      /\ a.text \in Texts /\ a.key \in Texts /\ a.value \in Texts
  BY DEF ArgStates, ArgRecords, Texts
<1>2. CASE s.want # ""
  <2>1. TakeArg(s, a) = [cfg |-> Assign(s.cfg, s.want, a.text), want |-> ""]
    BY <1>2 DEF TakeArg
  <2>2. Assign(s.cfg, s.want, a.text) \in Configs
    BY <1>1, AssignTyped
  <2>3. "" \in Texts
    BY DEF Texts
  <2>4. [cfg |-> Assign(s.cfg, s.want, a.text), want |-> ""] \in ArgStates
    BY <2>2, <2>3 DEF ArgStates
  <2> QED
    BY <2>1, <2>4
<1>3. CASE s.want = "" /\ a.text \in Flags
  <2>1. Flag(s.cfg, a.text) \in Configs
    <3>1. \/ Flag(s.cfg, a.text) = [s.cfg EXCEPT !.help = TRUE]
          \/ Flag(s.cfg, a.text) = [s.cfg EXCEPT !.tuning = FALSE]
          \/ Flag(s.cfg, a.text) = [s.cfg EXCEPT !.cadence = TRUE]
      BY <1>3 DEF Flag, Flags, Help
    <3> QED
      <4> DEFINE c == s.cfg
      <4>1. c \in Configs
        BY <1>1
      <4> HIDE DEF c
      <4>2. /\ [c EXCEPT !.help = TRUE] \in Configs
            /\ [c EXCEPT !.tuning = FALSE] \in Configs
            /\ [c EXCEPT !.cadence = TRUE] \in Configs
        <5>1. [c EXCEPT !.help = TRUE] \in Configs
          BY <4>1 DEF Configs
        <5>2. [c EXCEPT !.tuning = FALSE] \in Configs
          BY <4>1 DEF Configs
        <5>3. [c EXCEPT !.cadence = TRUE] \in Configs
          BY <4>1 DEF Configs
        <5> QED
          BY <5>1, <5>2, <5>3
      <4> QED
        BY <3>1, <4>2 DEF c
  <2>2. TakeArg(s, a) = [s EXCEPT !.cfg = Flag(s.cfg, a.text)]
    <3>1. a.key \notin Valued
      BY <1>3 DEF ArgRecords, Flags, Help, Valued
    <3> QED
      BY <1>3, <3>1 DEF TakeArg
  <2> QED
    BY <2>1, <2>2 DEF ArgStates
<1>4. CASE s.want = "" /\ a.text \notin Flags /\ a.key \in Valued /\ a.value = ""
  <2>1. TakeArg(s, a) = [s EXCEPT !.want = a.key]
    BY <1>4 DEF TakeArg
  <2> QED
    BY <1>1, <2>1 DEF ArgStates
<1>5. CASE s.want = "" /\ a.text \notin Flags /\ a.key \in Valued /\ a.value # ""
  <2>1. TakeArg(s, a) = [s EXCEPT !.cfg = Assign(s.cfg, a.key, a.value)]
    BY <1>5 DEF TakeArg
  <2>2. Assign(s.cfg, a.key, a.value) \in Configs
    BY <1>1, AssignTyped
  <2> QED
    BY <2>1, <2>2 DEF ArgStates
<1>6. CASE s.want = "" /\ a.text \notin Flags /\ a.key \notin Valued
  <2>1. TakeArg(s, a) = s
    BY <1>6 DEF TakeArg
  <2> QED
    BY <2>1
<1> QED
  BY <1>2, <1>3, <1>4, <1>5, <1>6

\* The states FromArgs goes through.
LEMMA ArgsInTurn ==
    ASSUME NEW args \in Seq(ArgRecords)
    PROVE  \E h \in [0 .. Len(args) -> ArgStates] :
             /\ h[0] = ArgStart
             /\ \A k \in 1 .. Len(args) : h[k] = TakeArg(h[k - 1], args[k])
             /\ FromArgs(args) = h[Len(args)].cfg
<1> DEFINE n == Len(args)
           D == SUBSET (1 .. n)
           op == [p \in ArgStates \X ArgRecords |-> TakeArg(p[1], p[2])]
           Solves(G) == G = [s \in D |-> IF s = {} THEN ArgStart
                                         ELSE TakeArg(G[s \ {Max(s)}], args[Max(s)])]
           iter == CHOOSE G : Solves(G)
<1>1. n \in Nat /\ args \in [1 .. n -> ArgRecords] /\ DOMAIN args = 1 .. n
  OBVIOUS
<1>2. op \in [ArgStates \X ArgRecords -> ArgStates]
  BY TakeArgTyped
<1>3. PICK G \in [D -> ArgStates] : Folds(G, n, op, ArgStart, args)
  <2> HIDE DEF n, op
  <2> QED
    BY <1>1, <1>2, ArgStartTyped, FoldExists
<1>4. ASSUME NEW s \in D, s # {}, NEW F \in [D -> ArgStates]
      PROVE  op[<<F[s \ {Max(s)}], args[Max(s)]>>] = TakeArg(F[s \ {Max(s)}], args[Max(s)])
  <2>1. Max(s) \in 1 .. n
    BY <1>1, <1>4, Largest
  <2>2. F[s \ {Max(s)}] \in ArgStates /\ args[Max(s)] \in ArgRecords
    BY <2>1, <1>1
  <2> QED
    BY <2>2
<1>5. Solves(G)
  <2> HIDE DEF op
  <2>1. \A s \in D : G[s] = IF s = {} THEN ArgStart
                            ELSE TakeArg(G[s \ {Max(s)}], args[Max(s)])
    BY <1>3, <1>4 DEF Folds
  <2> QED
    BY <2>1
<1>6. Solves(iter)
  <2> HIDE DEF Solves
  <2> QED
    BY <1>5
<1>7. FromArgs(args) = iter[1 .. n].cfg
  BY <1>1 DEF FromArgs, FoldLeft, MapThenFoldSet, ArgStart
<1> HIDE DEF iter
<1> DEFINE h == [k \in 0 .. n |-> iter[1 .. k]]
<1>8. iter[{}] = ArgStart
  BY <1>6
<1>9. ASSUME NEW k \in 1 .. n PROVE iter[1 .. k] = TakeArg(iter[1 .. k - 1], args[k])
  <2>1. Max(1 .. k) = k
    BY DEF Max
  <2>2. (1 .. k) \ {k} = 1 .. k - 1 /\ 1 .. k \in D /\ 1 .. k # {}
    OBVIOUS
  <2> QED
    BY <1>6, <2>1, <2>2
<1>10. h \in [0 .. n -> ArgStates]
  <2>1. ASSUME NEW k \in Nat, k <= n => iter[1 .. k] \in ArgStates, k + 1 <= n
        PROVE  iter[1 .. k + 1] \in ArgStates
    <3>1. args[k + 1] \in ArgRecords /\ k + 1 \in 1 .. n /\ (k + 1) - 1 = k
      BY <1>1, <2>1
    <3>2. iter[1 .. k + 1] = TakeArg(iter[1 .. k], args[k + 1])
      BY <1>9, <3>1
    <3> QED
      BY <2>1, <3>1, <3>2, <1>1, TakeArgTyped
  <2> DEFINE K == {k \in Nat : k <= n => iter[1 .. k] \in ArgStates}
  <2>2. 0 \in K
    <3>1. 1 .. 0 = {}
      OBVIOUS
    <3> QED
      BY <3>1, <1>8, ArgStartTyped
  <2>3. \A k \in Nat : k \in K => k + 1 \in K
    BY <2>1
  <2>4. Nat \subseteq K
    <3> HIDE DEF K
    <3> QED
      BY <2>2, <2>3, Climb
  <2> QED
    BY <2>4, <1>1
<1>11. h[0] = ArgStart /\ h[n] = iter[1 .. n]
  <2>1. 1 .. 0 = {}
    OBVIOUS
  <2> QED
    BY <2>1, <1>1, <1>8
<1>12. ASSUME NEW k \in 1 .. n PROVE h[k] = TakeArg(h[k - 1], args[k])
  BY <1>9, <1>1
<1> QED
  BY <1>7, <1>10, <1>11, <1>12

-----------------------------------------------------------------------------
(* The channels a process holds are those its main thread has come past.   *)

\* The channels mapped when the main thread is at each place.
Held ==
    CASE pc \in {"off", "parsed", "frame"} -> {}
      [] pc = "input" -> {"frame"}
      [] pc \in {"clearWrite", "clearRead", "control"} -> {"frame", "input"}
      [] pc = "console" -> {"frame", "input", "control"}
      [] pc \in {"d3d", "create"} -> Channels
      [] pc = "loop" -> IF browser = "none" THEN channels ELSE Channels

HostPlaces == {"off", "parsed", "clearWrite", "clearRead", "d3d", "create", "loop"} \cup Channels

HeldInv ==
    /\ pc \in HostPlaces
    /\ channels = Held
    /\ channels \subseteq Channels
    /\ browser \in {"none", "asked", "open", "closed"}
    /\ browser # "none" => pc = "loop"

LEMMA HeldEnough == HeldInv => BrowserIsReachable
BY DEF HeldInv, Held, BrowserIsReachable, Channels

LEMMA HeldInit == StartInit => HeldInv
BY DEF StartInit, HeldInv, Held, HostPlaces, Channels

LEMMA HeldStep == HeldInv /\ [StartNext]_startVars => HeldInv'
<1> SUFFICES ASSUME HeldInv, [StartNext]_startVars PROVE HeldInv'
  OBVIOUS
<1> USE DEF HeldInv, Held, HostPlaces, Channels
<1>1. CASE Launch
  BY <1>1 DEF Launch
<1>2. CASE ExitAtOnce \/ Killed
  BY <1>2 DEF ExitAtOnce, Killed, Exit
<1>3. CASE InitDevice
  BY <1>3 DEF InitDevice
<1>4. CASE MapChannel
  BY <1>4 DEF MapChannel, Following
<1>5. CASE InitFails
  BY <1>5 DEF InitFails
<1>6. CASE ClearWrite \/ ClearRead
  BY <1>6 DEF ClearWrite, ClearRead
<1>7. CASE InitD3DInterfaces \/ CreateBrowser
  BY <1>7 DEF InitD3DInterfaces, CreateBrowser
<1>8. CASE OnAfterCreated \/ OnBeforeClose
  BY <1>8 DEF OnAfterCreated, OnBeforeClose
<1>9. CASE \/ OpenLocalFile \/ ReadEvent \/ Attach \/ Detach
           \/ Reserve \/ Store \/ PublishEvent \/ UNCHANGED startVars
  <2>1. UNCHANGED <<pc, channels, browser>>
    BY <1>9 DEF OpenLocalFile, ReadEvent, Attach, Detach, Reserve, Store, PublishEvent, hostVars,
                startVars
  <2> QED BY <2>1
<1> QED
  BY <1>1, <1>2, <1>3, <1>4, <1>5, <1>6, <1>7, <1>8, <1>9 DEF StartNext

(* A browser is asked for only by a process that has all four channels and *)
(* has come past the clearing of the ring: OsrHandler::Init gives up at    *)
(* the first channel that fails (osr_handler.cpp:468-476), and             *)
(* OnContextInitialized asks for no browser then (cef_browser_app.cpp).    *)
THEOREM BrowserHasChannels == StartSpec => []BrowserIsReachable
<1>1. StartSpec => []HeldInv
  BY HeldInit, HeldStep, PTL DEF StartSpec
<1> QED
  BY <1>1, HeldEnough, PTL

-----------------------------------------------------------------------------
(* Index arithmetic.                                                       *)

Indices == 0 .. IndexModulus - 1
Slots == 0 .. Capacity - 1

LEMMA StartModulus == IndexModulus \in Nat /\ IndexModulus >= 2
<1>1. Capacity * Laps \in Nat
  BY HostStartAssumption
<1>2. Capacity * (Laps - 2) >= 0
  BY HostStartAssumption
<1>3. Capacity * (Laps - 2) = Capacity * Laps - 2 * Capacity
  BY HostStartAssumption
<1> QED
  BY <1>1, <1>2, <1>3, HostStartAssumption DEF IndexModulus

LEMMA StartNextIndex ==
    ASSUME NEW i \in Indices
    PROVE  NextIndex(i) = IF i = IndexModulus - 1 THEN 0 ELSE i + 1
BY StartModulus DEF NextIndex, Indices

LEMMA StartDistance ==
    ASSUME NEW r \in Indices, NEW w \in Indices
    PROVE  Distance(r, w) = IF w >= r THEN w - r ELSE w - r + IndexModulus
BY StartModulus DEF Distance, Indices

LEMMA StartSlot ==
    ASSUME NEW i \in Indices
    PROVE  i % Capacity \in Slots
BY StartModulus, HostStartAssumption DEF Indices, Slots

\* Between r and w, as the pump reads.
Before(r, i, w) == Distance(r, i) < Distance(r, w)

LEMMA StartEmpty ==
    ASSUME NEW r \in Indices, NEW i \in Indices
    PROVE  ~Before(r, i, r)
BY StartDistance, StartModulus DEF Before, Indices

\* Publishing at w makes at most w readable.
LEMMA StartAfterPublish ==
    ASSUME NEW r \in Indices, NEW i \in Indices, NEW w \in Indices, Before(r, i, NextIndex(w))
    PROVE  Before(r, i, w) \/ i = w
<1>1. NextIndex(w) \in Indices
  BY StartNextIndex, StartModulus DEF Indices
<1>2. Distance(r, NextIndex(w)) =
          IF NextIndex(w) >= r THEN NextIndex(w) - r ELSE NextIndex(w) - r + IndexModulus
  BY <1>1, StartDistance
<1>3. /\ Distance(r, i) = IF i >= r THEN i - r ELSE i - r + IndexModulus
      /\ Distance(r, w) = IF w >= r THEN w - r ELSE w - r + IndexModulus
  BY StartDistance
<1>4. NextIndex(w) = IF w = IndexModulus - 1 THEN 0 ELSE w + 1
  BY StartNextIndex
<1> QED
  BY <1>2, <1>3, <1>4, StartModulus DEF Before, Indices

\* Reading makes nothing readable.
LEMMA StartAfterRead ==
    ASSUME NEW r \in Indices, NEW i \in Indices, NEW w \in Indices, r # w,
           Before(NextIndex(r), i, w)
    PROVE  Before(r, i, w)
<1>1. NextIndex(r) \in Indices
  BY StartNextIndex, StartModulus DEF Indices
<1>2. Distance(NextIndex(r), w) = Distance(r, w) - 1
  BY <1>1, StartNextIndex, StartDistance, StartModulus DEF Indices
<1>3. Distance(NextIndex(r), i) = IF i = r THEN IndexModulus - 1 ELSE Distance(r, i) - 1
  <2>1. Distance(NextIndex(r), i) =
            IF i >= NextIndex(r) THEN i - NextIndex(r) ELSE i - NextIndex(r) + IndexModulus
    BY <1>1, StartDistance
  <2>2. Distance(r, i) = IF i >= r THEN i - r ELSE i - r + IndexModulus
    BY StartDistance
  <2>3. NextIndex(r) = IF r = IndexModulus - 1 THEN 0 ELSE r + 1
    BY StartNextIndex
  <2> QED
    BY <2>1, <2>2, <2>3, StartModulus DEF Indices
<1>4. Distance(r, w) < IndexModulus /\ Distance(r, w) \in Nat /\ Distance(r, i) \in Nat
  BY StartDistance, StartModulus DEF Indices
<1> QED
  BY <1>2, <1>3, <1>4, StartModulus DEF Before

LEMMA StartReadable ==
    ASSUME NEW r \in Indices, NEW w \in Indices, r # w
    PROVE  Before(r, r, w)
BY StartDistance, StartModulus DEF Before, Indices

-----------------------------------------------------------------------------
(* What the ring of a host that has cleared it holds.                      *)

\* The types of all but the configuration, and how far life has come.
LifeTypes ==
    /\ launches \in 0 .. MaxLaunches
    /\ writeIndex \in Indices
    /\ readIndex \in Indices
    /\ slots \in [Slots -> 0 .. life]
    /\ life \in Nat
    /\ life <= launches
    /\ prodPc \in {"idle", "reserved", "stored"}
    /\ prodAt \in Indices
    /\ prodLife \in 0 .. life
    /\ sends \in 0 .. MaxSends
    /\ straddled \in BOOLEAN
    /\ delivered \in -1 .. life

\* A life begins at most once a launch, and a process begins with nothing returned.
LifeOrder ==
    /\ pc \in {"parsed", "frame", "input", "clearWrite"} => life < launches
    /\ delivered # Nothing => browser # "none"

LifeInv == HeldInv /\ LifeTypes /\ LifeOrder

LEMMA LifeInit == StartInit => LifeInv
<1> SUFFICES ASSUME StartInit PROVE LifeInv
  OBVIOUS
<1>1. HeldInv
  BY HeldInit
<1>2. LifeTypes
  BY StartModulus, HostStartAssumption DEF StartInit, LifeTypes, Indices, Slots, Unwritten, Nothing
<1>3. LifeOrder
  BY DEF StartInit, LifeOrder
<1> QED
  BY <1>1, <1>2, <1>3 DEF LifeInv

\* A mapping that goes leaves zeros behind.
LEMMA LeavingTyped ==
    ASSUME NEW held, LifeTypes, LeaveMapping(held)
    PROVE  /\ writeIndex' \in Indices /\ readIndex' \in Indices
           /\ slots' \in [Slots -> 0 .. life]
BY StartModulus DEF LifeTypes, LeaveMapping, ringVars, Indices, Slots, Unwritten

LEMMA LifeStep == LifeInv /\ [StartNext]_startVars => LifeInv'
<1> SUFFICES ASSUME LifeInv, [StartNext]_startVars PROVE LifeInv'
  OBVIOUS
<1>0. HeldInv'
  BY HeldStep DEF LifeInv
<1> SUFFICES LifeTypes' /\ LifeOrder'
  BY <1>0 DEF LifeInv
<1> USE DEF LifeInv
<1> USE DEF hostVars, ringVars, prodVars
<1>1. CASE Launch
  BY <1>1, HostStartAssumption DEF Launch, LifeTypes, LifeOrder, HeldInv, Nothing
<1>2. CASE ExitAtOnce \/ Killed
  <2>1. Exit
    BY <1>2 DEF ExitAtOnce, Killed
  <2>2. LeaveMapping(attached) /\ UNCHANGED <<launches, life, prodVars>>
        /\ pc' = "off" /\ delivered' = Nothing
    BY <2>1 DEF Exit
  <2> QED
    BY <2>2, LeavingTyped DEF LifeTypes, LifeOrder, Nothing
<1>3. CASE InitDevice
  BY <1>3 DEF InitDevice, LifeTypes, LifeOrder
<1>4. CASE MapChannel
  BY <1>4 DEF MapChannel, Following, Channels, LifeTypes, LifeOrder
<1>5. CASE InitFails
  <2>1. LeaveMapping(attached) /\ UNCHANGED <<launches, browser, life, prodVars, delivered>>
        /\ pc' = "loop"
    BY <1>5 DEF InitFails
  <2> QED
    BY <2>1, LeavingTyped DEF LifeTypes, LifeOrder
<1>6. CASE ClearWrite
  BY <1>6, StartModulus DEF ClearWrite, LifeTypes, LifeOrder, Indices
<1>7. CASE ClearRead
  BY <1>7, StartModulus DEF ClearRead, LifeTypes, LifeOrder, Indices
<1>8. CASE InitD3DInterfaces \/ CreateBrowser
  BY <1>8 DEF InitD3DInterfaces, CreateBrowser, LifeTypes, LifeOrder
<1>9. CASE OnAfterCreated \/ OnBeforeClose
  BY <1>9 DEF OnAfterCreated, OnBeforeClose, LifeTypes, LifeOrder
<1>10. CASE OpenLocalFile \/ Attach \/ UNCHANGED startVars
  BY <1>10 DEF OpenLocalFile, Attach, startVars, LifeTypes, LifeOrder
<1>11. CASE ReadEvent
  <2>1. NextIndex(readIndex) \in Indices
    BY StartNextIndex, StartModulus DEF LifeTypes, Indices
  <2>2. slots[readIndex % Capacity] \in 0 .. life
    BY StartSlot DEF LifeTypes
  <2> QED
    BY <1>11, <2>1, <2>2 DEF ReadEvent, LifeTypes, LifeOrder, HeldInv
<1>12. CASE Detach
  <2>1. LeaveMapping("input" \in channels) /\ prodPc' = "idle"
        /\ UNCHANGED <<hostVars, life, prodAt, prodLife, sends, straddled, delivered>>
    BY <1>12 DEF Detach
  <2> QED
    BY <2>1, LeavingTyped DEF LifeTypes, LifeOrder
<1>13. CASE Reserve
  BY <1>13, HostStartAssumption DEF Reserve, LifeTypes, LifeOrder
<1>14. CASE Store
  BY <1>14, StartSlot DEF Store, LifeTypes, LifeOrder
<1>15. CASE PublishEvent
  <2>1. NextIndex(prodAt) \in Indices
    BY StartNextIndex, StartModulus DEF LifeTypes, Indices
  <2> QED
    BY <1>15, <2>1 DEF PublishEvent, LifeTypes, LifeOrder
<1> QED
  BY <1>1, <1>2, <1>3, <1>4, <1>5, <1>6, <1>7, <1>8, <1>9, <1>10, <1>11, <1>12, <1>13, <1>14, <1>15
  DEF StartNext

\* The host has cleared the write index, and still has the ring.
Cleared == pc \in {"clearRead", "control", "console", "d3d", "create"} \/ browser # "none"

\* Where reading will begin.
Base == IF pc = "clearRead" THEN 0 ELSE readIndex

\* A producer that read the index in an earlier life finds the ring empty:
\* publishing now would straddle the clearing.
StaleMeetsEmpty == prodPc # "idle" /\ prodLife # life => writeIndex = 0 /\ Base = 0

\* One that read it in this life has it still, and stores the stamp of this life.
InHand ==
    prodPc # "idle" /\ prodLife = life =>
        prodAt = writeIndex /\ (prodPc = "stored" => slots[prodAt % Capacity] = life)

\* Whatever the host can still read was sent to it.
Fresh == \A i \in Indices : Before(Base, i, writeIndex) => slots[i % Capacity] = life

RingInv == ~straddled /\ Cleared => StaleMeetsEmpty /\ InHand /\ Fresh

ReplayInv == LifeInv /\ RingInv /\ NoStaleReplay

LEMMA ReplayInit == StartInit => ReplayInv
BY LifeInit DEF StartInit, ReplayInv, RingInv, Cleared, NoStaleReplay

LEMMA BaseTyped == LifeTypes => Base \in Indices
BY StartModulus DEF LifeTypes, Base, Indices

\* Steps that leave the ring and the producer as they are.
LEMMA RingKept ==
    ASSUME ReplayInv, UNCHANGED <<ringVars, life, prodVars>>, Cleared' => Cleared /\ Base' = Base
    PROVE  RingInv'
<1> SUFFICES ASSUME ~straddled, Cleared, Base' = Base
             PROVE  (StaleMeetsEmpty /\ InHand /\ Fresh)'
  BY DEF RingInv, prodVars
<1>1. StaleMeetsEmpty /\ InHand /\ Fresh
  BY DEF ReplayInv, RingInv
<1> USE DEF ringVars, prodVars
<1>2. StaleMeetsEmpty'
  BY <1>1 DEF StaleMeetsEmpty
<1>3. InHand'
  BY <1>1 DEF InHand
<1>4. Fresh'
  BY <1>1 DEF Fresh, Before
<1> QED
  BY <1>2, <1>3, <1>4

LEMMA ReplayStep == ReplayInv /\ [StartNext]_startVars => ReplayInv'
<1> SUFFICES ASSUME ReplayInv, [StartNext]_startVars PROVE ReplayInv'
  OBVIOUS
<1>0. LifeInv /\ HeldInv /\ LifeTypes /\ LifeOrder /\ LifeInv'
  BY LifeStep DEF ReplayInv, LifeInv
<1> SUFFICES RingInv' /\ NoStaleReplay'
  BY <1>0 DEF ReplayInv
<1> USE DEF hostVars
<1>1. CASE Launch
  <2>1. UNCHANGED <<ringVars, life, prodVars, delivered, browser>> /\ pc' = "parsed" /\ pc = "off"
    BY <1>1 DEF Launch
  <2>2. RingInv'
    BY <2>1, <1>0, RingKept DEF Cleared, HeldInv
  <2> QED
    BY <2>1, <2>2, <1>0 DEF NoStaleReplay, LifeOrder, HeldInv
<1>2. CASE ExitAtOnce \/ Killed
  <2>1. delivered' = Nothing /\ browser' = "none" /\ pc' = "off"
    BY <1>2 DEF ExitAtOnce, Killed, Exit
  <2> QED
    BY <2>1 DEF RingInv, Cleared, NoStaleReplay
<1>3. CASE InitDevice \/ MapChannel
  <2>1. UNCHANGED <<ringVars, life, prodVars, delivered, browser>>
    BY <1>3 DEF InitDevice, MapChannel
  <2>2. Cleared' => Cleared /\ Base' = Base
    BY <1>3, <2>1, <1>0 DEF InitDevice, MapChannel, Following, Channels, Cleared, Base, ringVars
  <2>3. RingInv'
    BY <2>1, <2>2, RingKept
  <2> QED
    BY <2>1, <2>3 DEF NoStaleReplay, ReplayInv, prodVars
<1>4. CASE InitFails
  <2>1. UNCHANGED <<life, prodVars, delivered, browser>> /\ pc' = "loop" /\ browser = "none"
    BY <1>4, <1>0 DEF InitFails, HeldInv, Channels
  <2> QED
    BY <2>1 DEF RingInv, Cleared, NoStaleReplay, ReplayInv, prodVars
<1>5. CASE ClearWrite
  <2>1. /\ UNCHANGED <<prodVars, delivered, browser, slots>> /\ browser = "none"
        /\ life' = life + 1 /\ writeIndex' = 0 /\ pc' = "clearRead"
    BY <1>5, <1>0 DEF ClearWrite, HeldInv
  <2>2. prodLife' # life' /\ Base' = 0
    BY <2>1, <1>0 DEF LifeTypes, Base, prodVars
  <2>3. StaleMeetsEmpty' /\ InHand'
    BY <2>1, <2>2 DEF StaleMeetsEmpty, InHand
  <2>4. Fresh'
    <3>1. 0 \in Indices
      BY StartModulus DEF Indices
    <3> QED
      BY <2>1, <2>2, <3>1, StartEmpty DEF Fresh
  <2>5. delivered' = Nothing
    BY <2>1, <1>0 DEF LifeOrder
  <2> QED
    BY <2>3, <2>4, <2>5 DEF RingInv, NoStaleReplay
<1>6. CASE ClearRead
  <2>1. /\ UNCHANGED <<writeIndex, slots, life, prodVars, delivered>>
        /\ Cleared /\ Base' = Base
    BY <1>6 DEF ClearRead, Cleared, Base
  <2>2. ASSUME ~straddled' PROVE StaleMeetsEmpty' /\ InHand' /\ Fresh'
    <3>1. StaleMeetsEmpty /\ InHand /\ Fresh
      BY <2>1, <2>2 DEF ReplayInv, RingInv, prodVars
    <3> QED
      BY <2>1, <3>1 DEF StaleMeetsEmpty, InHand, Fresh, prodVars
  <2> QED
    BY <2>1, <2>2 DEF RingInv, NoStaleReplay, ReplayInv, prodVars
<1>7. CASE InitD3DInterfaces \/ CreateBrowser \/ OnAfterCreated \/ OnBeforeClose
  <2>1. UNCHANGED <<ringVars, life, prodVars, delivered>>
    BY <1>7 DEF InitD3DInterfaces, CreateBrowser, OnAfterCreated, OnBeforeClose
  <2>2. Cleared' => Cleared /\ Base' = Base
    BY <1>7, <2>1, <1>0
    DEF InitD3DInterfaces, CreateBrowser, OnAfterCreated, OnBeforeClose, Cleared, Base, ringVars
  <2>3. RingInv'
    BY <2>1, <2>2, RingKept
  <2> QED
    BY <2>1, <2>3 DEF NoStaleReplay, ReplayInv, prodVars
<1>8. CASE OpenLocalFile \/ UNCHANGED startVars
  <2>1. UNCHANGED <<hostVars, ringVars, life, prodVars, delivered>>
    BY <1>8 DEF OpenLocalFile, startVars
  <2>2. RingInv'
    BY <2>1, RingKept DEF Cleared, Base, ringVars
  <2> QED
    BY <2>1, <2>2 DEF NoStaleReplay, ReplayInv, prodVars
<1>9. CASE ReadEvent
  <2>1. /\ UNCHANGED <<hostVars, writeIndex, slots, life, prodVars>>
        /\ readIndex # writeIndex /\ browser = "open"
        /\ delivered' = slots[readIndex % Capacity] /\ readIndex' = NextIndex(readIndex)
    BY <1>9 DEF ReadEvent
  <2>2. Cleared /\ Base = readIndex /\ Base' = NextIndex(readIndex)
    BY <2>1, <1>0 DEF Cleared, Base, HeldInv
  <2>3. ASSUME ~straddled
        PROVE  delivered' = life /\ StaleMeetsEmpty' /\ InHand' /\ Fresh'
    <3>1. StaleMeetsEmpty /\ InHand /\ Fresh
      BY <2>2, <2>3 DEF ReplayInv, RingInv
    <3>2. delivered' = life
      BY <2>1, <2>2, <3>1, <1>0, StartReadable DEF Fresh, LifeTypes
    <3>3. StaleMeetsEmpty'
      BY <2>1, <2>2, <3>1 DEF StaleMeetsEmpty, prodVars
    <3>4. InHand'
      BY <2>1, <3>1 DEF InHand, prodVars
    <3>5. Fresh'
      BY <2>1, <2>2, <3>1, <1>0, StartAfterRead DEF Fresh, LifeTypes
    <3> QED
      BY <3>2, <3>3, <3>4, <3>5
  <2> QED
    BY <2>1, <2>3 DEF RingInv, NoStaleReplay, prodVars
<1>10. CASE Attach
  <2>1. UNCHANGED <<hostVars, ringVars, life, prodPc, prodAt, prodLife, straddled, delivered>>
    BY <1>10 DEF Attach
  <2> QED
    BY <2>1 DEF ReplayInv, RingInv, StaleMeetsEmpty, InHand, Fresh, Cleared, Base, NoStaleReplay,
                ringVars
<1>11. CASE Detach
  <2>1. LeaveMapping("input" \in channels) /\ prodPc' = "idle"
        /\ UNCHANGED <<hostVars, life, straddled, delivered>>
    BY <1>11 DEF Detach
  <2>2. ASSUME Cleared PROVE UNCHANGED ringVars
    <3>1. "input" \in channels
      BY <2>2, <1>0 DEF HeldInv, Held, Cleared, Channels
    <3> QED
      BY <2>1, <3>1 DEF LeaveMapping
  <2> QED
    BY <2>1, <2>2 DEF ReplayInv, RingInv, StaleMeetsEmpty, InHand, Fresh, Cleared, Base,
                      NoStaleReplay, ringVars
<1>12. CASE Reserve
  <2>1. /\ UNCHANGED <<hostVars, ringVars, life, straddled, delivered>>
        /\ prodAt' = writeIndex /\ prodLife' = life /\ prodPc' = "reserved"
    BY <1>12 DEF Reserve
  <2> QED
    BY <2>1 DEF ReplayInv, RingInv, StaleMeetsEmpty, InHand, Fresh, Cleared, Base, NoStaleReplay,
                ringVars
<1>13. CASE Store
  <2>1. /\ UNCHANGED <<hostVars, writeIndex, readIndex, life, prodAt, prodLife, straddled,
                       delivered>>
        /\ slots' = [slots EXCEPT ![prodAt % Capacity] = prodLife]
        /\ prodPc = "reserved" /\ prodPc' = "stored"
    BY <1>13 DEF Store
  <2>2. Base' = Base /\ (Cleared' <=> Cleared)
    BY <2>1 DEF Base, Cleared
  <2>3. ASSUME ~straddled, Cleared PROVE StaleMeetsEmpty' /\ InHand' /\ Fresh'
    <3>1. StaleMeetsEmpty /\ InHand /\ Fresh
      BY <2>3 DEF ReplayInv, RingInv
    <3>2. StaleMeetsEmpty'
      BY <2>1, <2>2, <3>1 DEF StaleMeetsEmpty
    <3>3. InHand'
      BY <2>1, <3>1, <1>0, StartSlot DEF InHand, LifeTypes
    <3>4. CASE prodLife = life
      <4>1. \A i \in Indices : slots[i % Capacity] = life => slots'[i % Capacity] = life
        BY <2>1, <3>4, <1>0, StartSlot DEF LifeTypes
      <4> QED
        BY <2>1, <2>2, <3>1, <3>2, <3>3, <4>1 DEF Fresh
    <3>5. CASE prodLife # life
      <4>1. writeIndex' = 0 /\ Base' = 0 /\ 0 \in Indices
        BY <2>1, <2>2, <3>1, <3>5, StartModulus DEF StaleMeetsEmpty, Indices
      <4> QED
        BY <3>2, <3>3, <4>1, StartEmpty DEF Fresh
    <3> QED
      BY <3>2, <3>3, <3>4, <3>5
  <2> QED
    BY <2>1, <2>2, <2>3 DEF RingInv, NoStaleReplay, ReplayInv
<1>14. CASE PublishEvent
  <2>1. /\ UNCHANGED <<hostVars, readIndex, slots, life, prodAt, prodLife, delivered>>
        /\ writeIndex' = NextIndex(prodAt) /\ straddled' = (straddled \/ prodLife # life)
        /\ prodPc = "stored" /\ prodPc' = "idle"
    BY <1>14 DEF PublishEvent
  <2>2. Base' = Base /\ (Cleared' <=> Cleared)
    BY <2>1 DEF Base, Cleared
  <2>3. ASSUME ~straddled', Cleared PROVE StaleMeetsEmpty' /\ InHand' /\ Fresh'
    <3>1. StaleMeetsEmpty /\ InHand /\ Fresh /\ prodLife = life
      BY <2>1, <2>3, <1>0 DEF ReplayInv, RingInv, LifeTypes
    <3>2. prodAt = writeIndex /\ slots[prodAt % Capacity] = life
      BY <2>1, <3>1 DEF InHand
    <3>3. Fresh'
      <4>1. Base \in Indices
        BY <1>0, BaseTyped
      <4>2. SUFFICES ASSUME NEW i \in Indices, Before(Base, i, NextIndex(prodAt))
                     PROVE  slots[i % Capacity] = life
        BY <2>1, <2>2 DEF Fresh
      <4>3. Before(Base, i, writeIndex) \/ i = writeIndex
        BY <3>2, <4>1, <4>2, <1>0, StartAfterPublish DEF LifeTypes
      <4> QED
        BY <3>1, <3>2, <4>3 DEF Fresh
    <3> QED
      BY <2>1, <3>3 DEF StaleMeetsEmpty, InHand
  <2> QED
    BY <2>1, <2>2, <2>3, <1>0 DEF RingInv, NoStaleReplay, ReplayInv, LifeTypes
<1> QED
  BY <1>1, <1>2, <1>3, <1>4, <1>5, <1>6, <1>7, <1>8, <1>9, <1>10, <1>11, <1>12, <1>13, <1>14
  DEF StartNext

(* An event a host reads was sent to it, in whatever state its Init found  *)
(* the ring and however often a host was killed                            *)
(* (SharedInputBuffer::Init clears the indices, ReadEvent reads).          *)
THEOREM NothingIsReplayed == StartSpec => []NoStaleReplay
<1>1. StartSpec => []ReplayInv
  BY ReplayInit, ReplayStep, PTL DEF StartSpec
<1>2. ReplayInv => NoStaleReplay
  BY DEF ReplayInv
<1> QED
  BY <1>1, <1>2, PTL

-----------------------------------------------------------------------------
(* The types, with the configuration and the suffix.                       *)

ConfigTyped == config \in Configs

LEMMA FromArgsTyped ==
    ASSUME NEW args \in Seq(ArgRecords)
    PROVE  FromArgs(args) \in Configs
<1>1. PICK h \in [0 .. Len(args) -> ArgStates] : FromArgs(args) = h[Len(args)].cfg
  BY ArgsInTurn
<1>2. Len(args) \in 0 .. Len(args)
  OBVIOUS
<1>3. h[Len(args)] \in ArgStates
  BY <1>2
<1> QED
  BY <1>1, <1>3 DEF ArgStates

LEMMA DefaultTyped == DefaultConfig \in Configs
BY ArgStartTyped DEF ArgStart, ArgStates

LEMMA ConfigStep == ConfigTyped /\ [StartNext]_startVars => ConfigTyped'
<1> SUFFICES ASSUME ConfigTyped, [StartNext]_startVars PROVE ConfigTyped'
  OBVIOUS
<1>1. CASE Launch
  <2>1. PICK args \in ArgLists : config' = FromArgs(args)
    BY <1>1 DEF Launch
  <2> QED
    BY <2>1, FromArgsTyped, HostStartAssumption DEF ConfigTyped
<1>2. CASE config' = DefaultConfig
  BY <1>2, DefaultTyped DEF ConfigTyped
<1>3. CASE UNCHANGED config
  BY <1>3 DEF ConfigTyped
<1>4. StartNext => Launch \/ config' = DefaultConfig \/ UNCHANGED config
  BY DEF StartNext, ExitAtOnce, Killed, Exit, InitDevice, MapChannel, InitFails, ClearWrite,
         ClearRead, InitD3DInterfaces, CreateBrowser, OnAfterCreated, OnBeforeClose,
         OpenLocalFile, ReadEvent, Attach, Detach, Reserve, Store, PublishEvent, hostVars
<1> QED
  BY <1>1, <1>2, <1>3, <1>4 DEF startVars, hostVars

(* Every variable has its type, whatever the command lines and however     *)
(* often the host is launched (host_runtime_config.cpp: FromArgs keeps the *)
(* sizes and the frame rate in their ranges).                              *)
THEOREM StartTypeCorrect == StartSpec => []StartTypeOK
<1>1. StartInit => ConfigTyped
  BY DefaultTyped DEF StartInit, ConfigTyped
<1>2. StartSpec => []ConfigTyped
  BY <1>1, ConfigStep, PTL DEF StartSpec
<1>3. StartSpec => []LifeInv
  BY LifeInit, LifeStep, PTL DEF StartSpec
<1>4. ConfigTyped /\ LifeInv => StartTypeOK
  <2> SUFFICES ASSUME ConfigTyped, LifeInv PROVE StartTypeOK
    OBVIOUS
  <2>1. config.width \in 1 .. UIntMod /\ config.height \in 1 .. UIntMod /\ config.fps \in 1 .. 240
    BY DEF ConfigTyped, Configs
  <2>2. life \in 0 .. MaxLaunches
    BY HostStartAssumption DEF LifeInv, LifeTypes
  <2> QED
    BY <2>1, <2>2
    DEF LifeInv, LifeTypes, HeldInv, HostPlaces, StartTypeOK, Indices, Slots
<1> QED
  BY <1>2, <1>3, <1>4, PTL

-----------------------------------------------------------------------------
(* The names of two sessions.                                              *)

\* Sanitising leaves legal characters.
LEMMA SanitizedTyped ==
    ASSUME NEW session \in DOMAIN CharsOf
    PROVE  SanitizeSessionId(session) \in Seq(Legal)
<1> DEFINE chars == CharsOf[session]
           n == Len(chars)
           D == SUBSET (1 .. n)
           op == [p \in Seq(Legal) \X STRING |-> KeepLegal(p[1], p[2])]
           Solves(G) == G = [s \in D |-> IF s = {} THEN <<>>
                                         ELSE KeepLegal(G[s \ {Max(s)}], chars[Max(s)])]
           iter == CHOOSE G : Solves(G)
<1>0. chars \in Seq(STRING)
  BY HostConfigAssumption
<1>1. n \in Nat /\ chars \in [1 .. n -> STRING] /\ DOMAIN chars = 1 .. n
  BY <1>0
<1>2. ASSUME NEW kept \in Seq(Legal), NEW c \in STRING PROVE KeepLegal(kept, c) \in Seq(Legal)
  <2>1. c \in Legal => Append(kept, c) \in Seq(Legal)
    BY AppendProperties
  <2> QED
    BY <2>1 DEF KeepLegal
<1>3. op \in [Seq(Legal) \X STRING -> Seq(Legal)] /\ <<>> \in Seq(Legal)
  <2>1. <<>> \in Seq(Legal)
    BY EmptySeq
  <2>2. \A p \in Seq(Legal) \X STRING : KeepLegal(p[1], p[2]) \in Seq(Legal)
    BY <1>2
  <2> QED
    BY <2>1, <2>2
<1>4. PICK G \in [D -> Seq(Legal)] : Folds(G, n, op, <<>>, chars)
  <2> HIDE DEF n, op, chars
  <2> QED
    BY <1>1, <1>3, FoldExists
<1>5. ASSUME NEW s \in D, s # {}
      PROVE  op[<<G[s \ {Max(s)}], chars[Max(s)]>>] = KeepLegal(G[s \ {Max(s)}], chars[Max(s)])
  <2>1. Max(s) \in 1 .. n
    BY <1>1, <1>5, Largest
  <2>2. G[s \ {Max(s)}] \in Seq(Legal) /\ chars[Max(s)] \in STRING
    BY <2>1, <1>1
  <2> QED
    BY <2>2
<1>6. Solves(G)
  <2> HIDE DEF op, chars
  <2>1. \A s \in D : G[s] = IF s = {} THEN <<>> ELSE KeepLegal(G[s \ {Max(s)}], chars[Max(s)])
    BY <1>4, <1>5 DEF Folds
  <2> QED
    BY <2>1
<1>7. Solves(iter)
  <2> HIDE DEF Solves
  <2> QED
    BY <1>6
<1>8. SanitizeSessionId(session) = iter[1 .. n]
  BY <1>1 DEF SanitizeSessionId, FoldLeft, MapThenFoldSet
<1> HIDE DEF iter, chars
<1> DEFINE K == {k \in Nat : k <= n => iter[1 .. k] \in Seq(Legal)}
<1>9. 0 \in K
  <2>1. 1 .. 0 = {} /\ {} \in D
    OBVIOUS
  <2>2. iter[{}] = <<>>
    BY <1>7
  <2> QED
    BY <2>1, <2>2, <1>3
<1>10. ASSUME NEW k \in Nat, k \in K PROVE k + 1 \in K
  <2> SUFFICES ASSUME k + 1 <= n PROVE iter[1 .. k + 1] \in Seq(Legal)
    OBVIOUS
  <2>1. Max(1 .. k + 1) = k + 1
    BY DEF Max
  <2>2. (1 .. k + 1) \ {k + 1} = 1 .. k /\ 1 .. k + 1 \in D /\ 1 .. k + 1 # {}
    BY <1>1
  <2>3. iter[1 .. k + 1] = KeepLegal(iter[1 .. k], chars[k + 1])
    BY <1>7, <2>1, <2>2
  <2>4. chars[k + 1] \in STRING /\ iter[1 .. k] \in Seq(Legal)
    BY <1>1, <1>10
  <2>5. KeepLegal(iter[1 .. k], chars[k + 1]) \in Seq(Legal)
    BY <2>4, <1>2
  <2> QED
    BY <2>3, <2>5
<1> HIDE DEF K
<1>11. n \in K
  BY <1>1, <1>9, <1>10, Climb
<1> QED
  BY <1>1, <1>8, <1>11 DEF K

\* Short sequences, with nothing said about what they hold.
LEMMA Short ==
    ASSUME NEW A, NEW b \in A, NEW c \in A
    PROVE  /\ <<b>> \in Seq(A) /\ Len(<<b>>) = 1 /\ <<b>>[1] = b
           /\ <<b, c>> \in Seq(A) /\ Len(<<b, c>>) = 2 /\ <<b, c>>[1] = b /\ <<b, c>>[2] = c
OBVIOUS

\* m is the name of b in the session s.
Names(m, b, s) ==
    /\ m[1] = b
    /\ s = <<>> => Len(m) = 1
    /\ s # <<>> => Len(m) = Len(s) + 2
    /\ s # <<>> => \A i \in 1 .. Len(s) : m[i + 2] = s[i]

LEMMA AfterTwo ==
    ASSUME NEW A, NEW two \in Seq(A), Len(two) = 2, NEW s \in Seq(A)
    PROVE  two \o s \in Seq(A) /\ (s # <<>> => Names(two \o s, two[1], s))
<1>1. Len(s) \in Nat
  BY LenProperties
<1>2. /\ two \o s \in Seq(A)
      /\ Len(two \o s) = Len(two) + Len(s)
      /\ \A i \in 1 .. Len(two) + Len(s) :
            (two \o s)[i] = IF i <= Len(two) THEN two[i] ELSE s[i - Len(two)]
  BY ConcatProperties
<1>3. (two \o s)[1] = two[1]
  BY <1>1, <1>2
<1>4. ASSUME NEW i \in 1 .. Len(s) PROVE (two \o s)[i + 2] = s[i]
  <2>1. i + 2 \in 1 .. 2 + Len(s) /\ ~(i + 2 <= 2) /\ (i + 2) - 2 = i
    BY <1>1
  <2> QED
    BY <1>2, <2>1
<1>5. Len(two \o s) = Len(s) + 2
  BY <1>1, <1>2
<1> QED
  BY <1>2, <1>3, <1>4, <1>5 DEF Names

LEMMA Emptiness ==
    ASSUME NEW A, NEW s \in Seq(A)
    PROVE  Len(s) \in Nat /\ (s = <<>> <=> Len(s) = 0)
<1>1. Len(s) \in Nat
  BY LenProperties
<1>2. s = <<>> => Len(s) = 0
  BY EmptySeq
<1>3. s # <<>> => Len(s) # 0
  <2>1. s # <<>> => Len(s) \in Nat \ {0}
    BY EmptySeq
  <2> QED
    BY <2>1
<1> QED
  BY <1>1, <1>2, <1>3

LEMMA NameShape ==
    ASSUME NEW A, NEW b \in A, NEW s \in Seq(A), "_" \in A
    PROVE  Names(MakeScopedName(b, s), b, s) /\ MakeScopedName(b, s) \in Seq(A)
<1>1. CASE s = <<>>
  <2>1. MakeScopedName(b, s) = <<b>>
    BY <1>1 DEF MakeScopedName
  <2> QED
    BY <1>1, <2>1, Short DEF Names
<1>2. CASE s # <<>>
  <2> DEFINE two == <<b, "_">>
  <2>1. two \in Seq(A) /\ Len(two) = 2 /\ two[1] = b
    BY Short
  <2>2. MakeScopedName(b, s) = two \o s
    BY <1>2 DEF MakeScopedName
  <2> HIDE DEF two
  <2>3. two \o s \in Seq(A) /\ Names(two \o s, two[1], s)
    BY <1>2, <2>1, AfterTwo
  <2> QED
    BY <2>1, <2>2, <2>3
<1> QED
  BY <1>1, <1>2

LEMMA NamesTell ==
    ASSUME NEW A, NEW b, NEW c, NEW s \in Seq(A), NEW t \in Seq(A), NEW m,
           Names(m, b, s), Names(m, c, t)
    PROVE  b = c /\ s = t
<1>1. Len(s) \in Nat /\ Len(t) \in Nat /\ (s = <<>> <=> Len(s) = 0) /\ (t = <<>> <=> Len(t) = 0)
  BY Emptiness
<1>2. CASE s = <<>>
  <2>1. t = <<>>
    <3>1. Len(m) = 1 /\ (t # <<>> => Len(m) = Len(t) + 2)
      BY <1>2 DEF Names
    <3> QED
      BY <1>1, <3>1
  <2> QED
    BY <1>2, <2>1 DEF Names
<1>3. CASE s # <<>>
  <2>1. t # <<>>
    BY <1>1, <1>3 DEF Names
  <2>2. Len(s) = Len(t)
    BY <1>1, <1>3, <2>1 DEF Names
  <2>3. \A i \in 1 .. Len(s) : s[i] = t[i]
    BY <1>3, <2>1, <2>2 DEF Names
  <2>4. s = t
    BY <2>2, <2>3, SeqEqual
  <2> QED
    BY <2>4 DEF Names
<1> QED
  BY <1>2, <1>3

LEMMA BeforeTwo ==
    ASSUME NEW A, NEW two \in Seq(A), Len(two) = 2, NEW m \in Seq(A)
    PROVE  /\ Len(m \o two) = Len(m) + 2
           /\ \A i \in 1 .. Len(m) : (m \o two)[i] = m[i]
<1>1. Len(m) \in Nat
  BY LenProperties
<1>2. /\ Len(m \o two) = Len(m) + Len(two)
      /\ \A i \in 1 .. Len(m) + Len(two) :
            (m \o two)[i] = IF i <= Len(m) THEN m[i] ELSE two[i - Len(m)]
  BY ConcatProperties
<1>3. ASSUME NEW i \in 1 .. Len(m) PROVE (m \o two)[i] = m[i]
  BY <1>1, <1>2
<1> QED
  BY <1>1, <1>2, <1>3

\* What is put behind two names takes nothing away.
LEMMA EndsTell ==
    ASSUME NEW A, NEW m \in Seq(A), NEW k \in Seq(A), NEW x \in Seq(A), NEW y \in Seq(A),
           Len(x) = 2, Len(y) = 2, m \o x = k \o y
    PROVE  m = k
<1>1. Len(m) \in Nat /\ Len(k) \in Nat
  BY LenProperties
<1>2. Len(m) = Len(k)
  BY <1>1, BeforeTwo
<1>3. \A i \in 1 .. Len(m) : m[i] = k[i]
  BY <1>2, BeforeTwo
<1> QED
  BY <1>2, <1>3, SeqEqual

NameAtoms == Legal \cup ScopedBases \cup {"_", "SharedTex", "0", "1", "2"}

\* A slot's name begins like no other.
LEMMA SlotNameShape ==
    ASSUME NEW x \in {"0", "1", "2"}, NEW s \in Seq(NameAtoms)
    PROVE  MakeSharedTextureSlotName(x, s)[1] = "SharedTex"
<1> DEFINE m == MakeScopedName("SharedTex", s)
           two == <<"_", x>>
<1>1. two \in Seq(NameAtoms) /\ Len(two) = 2
  BY Short DEF NameAtoms
<1>2. m \in Seq(NameAtoms) /\ Names(m, "SharedTex", s)
  BY NameShape DEF NameAtoms
<1>3. MakeSharedTextureSlotName(x, s) = m \o two
  BY DEF MakeSharedTextureSlotName
<1> HIDE DEF m, two
<1>4. 1 \in 1 .. Len(m)
  BY <1>2, Emptiness DEF Names
<1>5. (m \o two)[1] = m[1]
  BY <1>1, <1>2, <1>4, BeforeTwo
<1> QED
  BY <1>2, <1>3, <1>5 DEF Names

(* Hosts whose sanitised session ids differ share no object name           *)
(* (SharedMemoryLayout.h: MakeScopedName, BuildSharedMemoryNames).         *)
THEOREM NamesApart ==
    ASSUME NEW s \in Seq(Legal), NEW t \in Seq(Legal), s # t
    PROVE  BuildSharedMemoryNames(s) \cap BuildSharedMemoryNames(t) = {}
<1>1. s \in Seq(NameAtoms) /\ t \in Seq(NameAtoms)
  BY SeqMonotonic DEF NameAtoms
<1>2. "_" \in NameAtoms /\ "SharedTex" \in NameAtoms /\ ScopedBases \subseteq NameAtoms
  BY DEF NameAtoms
<1>3. ASSUME NEW b \in ScopedBases, NEW c \in ScopedBases
      PROVE  MakeScopedName(b, s) # MakeScopedName(c, t)
  <2>1. Names(MakeScopedName(b, s), b, s) /\ Names(MakeScopedName(c, t), c, t)
    BY <1>1, <1>2, NameShape
  <2> HIDE DEF Names
  <2> QED
    BY <1>1, <2>1, NamesTell
<1>4. ASSUME NEW b \in ScopedBases, NEW x \in {"0", "1", "2"},
             NEW u \in Seq(NameAtoms), NEW v \in Seq(NameAtoms)
      PROVE  MakeScopedName(b, u) # MakeSharedTextureSlotName(x, v)
  <2>1. Names(MakeScopedName(b, u), b, u)
    BY <1>2, NameShape
  <2>4. MakeScopedName(b, u)[1] = b
    BY <2>1 DEF Names
  <2>2. MakeSharedTextureSlotName(x, v)[1] = "SharedTex"
    BY SlotNameShape
  <2>3. b # "SharedTex"
    BY DEF ScopedBases
  <2> QED
    BY <2>2, <2>3, <2>4
<1>5. ASSUME NEW x \in {"0", "1", "2"}, NEW y \in {"0", "1", "2"},
             MakeSharedTextureSlotName(x, s) = MakeSharedTextureSlotName(y, t)
      PROVE  FALSE
  <2> DEFINE m == MakeScopedName("SharedTex", s)
             k == MakeScopedName("SharedTex", t)
             p == <<"_", x>>
             q == <<"_", y>>
  <2>1. m \in Seq(NameAtoms) /\ k \in Seq(NameAtoms)
    BY <1>1, <1>2, NameShape
  <2>2. p \in Seq(NameAtoms) /\ Len(p) = 2 /\ q \in Seq(NameAtoms) /\ Len(q) = 2
    BY Short DEF NameAtoms
  <2>3. m \o p = k \o q
    BY <1>5 DEF MakeSharedTextureSlotName
  <2>4. m = k
    <3> HIDE DEF m, k, p, q
    <3> QED
      BY <2>1, <2>2, <2>3, EndsTell
  <2>5. Names(m, "SharedTex", s) /\ Names(k, "SharedTex", t)
    BY <1>1, <1>2, NameShape
  <2> QED
    BY <1>1, <2>4, <2>5, NamesTell
<1> QED
  BY <1>1, <1>3, <1>4, <1>5 DEF BuildSharedMemoryNames

-----------------------------------------------------------------------------
(* The suffix is a legal one, so hosts are apart.                          *)

SuffixLegal == suffix \in Seq(Legal)

LEMMA SuffixStep == SuffixLegal /\ [StartNext]_startVars => SuffixLegal'
<1> SUFFICES ASSUME SuffixLegal, [StartNext]_startVars PROVE SuffixLegal'
  OBVIOUS
<1>1. CASE Launch
  <2>1. PICK args \in ArgLists : /\ config' = FromArgs(args)
                                 /\ suffix' = SanitizeSessionId(config'.session)
    BY <1>1 DEF Launch
  <2>2. FromArgs(args).session \in DOMAIN CharsOf
    BY HostStartAssumption
  <2> QED
    BY <2>1, <2>2, SanitizedTyped DEF SuffixLegal
<1>2. CASE UNCHANGED suffix
  BY <1>2 DEF SuffixLegal
<1>3. StartNext => Launch \/ UNCHANGED suffix
  BY DEF StartNext, ExitAtOnce, Killed, Exit, InitDevice, MapChannel, InitFails, ClearWrite,
         ClearRead, InitD3DInterfaces, CreateBrowser, OnAfterCreated, OnBeforeClose,
         OpenLocalFile, ReadEvent, Attach, Detach, Reserve, Store, PublishEvent, hostVars
<1> QED
  BY <1>1, <1>2, <1>3 DEF startVars, hostVars

(* No host shares an object with a host of another sanitised session id    *)
(* (SharedMemoryLayout.h: SanitizeSessionId and the names made of it).     *)
THEOREM HostsAreApart == StartSpec => []SessionsApart
<1>1. StartInit => SuffixLegal
  BY EmptySeq DEF StartInit, SuffixLegal
<1>2. SuffixLegal => SessionsApart
  <2> SUFFICES ASSUME SuffixLegal, NEW other \in Sessions, SanitizeSessionId(other) # suffix
               PROVE  BuildSharedMemoryNames(SanitizeSessionId(other))
                        \cap BuildSharedMemoryNames(suffix) = {}
    BY DEF SessionsApart
  <2>1. SanitizeSessionId(other) \in Seq(Legal)
    BY HostStartAssumption, SanitizedTyped
  <2> QED
    BY <2>1, NamesApart DEF SuffixLegal
<1> QED
  BY <1>1, <1>2, SuffixStep, PTL DEF StartSpec

-----------------------------------------------------------------------------
(* The configuration is the one promised: the scan and the promise agree   *)
(* on every prefix of the command line.                                    *)

\* h holds the states of the scan of args.
Scans(h, args) ==
    /\ args \in Seq(ArgRecords)
    /\ h \in [0 .. Len(args) -> ArgStates]
    /\ h[0] = ArgStart
    /\ \A k \in 1 .. Len(args) : h[k] = TakeArg(h[k - 1], args[k])

\* The option that waits for a value after k arguments.
Wanted(h, k) == h[k].want
Waits(h, k) == h[k].want # ""
HasValue(args, i) == args[i].value # ""

\* The arguments that come when no value is waited for.
Free(h, args) == {i \in 1 .. Len(args) : ~Waits(h, i - 1)}

LEMMA ScanLength ==
    ASSUME NEW args, NEW h, Scans(h, args)
    PROVE  Len(args) \in Nat /\ DOMAIN args = 1 .. Len(args)
BY DEF Scans

LEMMA NothingWanted ==
    ASSUME NEW args, NEW h, Scans(h, args)
    PROVE  ~Waits(h, 0)
<1> DEFINE r == h[0]
<1>1. r = [cfg |-> DefaultConfig, want |-> ""]
  BY DEF Scans, ArgStart
<1> HIDE DEF r
<1>2. r.want = ""
  BY <1>1
<1> QED
  BY <1>2 DEF r, Waits

LEMMA ScanArg ==
    ASSUME NEW args, NEW h, Scans(h, args), NEW k \in 1 .. Len(args)
    PROVE  /\ Len(args) \in Nat /\ DOMAIN args = 1 .. Len(args)
           /\ args[k] \in ArgRecords
           /\ h[k - 1] \in ArgStates
           /\ h[k] = TakeArg(h[k - 1], args[k])
           /\ args[k].text \in Flags => args[k].key \notin Valued
<1>1. /\ Len(args) \in Nat /\ DOMAIN args = 1 .. Len(args)
      /\ args[k] \in ArgRecords /\ k - 1 \in 0 .. Len(args)
  BY DEF Scans
<1>2. args[k].text \in Flags => args[k].key \notin Valued
  BY <1>1 DEF ArgRecords, Flags, Help, Valued
<1> QED
  BY <1>1, <1>2 DEF Scans

\* What an argument leaves waited for.
LEMMA WantAfter ==
    ASSUME NEW args, NEW h, Scans(h, args), NEW k \in 1 .. Len(args)
    PROVE  /\ Waits(h, k) <=> k \in Free(h, args) /\ Takes(args, k)
           /\ Waits(h, k) => Wanted(h, k) = args[k].key
<1> DEFINE s == h[k - 1]
           r == h[k]
           a == args[k]
<1>1. r = TakeArg(s, a) /\ s \in ArgStates /\ (a.text \in Flags => a.key \notin Valued)
  BY ScanArg
<1>2. (k \in Free(h, args) <=> s.want = "") /\ (Takes(args, k) <=> a.key \in Valued /\ a.value = "")
  BY DEF Free, Takes, Waits
<1> HIDE DEF s, r, a
<1>0. Takes(args, k) => a.key # ""
  BY DEF Takes, Valued, a
<1> DEFINE Goal == r.want = IF k \in Free(h, args) /\ Takes(args, k) THEN a.key ELSE ""
<1>3. ASSUME s.want # "" PROVE Goal
  <2>1. r = [cfg |-> Assign(s.cfg, s.want, a.text), want |-> ""]
    BY <1>1, <1>3 DEF TakeArg
  <2>2. r.want = ""
    BY <2>1
  <2> QED
    BY <1>2, <1>3, <2>2
<1>4. ASSUME s.want = "" /\ a.text \in Flags
      PROVE  Goal
  <2>1. r = [s EXCEPT !.cfg = Flag(s.cfg, a.text)]
    BY <1>1, <1>4 DEF TakeArg
  <2> QED
    BY <1>1, <1>2, <1>4, <2>1 DEF ArgStates
<1>5. ASSUME s.want = "" /\ a.text \notin Flags /\ a.key \in Valued /\ a.value = ""
      PROVE  Goal
  <2>1. r = [s EXCEPT !.want = a.key]
    BY <1>1, <1>5 DEF TakeArg
  <2>2. r.want = a.key
    BY <1>1, <2>1 DEF ArgStates
  <2> QED
    BY <1>2, <1>5, <2>2
<1>6. ASSUME s.want = "" /\ a.text \notin Flags /\ a.key \in Valued /\ a.value # ""
      PROVE  Goal
  <2>1. r = [s EXCEPT !.cfg = Assign(s.cfg, a.key, a.value)]
    BY <1>1, <1>6 DEF TakeArg
  <2> QED
    BY <1>1, <1>2, <1>6, <2>1 DEF ArgStates
<1>7. ASSUME s.want = "" /\ a.text \notin Flags /\ a.key \notin Valued
      PROVE  Goal
  <2>1. r = s
    BY <1>1, <1>7 DEF TakeArg
  <2> QED
    BY <1>2, <1>7, <2>1
<1> QED
  <2>1. Goal
    BY <1>3, <1>4, <1>5, <1>6, <1>7
  <2> QED
    BY <1>0, <2>1 DEF r, a, Wanted, Waits

\* The promise's idea of a head, said of a set S.
AreHeads(S, args) ==
    /\ S \in SUBSET DOMAIN args
    /\ \A i \in DOMAIN args : i \in S <=> i = 1 \/ i - 1 \notin S \/ ~Takes(args, i - 1)

LEMMA FreeAreHeads ==
    ASSUME NEW args, NEW h, Scans(h, args)
    PROVE  AreHeads(Free(h, args), args)
<1>1. DOMAIN args = 1 .. Len(args) /\ Len(args) \in Nat
  BY ScanLength
<1>2. ASSUME NEW i \in 1 .. Len(args)
      PROVE  i \in Free(h, args) <=> i = 1 \/ i - 1 \notin Free(h, args) \/ ~Takes(args, i - 1)
  <2>1. CASE i = 1
    <3>1. i - 1 = 0
      BY <2>1
    <3> QED
      BY <2>1, <3>1, NothingWanted DEF Free
  <2>2. CASE i # 1
    <3>1. i - 1 \in 1 .. Len(args)
      BY <1>1, <2>2
    <3>2. Waits(h, i - 1) <=> i - 1 \in Free(h, args) /\ Takes(args, i - 1)
      BY <3>1, WantAfter
    <3>3. i \in Free(h, args) <=> ~Waits(h, i - 1)
      BY DEF Free
    <3> QED
      BY <2>2, <3>2, <3>3
  <2> QED
    BY <2>1, <2>2
<1> QED
  BY <1>1, <1>2 DEF AreHeads, Free

\* There is one set of heads.
LEMMA HeadsAreFree ==
    ASSUME NEW args, NEW h, Scans(h, args)
    PROVE  Heads(args) = Free(h, args)
<1>1. DOMAIN args = 1 .. Len(args) /\ Len(args) \in Nat
  BY ScanLength
<1>2. AreHeads(Heads(args), args)
  BY FreeAreHeads DEF Heads, AreHeads
<1> DEFINE S == Heads(args)
           T == Free(h, args)
           K == {k \in Nat : k \in 1 .. Len(args) => (k \in S <=> k \in T)}
<1> HIDE DEF S, T
<1>3. AreHeads(S, args) /\ AreHeads(T, args)
  BY <1>2, FreeAreHeads DEF S, T
<1>4. 0 \in K
  OBVIOUS
<1>5. ASSUME NEW k \in Nat, k \in K PROVE k + 1 \in K
  <2> SUFFICES ASSUME k + 1 \in 1 .. Len(args) PROVE k + 1 \in S <=> k + 1 \in T
    OBVIOUS
  <2>1. (k + 1) - 1 = k
    OBVIOUS
  <2>2. CASE k = 0
    BY <1>1, <1>3, <2>2 DEF AreHeads
  <2>3. CASE k # 0
    <3>1. k \in 1 .. Len(args)
      BY <1>1, <2>3
    <3>2. k \in S <=> k \in T
      BY <1>5, <3>1
    <3> QED
      BY <1>1, <1>3, <2>1, <2>3, <3>2 DEF AreHeads
  <2> QED
    BY <2>2, <2>3
<1>6. Nat \subseteq K
  <2> HIDE DEF K
  <2> QED
    BY <1>4, <1>5, Climb
<1>7. \A k \in 1 .. Len(args) : k \in S <=> k \in T
  BY <1>1, <1>6
<1>8. S = T
  BY <1>1, <1>3, <1>7 DEF AreHeads
<1> QED
  BY <1>8 DEF S, T

\* The option an argument is about: the one that waits for a value, or its own.
About(h, k) == IF Waits(h, k - 1) THEN k - 1 ELSE k

\* The argument completes that option.
Completes(h, args, k) ==
    Waits(h, k - 1) \/ (args[k].key \in Valued /\ HasValue(args, k))

LEMMA AboutWhat ==
    ASSUME NEW args, NEW h, Scans(h, args), NEW k \in 1 .. Len(args), Waits(h, k - 1)
    PROVE  /\ k - 1 \in 1 .. Len(args)
           /\ k - 1 \in Free(h, args)
           /\ Takes(args, k - 1)
           /\ Wanted(h, k - 1) = args[k - 1].key
           /\ ValueAt(args, k - 1) = args[k].text
<1>1. Len(args) \in Nat /\ DOMAIN args = 1 .. Len(args)
  BY ScanLength
<1>2. k # 1
  <2>1. k = 1 => k - 1 = 0
    OBVIOUS
  <2> QED
    BY <2>1, NothingWanted
<1>3. k - 1 \in 1 .. Len(args) /\ (k - 1) + 1 = k
  BY <1>1, <1>2
<1>5. k - 1 \in Free(h, args) /\ Takes(args, k - 1) /\ Wanted(h, k - 1) = args[k - 1].key
  BY <1>3, WantAfter
<1>6. ValueAt(args, k - 1) = args[k].text
  BY <1>1, <1>3, <1>5 DEF ValueAt, Takes
<1> QED
  BY <1>3, <1>5, <1>6

\* What an argument does to the configuration.
LEMMA ConfigAfter ==
    ASSUME NEW args, NEW h, Scans(h, args), NEW k \in 1 .. Len(args)
    PROVE  LET o == About(h, k)
               cfg == h[k - 1].cfg
           IN  h[k].cfg = IF Completes(h, args, k) THEN Assign(cfg, args[o].key, ValueAt(args, o))
                          ELSE IF args[k].text \in Flags THEN Flag(cfg, args[k].text)
                          ELSE cfg
<1> DEFINE s == h[k - 1]
           r == h[k]
           a == args[k]
           o == About(h, k)
           Goal == r.cfg = IF Completes(h, args, k)
                           THEN Assign(s.cfg, args[o].key, ValueAt(args, o))
                           ELSE IF a.text \in Flags THEN Flag(s.cfg, a.text)
                           ELSE s.cfg
<1>1. r = TakeArg(s, a) /\ s \in ArgStates /\ (a.text \in Flags => a.key \notin Valued)
  BY ScanArg
<1>2. Completes(h, args, k) <=> s.want # "" \/ (a.key \in Valued /\ a.value # "")
  BY DEF Completes, Waits, HasValue
<1>3. s.want # "" => s.want = args[o].key /\ ValueAt(args, o) = a.text
  <2> SUFFICES ASSUME s.want # "" PROVE s.want = args[o].key /\ ValueAt(args, o) = a.text
    OBVIOUS
  <2>1. Waits(h, k - 1)
    BY DEF Waits
  <2>2. o = k - 1
    BY <2>1 DEF About
  <2>3. Wanted(h, k - 1) = args[k - 1].key /\ ValueAt(args, k - 1) = args[k].text
    BY <2>1, AboutWhat
  <2>4. Wanted(h, k - 1) = s.want
    BY DEF Wanted
  <2> QED
    BY <2>2, <2>3, <2>4
<1>4. s.want = "" => args[o].key = a.key /\ (a.value # "" => ValueAt(args, o) = a.value)
  BY DEF About, ValueAt, Waits
<1> HIDE DEF s, r, a, o
<1>5. ASSUME s.want # "" PROVE Goal
  <2>1. r = [cfg |-> Assign(s.cfg, s.want, a.text), want |-> ""]
    BY <1>1, <1>5 DEF TakeArg
  <2>2. r.cfg = Assign(s.cfg, s.want, a.text)
    BY <2>1
  <2> QED
    BY <1>2, <1>3, <1>5, <2>2
<1>6. ASSUME s.want = "" /\ a.text \in Flags
      PROVE  Goal
  <2>1. r = [s EXCEPT !.cfg = Flag(s.cfg, a.text)]
    BY <1>1, <1>6 DEF TakeArg
  <2> QED
    BY <1>1, <1>2, <1>6, <2>1 DEF ArgStates
<1>7. ASSUME s.want = "" /\ a.text \notin Flags /\ a.key \in Valued /\ a.value = ""
      PROVE  Goal
  <2>1. r = [s EXCEPT !.want = a.key]
    BY <1>1, <1>7 DEF TakeArg
  <2>2. r.cfg = s.cfg
    BY <1>1, <2>1 DEF ArgStates
  <2> QED
    BY <1>2, <1>7, <2>2
<1>8. ASSUME s.want = "" /\ a.text \notin Flags /\ a.key \in Valued /\ a.value # ""
      PROVE  Goal
  <2>1. r = [s EXCEPT !.cfg = Assign(s.cfg, a.key, a.value)]
    BY <1>1, <1>8 DEF TakeArg
  <2>2. r.cfg = Assign(s.cfg, a.key, a.value)
    BY <1>1, <2>1 DEF ArgStates
  <2> QED
    BY <1>2, <1>4, <1>8, <2>2
<1>9. ASSUME s.want = "" /\ a.text \notin Flags /\ a.key \notin Valued
      PROVE  Goal
  <2>1. r = s
    BY <1>1, <1>9 DEF TakeArg
  <2> QED
    BY <1>2, <1>9, <2>1
<1>10. Goal
  BY <1>5, <1>6, <1>7, <1>8, <1>9
<1> QED
  BY <1>10 DEF s, r, a, o

\* The options among keys that the first k arguments give a value that is understood.
Given(h, args, k, keys) ==
    {i \in Free(h, args) : /\ i <= k
                           /\ args[i].key \in keys
                           /\ HasValue(args, i) \/ i + 1 <= k
                           /\ Understood(args[i].key, ValueAt(args, i))}

\* The last of some indices, if there is one.
Newest(s) == IF s = {} THEN 0 ELSE Max(s)

\* Argument k gives a value that is understood to an option among keys.
Gives(h, args, k, keys) ==
    LET o == About(h, k)
    IN  Completes(h, args, k) /\ args[o].key \in keys /\ Understood(args[o].key, ValueAt(args, o))

LEMMA GivenAfter ==
    ASSUME NEW args, NEW h, Scans(h, args), NEW k \in 1 .. Len(args),
           NEW keys, keys \subseteq Valued
    PROVE  LET old == Given(h, args, k - 1, keys)
           IN  /\ Given(h, args, k, keys) =
                    IF Gives(h, args, k, keys) THEN old \cup {About(h, k)} ELSE old
               /\ About(h, k) \in 1 .. Len(args)
               /\ \A i \in old : i <= About(h, k)
<1> DEFINE o == About(h, k)
           G == Gives(h, args, k, keys)
<1>1. Len(args) \in Nat /\ DOMAIN args = 1 .. Len(args)
  BY ScanLength
<1>0. k \in Nat /\ 1 <= k /\ k <= Len(args)
  BY <1>1
<1>2. o \in 1 .. Len(args)
  BY AboutWhat DEF About
<1>3. ASSUME NEW i \in Given(h, args, k - 1, keys)
      PROVE  i \in Given(h, args, k, keys) /\ i <= o
  <2>1. i \in 1 .. Len(args) /\ i <= k - 1
    BY DEF Given, Free
  <2>2. i \in Nat /\ i <= k /\ (i + 1 <= k - 1 => i + 1 <= k)
    BY <1>0, <1>1, <2>1
  <2>3. i <= o
    BY <1>0, <2>1, <2>2 DEF About
  <2> QED
    BY <2>2, <2>3 DEF Given
<1>4. ASSUME G PROVE o \in Given(h, args, k, keys)
  <2>1. args[o].key \in keys /\ Understood(args[o].key, ValueAt(args, o))
    BY <1>4 DEF Gives
  <2>2. CASE Waits(h, k - 1)
    <3>1. o = k - 1 /\ o \in Free(h, args)
      BY <2>2, AboutWhat DEF About
    <3>2. o + 1 <= k /\ o <= k
      BY <3>1
    <3> QED
      BY <2>1, <3>1, <3>2 DEF Given
  <2>3. CASE ~Waits(h, k - 1)
    <3>1. o = k /\ o \in Free(h, args) /\ HasValue(args, o)
      BY <1>4, <2>3 DEF About, Free, Gives, Completes
    <3>2. o <= k
      BY <1>0, <3>1
    <3> QED
      BY <2>1, <3>1, <3>2 DEF Given
  <2> QED
    BY <2>2, <2>3
<1>5. ASSUME NEW i \in Given(h, args, k, keys), i \notin Given(h, args, k - 1, keys)
      PROVE  G /\ i = o
  <2>1. /\ i \in Free(h, args) /\ i \in 1 .. Len(args) /\ ~Waits(h, i - 1) /\ i <= k
        /\ args[i].key \in keys /\ Understood(args[i].key, ValueAt(args, i))
        /\ HasValue(args, i) \/ i + 1 <= k
    BY <1>5 DEF Given, Free
  <2>0. i \in Nat
    BY <1>1, <2>1
  <2>2. CASE i = k
    <3>1. HasValue(args, i)
      <4>1. ~(i + 1 <= k)
        BY <1>0, <2>2
      <4> QED
        BY <2>1, <4>1
    <3>2. o = i
      BY <2>1, <2>2 DEF About
    <3> QED
      BY <2>1, <2>2, <3>1, <3>2 DEF Gives, Completes
  <2>3. CASE i # k
    <3>1. i <= k - 1
      BY <1>0, <2>0, <2>1, <2>3
    <3>2. ~HasValue(args, i) /\ ~(i + 1 <= k - 1)
      BY <1>5, <2>1, <3>1 DEF Given
    <3>3. i = k - 1
      BY <1>0, <2>0, <3>1, <3>2
    <3>4. Takes(args, i)
      BY <2>1, <3>2 DEF Takes, HasValue
    <3>5. Waits(h, i)
      BY <2>1, <3>4, WantAfter
    <3>6. Waits(h, k - 1)
      BY <3>3, <3>5
    <3>7. o = i
      BY <3>3, <3>6 DEF About
    <3> QED
      BY <2>1, <3>6, <3>7 DEF Gives, Completes
  <2> QED
    BY <2>2, <2>3
<1> HIDE DEF G, o
<1>6. Given(h, args, k, keys) =
        IF G THEN Given(h, args, k - 1, keys) \cup {o} ELSE Given(h, args, k - 1, keys)
  BY <1>3, <1>4, <1>5
<1> QED
  BY <1>2, <1>3, <1>6 DEF G, o

LEMMA NewestAfter ==
    ASSUME NEW args, NEW h, Scans(h, args), NEW k \in 1 .. Len(args),
           NEW keys, keys \subseteq Valued
    PROVE  Newest(Given(h, args, k, keys)) =
             IF Gives(h, args, k, keys) THEN About(h, k)
             ELSE Newest(Given(h, args, k - 1, keys))
<1> DEFINE o == About(h, k)
           G == Gives(h, args, k, keys)
           old == Given(h, args, k - 1, keys)
           new == Given(h, args, k, keys)
<1>1. /\ new = IF G THEN old \cup {o} ELSE old
      /\ o \in 1 .. Len(args) /\ \A i \in old : i <= o
  BY GivenAfter
<1>2. new \in SUBSET (1 .. Len(args)) /\ Len(args) \in Nat
  BY ScanLength DEF Given, Free
<1> HIDE DEF G, o, old, new
<1>3. ASSUME G PROVE Newest(new) = o
  <2>1. new # {} /\ o \in new
    BY <1>1, <1>3
  <2>2. Max(new) \in new /\ o <= Max(new)
    BY <1>2, <2>1, Largest
  <2>3. Max(new) <= o
    BY <1>1, <1>3, <2>2
  <2>4. Max(new) = o
    <3>0. \A x \in 1 .. Len(args) : x \in Nat
      BY <1>2
    <3>1. Max(new) \in Nat /\ o \in Nat
      BY <1>1, <1>2, <2>2, <3>0
    <3> QED
      BY <2>2, <2>3, <3>1
  <2> QED
    BY <2>1, <2>4 DEF Newest
<1> QED
  BY <1>1, <1>3 DEF G, o, old, new

-----------------------------------------------------------------------------
(* What each field of the configuration is after k arguments.              *)

\* A field whose value the i-th argument gives, if i is not 0.
SideOf(args, i, n, default) ==
    IF i = 0 THEN default
    ELSE IF args[i].key = "--size" THEN Extent(SizeOf[ValueAt(args, i)][n])
    ELSE Extent(ValueAt(args, i))
FpsOf(args, i) == IF i = 0 THEN 60 ELSE Clamped(NumberOf[ValueAt(args, i)])
TextOf(args, i, default) == IF i = 0 THEN default ELSE ValueAt(args, i)

\* One of the texts is among the first k arguments that are not values.
Has(h, args, k, texts) == \E i \in Free(h, args) : i <= k /\ args[i].text \in texts

WidthKeys == {"--width", "--size"}
HeightKeys == {"--height", "--size"}

Sides(h, args, k, cfg) ==
    /\ cfg.width = SideOf(args, Newest(Given(h, args, k, WidthKeys)), 1, 1920)
    /\ cfg.height = SideOf(args, Newest(Given(h, args, k, HeightKeys)), 2, 1080)
Rates(h, args, k, cfg) == cfg.fps = FpsOf(args, Newest(Given(h, args, k, {"--fps"})))
Words(h, args, k, cfg) ==
    /\ cfg.url = TextOf(args, Newest(Given(h, args, k, {"--url"})), "default")
    /\ cfg.session = TextOf(args, Newest(Given(h, args, k, {"--session-id"})), "")
Switches(h, args, k, cfg) ==
    /\ cfg.help = TRUE <=> Has(h, args, k, Help)
    /\ cfg.tuning = TRUE <=> ~Has(h, args, k, {"--no-thread-tuning"})
    /\ cfg.cadence = TRUE <=> Has(h, args, k, {"--enable-cadence-feedback"})

Agrees(h, args, k, cfg) ==
    Sides(h, args, k, cfg) /\ Rates(h, args, k, cfg) /\ Words(h, args, k, cfg)
        /\ Switches(h, args, k, cfg)

\* What Assign leaves alone, and what it sets.
LEMMA AssignFields ==
    ASSUME NEW cfg \in Configs, NEW key, NEW v
    PROVE  LET new == Assign(cfg, key, v) IN
           /\ new.width = IF key \in WidthKeys /\ Understood(key, v)
                          THEN IF key = "--size" THEN Extent(SizeOf[v][1]) ELSE Extent(v)
                          ELSE cfg.width
           /\ new.height = IF key \in HeightKeys /\ Understood(key, v)
                           THEN IF key = "--size" THEN Extent(SizeOf[v][2]) ELSE Extent(v)
                           ELSE cfg.height
           /\ new.fps = IF key \in {"--fps"} /\ Understood(key, v)
                        THEN Clamped(NumberOf[v]) ELSE cfg.fps
           /\ new.url = IF key \in {"--url"} /\ Understood(key, v) THEN v ELSE cfg.url
           /\ new.session = IF key \in {"--session-id"} /\ Understood(key, v) THEN v
                            ELSE cfg.session
           /\ new.help = cfg.help /\ new.tuning = cfg.tuning /\ new.cadence = cfg.cadence
<1> USE DEF Configs, Understood, WidthKeys, HeightKeys
<1>1. CASE key = "--url" /\ v # ""
  <2>1. Assign(cfg, key, v) = [cfg EXCEPT !.url = v]
    BY <1>1 DEF Assign
  <2> QED
    BY <1>1, <2>1
<1>2. CASE key = "--session-id"
  <2>1. Assign(cfg, key, v) = [cfg EXCEPT !.session = v]
    BY <1>2 DEF Assign
  <2> QED
    BY <1>2, <2>1
<1>3. CASE key = "--width" /\ IsNumber(v)
  <2>1. Assign(cfg, key, v) = [cfg EXCEPT !.width = Extent(v)]
    BY <1>3 DEF Assign
  <2> QED
    BY <1>3, <2>1
<1>4. CASE key = "--height" /\ IsNumber(v)
  <2>1. Assign(cfg, key, v) = [cfg EXCEPT !.height = Extent(v)]
    BY <1>4 DEF Assign
  <2> QED
    BY <1>4, <2>1
<1>5. CASE key = "--fps" /\ IsNumber(v)
  <2>1. Assign(cfg, key, v) = [cfg EXCEPT !.fps = Clamped(NumberOf[v])]
    BY <1>5 DEF Assign
  <2> QED
    BY <1>5, <2>1
<1>6. CASE key = "--size" /\ IsSize(v)
  <2>1. Assign(cfg, key, v) = [cfg EXCEPT !.width = Extent(SizeOf[v][1]),
                                         !.height = Extent(SizeOf[v][2])]
    BY <1>6 DEF Assign
  <2> QED
    BY <1>6, <2>1
<1>7. CASE ~(\/ key = "--url" /\ v # ""
             \/ key = "--session-id"
             \/ key \in {"--width", "--height", "--fps"} /\ IsNumber(v)
             \/ key = "--size" /\ IsSize(v))
  <2>1. Assign(cfg, key, v) = cfg
    BY <1>7 DEF Assign
  <2> QED
    BY <1>7, <2>1
<1> QED
  BY <1>1, <1>2, <1>3, <1>4, <1>5, <1>6, <1>7

LEMMA FlagFields ==
    ASSUME NEW cfg \in Configs, NEW text \in Flags
    PROVE  LET new == Flag(cfg, text) IN
           /\ new.help = (cfg.help \/ text \in Help)
           /\ new.tuning = (cfg.tuning /\ text \notin {"--no-thread-tuning"})
           /\ new.cadence = (cfg.cadence \/ text \in {"--enable-cadence-feedback"})
           /\ new.width = cfg.width /\ new.height = cfg.height /\ new.fps = cfg.fps
           /\ new.url = cfg.url /\ new.session = cfg.session
<1> USE DEF Configs
<1>1. CASE text \in Help
  <2>1. text # "--no-thread-tuning" /\ text # "--enable-cadence-feedback"
    BY <1>1 DEF Help
  <2>2. Flag(cfg, text) = [cfg EXCEPT !.help = TRUE]
    BY <1>1, <2>1 DEF Flag
  <2> QED
    BY <1>1, <2>1, <2>2
<1>2. CASE text = "--no-thread-tuning"
  <2>1. text \notin Help /\ text # "--enable-cadence-feedback"
    BY <1>2 DEF Help
  <2>2. Flag(cfg, text) = [cfg EXCEPT !.tuning = FALSE]
    BY <1>2, <2>1 DEF Flag
  <2> QED
    BY <1>2, <2>1, <2>2
<1>3. CASE text = "--enable-cadence-feedback"
  <2>1. text \notin Help /\ text # "--no-thread-tuning"
    BY <1>3 DEF Help
  <2>2. Flag(cfg, text) = [cfg EXCEPT !.cadence = TRUE]
    BY <1>3, <2>1 DEF Flag
  <2> QED
    BY <1>3, <2>1, <2>2
<1> QED
  BY <1>1, <1>2, <1>3 DEF Flags

LEMMA HasAfter ==
    ASSUME NEW args, NEW h, Scans(h, args), NEW k \in 1 .. Len(args), NEW texts
    PROVE  Has(h, args, k, texts) <=>
             Has(h, args, k - 1, texts) \/ (~Waits(h, k - 1) /\ args[k].text \in texts)
<1>1. Len(args) \in Nat
  BY ScanLength
<1>2. \A i \in Free(h, args) : i \in Nat /\ (i <= k <=> i <= k - 1 \/ i = k)
  BY <1>1 DEF Free
<1>3. k \in Free(h, args) <=> ~Waits(h, k - 1)
  BY DEF Free
<1> QED
  BY <1>2, <1>3 DEF Has

LEMMA AgreesFirst ==
    ASSUME NEW args, NEW h, Scans(h, args), NEW cfg, cfg = DefaultConfig
    PROVE  Agrees(h, args, 0, cfg)
<1>1. Len(args) \in Nat
  BY ScanLength
<1>2. \A i \in Free(h, args) : ~(i <= 0)
  BY <1>1 DEF Free
<1>3. \A keys : Newest(Given(h, args, 0, keys)) = 0
  <2>1. \A keys : Given(h, args, 0, keys) = {}
    BY <1>2 DEF Given
  <2> QED
    BY <2>1 DEF Newest
<1>4. \A texts : ~Has(h, args, 0, texts)
  BY <1>2 DEF Has
<1>5. /\ cfg.width = 1920 /\ cfg.height = 1080 /\ cfg.fps = 60
      /\ cfg.help = FALSE /\ cfg.tuning = TRUE /\ cfg.cadence = FALSE
  BY DEF DefaultConfig
<1>6. Sides(h, args, 0, cfg)
  <2>1. SideOf(args, 0, 1, 1920) = 1920 /\ SideOf(args, 0, 2, 1080) = 1080
    BY DEF SideOf
  <2> QED
    BY <1>3, <1>5, <2>1 DEF Sides
<1>7. Rates(h, args, 0, cfg)
  <2>1. FpsOf(args, 0) = 60
    BY DEF FpsOf
  <2> QED
    BY <1>3, <1>5, <2>1 DEF Rates
<1>8. Words(h, args, 0, cfg)
  <2>1. cfg.url = "default" /\ cfg.session = ""
    BY DEF DefaultConfig
  <2> QED
    BY <1>3, <2>1 DEF Words, TextOf
<1>9. Switches(h, args, 0, cfg)
  BY <1>4, <1>5 DEF Switches
<1> QED
  BY <1>6, <1>7, <1>8, <1>9 DEF Agrees

LEMMA AgreesNext ==
    ASSUME NEW args, NEW h, Scans(h, args), NEW k \in 1 .. Len(args),
           Agrees(h, args, k - 1, h[k - 1].cfg)
    PROVE  Agrees(h, args, k, h[k].cfg)
<1> DEFINE old == h[k - 1].cfg
           new == h[k].cfg
           o == About(h, k)
           key == args[o].key
           v == ValueAt(args, o)
           text == args[k].text
           done == Completes(h, args, k)
<1>1. old \in Configs /\ (text \in Flags => args[k].key \notin Valued)
  BY ScanArg DEF ArgStates
<1>2. new = IF done THEN Assign(old, key, v) ELSE IF text \in Flags THEN Flag(old, text) ELSE old
  BY ConfigAfter
<1>3. o # 0
  <2>1. o \in 1 .. Len(args)
    BY GivenAfter
  <2>2. \A i \in 1 .. Len(args) : i # 0
    BY ScanLength
  <2> QED
    BY <2>1, <2>2
<1>4. \A keys \in SUBSET Valued :
        Newest(Given(h, args, k, keys)) =
          IF done /\ key \in keys /\ Understood(key, v) THEN o
          ELSE Newest(Given(h, args, k - 1, keys))
  BY NewestAfter DEF Gives
<1>5. \A texts : Has(h, args, k, texts) <=>
        Has(h, args, k - 1, texts) \/ (~Waits(h, k - 1) /\ text \in texts)
  BY HasAfter
<1>6. done => Waits(h, k - 1) \/ text \notin Flags
  BY <1>1 DEF Completes
<1>7. ~done => ~Waits(h, k - 1)
  BY DEF Completes
<1>8. Agrees(h, args, k - 1, old)
  OBVIOUS
<1> HIDE DEF old, new, o, key, v, text, done
<1>9. /\ WidthKeys \in SUBSET Valued /\ HeightKeys \in SUBSET Valued /\ {"--fps"} \in SUBSET Valued
      /\ {"--url"} \in SUBSET Valued /\ {"--session-id"} \in SUBSET Valued
  BY DEF WidthKeys, HeightKeys, Valued
<1>10. Sides(h, args, k, new)
  <2>1. /\ new.width = IF done /\ key \in WidthKeys /\ Understood(key, v)
                       THEN IF key = "--size" THEN Extent(SizeOf[v][1]) ELSE Extent(v)
                       ELSE old.width
        /\ new.height = IF done /\ key \in HeightKeys /\ Understood(key, v)
                        THEN IF key = "--size" THEN Extent(SizeOf[v][2]) ELSE Extent(v)
                        ELSE old.height
    BY <1>1, <1>2, AssignFields, FlagFields
  <2>2. /\ SideOf(args, o, 1, 1920) = IF key = "--size" THEN Extent(SizeOf[v][1]) ELSE Extent(v)
        /\ SideOf(args, o, 2, 1080) = IF key = "--size" THEN Extent(SizeOf[v][2]) ELSE Extent(v)
    BY <1>3 DEF SideOf, key, v
  <2>3. Sides(h, args, k - 1, old)
    BY <1>8 DEF Agrees
  <2> QED
    BY <1>4, <1>9, <2>1, <2>2, <2>3 DEF Sides
<1>11. Rates(h, args, k, new)
  <2>1. new.fps = IF done /\ key \in {"--fps"} /\ Understood(key, v) THEN Clamped(NumberOf[v])
                  ELSE old.fps
    BY <1>1, <1>2, AssignFields, FlagFields
  <2>2. FpsOf(args, o) = Clamped(NumberOf[v])
    BY <1>3 DEF FpsOf, v
  <2>3. Rates(h, args, k - 1, old)
    BY <1>8 DEF Agrees
  <2> QED
    BY <1>4, <1>9, <2>1, <2>2, <2>3 DEF Rates
<1>12. Words(h, args, k, new)
  <2>1. /\ new.url = IF done /\ key \in {"--url"} /\ Understood(key, v) THEN v ELSE old.url
        /\ new.session = IF done /\ key \in {"--session-id"} /\ Understood(key, v) THEN v
                         ELSE old.session
    BY <1>1, <1>2, AssignFields, FlagFields
  <2>2. TextOf(args, o, "default") = v /\ TextOf(args, o, "") = v
    BY <1>3 DEF TextOf, v
  <2>3. Words(h, args, k - 1, old)
    BY <1>8 DEF Agrees
  <2> QED
    BY <1>4, <1>9, <2>1, <2>2, <2>3 DEF Words
<1>13. Switches(h, args, k, new)
  <2>1. /\ old.help \in BOOLEAN /\ old.tuning \in BOOLEAN /\ old.cadence \in BOOLEAN
        /\ Switches(h, args, k - 1, old)
    BY <1>1, <1>8 DEF Configs, Agrees
  <2>2. /\ Help \subseteq Flags /\ {"--no-thread-tuning"} \subseteq Flags
        /\ {"--enable-cadence-feedback"} \subseteq Flags
    BY DEF Flags
  <2>3. CASE done \/ text \notin Flags
    <3>1. new.help = old.help /\ new.tuning = old.tuning /\ new.cadence = old.cadence
      BY <1>1, <1>2, <2>3, AssignFields
    <3>2. \A texts \in SUBSET Flags : Has(h, args, k, texts) <=> Has(h, args, k - 1, texts)
      BY <1>5, <1>6, <2>3
    <3> QED
      BY <2>1, <2>2, <3>1, <3>2 DEF Switches
  <2>4. CASE ~done /\ text \in Flags
    <3>1. /\ new.help = (old.help \/ text \in Help)
          /\ new.tuning = (old.tuning /\ text \notin {"--no-thread-tuning"})
          /\ new.cadence = (old.cadence \/ text \in {"--enable-cadence-feedback"})
      BY <1>1, <1>2, <2>4, FlagFields
    <3>3. /\ new.help = TRUE <=> old.help = TRUE \/ text \in Help
          /\ new.tuning = TRUE <=> old.tuning = TRUE /\ text \notin {"--no-thread-tuning"}
          /\ new.cadence = TRUE <=> old.cadence = TRUE \/ text \in {"--enable-cadence-feedback"}
      BY <2>1, <3>1
    <3>2. \A texts : Has(h, args, k, texts) <=> Has(h, args, k - 1, texts) \/ text \in texts
      BY <1>5, <1>7, <2>4
    <3> QED
      BY <2>1, <3>2, <3>3 DEF Switches
  <2> QED
    BY <2>3, <2>4
<1> QED
  BY <1>10, <1>11, <1>12, <1>13 DEF Agrees, new

LEMMA AgreesLast ==
    ASSUME NEW args, NEW h, Scans(h, args)
    PROVE  Agrees(h, args, Len(args), h[Len(args)].cfg)
<1> DEFINE K == {k \in Nat : k <= Len(args) => Agrees(h, args, k, h[k].cfg)}
<1>1. 0 \in K
  <2>1. h[0].cfg = DefaultConfig
    <3> DEFINE r == h[0]
    <3>1. r = [cfg |-> DefaultConfig, want |-> ""]
      BY DEF Scans, ArgStart
    <3> HIDE DEF r
    <3>2. r.cfg = DefaultConfig
      BY <3>1
    <3> QED
      BY <3>2 DEF r
  <2> QED
    BY <2>1, AgreesFirst
<1>2. ASSUME NEW k \in Nat, k \in K PROVE k + 1 \in K
  <2> SUFFICES ASSUME k + 1 <= Len(args) PROVE Agrees(h, args, k + 1, h[k + 1].cfg)
    OBVIOUS
  <2>1. Len(args) \in Nat
    BY ScanLength
  <2>2. k + 1 \in 1 .. Len(args) /\ (k + 1) - 1 = k /\ k <= Len(args)
    BY <2>1
  <2>3. Agrees(h, args, k, h[k].cfg)
    BY <1>2, <2>2
  <2> QED
    BY <2>2, <2>3, AgreesNext
<1>3. Nat \subseteq K
  <2> HIDE DEF K
  <2> QED
    BY <1>1, <1>2, Climb
<1> QED
  BY <1>3, ScanLength

-----------------------------------------------------------------------------
(* What is promised, in the terms of the scan.                             *)

LEMMA LastIsNewest ==
    ASSUME NEW args, NEW h, Scans(h, args), NEW keys
    PROVE  LET i == Newest(Given(h, args, Len(args), keys))
           IN  LastOf(args, keys) = IF i = 0 THEN [key |-> "", value |-> ""]
                                    ELSE [key |-> args[i].key, value |-> ValueAt(args, i)]
<1> DEFINE set == {i \in Heads(args) : /\ args[i].key \in keys
                                       /\ args[i].value # "" \/ i + 1 \in DOMAIN args
                                       /\ Understood(args[i].key, ValueAt(args, i))}
           got == Given(h, args, Len(args), keys)
<1>1. Len(args) \in Nat /\ DOMAIN args = 1 .. Len(args)
  BY ScanLength
<1>2. \A i \in Free(h, args) : i \in 1 .. Len(args) /\ i <= Len(args)
        /\ (i + 1 \in DOMAIN args <=> i + 1 <= Len(args))
  BY <1>1 DEF Free
<1>3. \A i \in Free(h, args) : HasValue(args, i) <=> args[i].value # ""
  BY DEF HasValue
<1>4. set = got
  BY <1>2, <1>3, HeadsAreFree DEF Given
<1>5. LastOf(args, keys) = IF set = {} THEN [key |-> "", value |-> ""]
                           ELSE [key |-> args[Max(set)].key, value |-> ValueAt(args, Max(set))]
  BY DEF LastOf
<1> HIDE DEF set
<1>6. got \in SUBSET (1 .. Len(args))
  BY <1>2 DEF Given
<1> HIDE DEF got
<1>7. got # {} => Max(got) # 0
  <2>1. got # {} => Max(got) \in 1 .. Len(args)
    BY <1>1, <1>6, Largest
  <2> QED
    BY <1>1, <2>1
<1>8. CASE got = {}
  BY <1>4, <1>5, <1>8 DEF Newest, got
<1>9. CASE got # {}
  <2>1. Newest(got) = Max(got) /\ Newest(got) # 0
    BY <1>7, <1>9 DEF Newest
  <2> QED
    BY <1>4, <1>5, <1>9, <2>1 DEF got
<1> QED
  BY <1>8, <1>9

LEMMA KeyOfNewest ==
    ASSUME NEW args, NEW h, Scans(h, args), NEW keys, keys \subseteq Valued,
           Newest(Given(h, args, Len(args), keys)) # 0
    PROVE  args[Newest(Given(h, args, Len(args), keys))].key \in keys
<1> DEFINE got == Given(h, args, Len(args), keys)
<1>1. Len(args) \in Nat
  BY ScanLength
<1>2. got \in SUBSET (1 .. Len(args)) /\ got # {}
  BY DEF Given, Free, Newest
<1>3. Max(got) \in got
  BY <1>1, <1>2, Largest
<1>4. args[Max(got)].key \in keys
  BY <1>3 DEF Given
<1> QED
  BY <1>2, <1>4 DEF Newest

\* What is promised of a side, a text and the frame rate, from the last option.
SideSaid(last, n, default) ==
    CASE last.key = "" -> default
      [] last.key = "--size" -> Extent(SizeOf[last.value][n])
      [] OTHER -> Extent(last.value)
TextSaid(last, default) == IF last.key = "" THEN default ELSE last.value
FpsSaid(last) == IF last.key = "" THEN 60 ELSE Clamped(NumberOf[last.value])

LEMMA Said ==
    ASSUME NEW args, NEW h, Scans(h, args), NEW keys, keys \subseteq Valued
    PROVE  LET i == Newest(Given(h, args, Len(args), keys))
               last == LastOf(args, keys)
           IN  /\ \A n, default : SideSaid(last, n, default) = SideOf(args, i, n, default)
               /\ \A default : TextSaid(last, default) = TextOf(args, i, default)
               /\ FpsSaid(last) = FpsOf(args, i)
               /\ last.value = TextOf(args, i, "")
<1> DEFINE i == Newest(Given(h, args, Len(args), keys))
           last == LastOf(args, keys)
           key == args[i].key
           v == ValueAt(args, i)
<1>1. last = IF i = 0 THEN [key |-> "", value |-> ""] ELSE [key |-> key, value |-> v]
  BY LastIsNewest
<1>2. i # 0 => key # ""
  BY KeyOfNewest DEF Valued
<1>3. /\ \A n, default : SideOf(args, i, n, default) =
            IF i = 0 THEN default
            ELSE IF key = "--size" THEN Extent(SizeOf[v][n]) ELSE Extent(v)
      /\ \A default : TextOf(args, i, default) = IF i = 0 THEN default ELSE v
      /\ FpsOf(args, i) = IF i = 0 THEN 60 ELSE Clamped(NumberOf[v])
  BY DEF SideOf, TextOf, FpsOf
<1> HIDE DEF i, last, key, v
<1>4. CASE i = 0
  <2>1. last = [key |-> "", value |-> ""]
    BY <1>1, <1>4
  <2>2. last.key = "" /\ last.value = ""
    BY <2>1
  <2>3. TextOf(args, i, "") = ""
    BY <1>3, <1>4
  <2> QED
    BY <1>3, <1>4, <2>2, <2>3 DEF i, last, SideSaid, TextSaid, FpsSaid
<1>5. CASE i # 0
  <2>1. last = [key |-> key, value |-> v]
    BY <1>1, <1>5
  <2>2. last.key = key /\ last.value = v
    BY <2>1
  <2> QED
    BY <1>2, <1>3, <1>5, <2>2 DEF i, last, SideSaid, TextSaid, FpsSaid
<1> QED
  BY <1>4, <1>5

(* For every command line, reading it from left to right comes to what the *)
(* usage text promises (host_runtime_config.cpp: FromArgs and its usage).  *)
THEOREM PromiseKept ==
    ASSUME NEW args \in Seq(ArgRecords)
    PROVE  FromArgs(args) = Promised(args)
<1>1. PICK h \in [0 .. Len(args) -> ArgStates] :
        /\ h[0] = ArgStart
        /\ \A k \in 1 .. Len(args) : h[k] = TakeArg(h[k - 1], args[k])
        /\ FromArgs(args) = h[Len(args)].cfg
  BY ArgsInTurn
<1>2. Scans(h, args)
  BY <1>1 DEF Scans
<1> DEFINE n == Len(args)
           cfg == FromArgs(args)
           promised == Promised(args)
<1>3. cfg \in Configs
  BY FromArgsTyped
<1>4. Agrees(h, args, n, cfg)
  BY <1>1, <1>2, AgreesLast
<1> HIDE DEF cfg
<1>5. /\ promised.width = SideSaid(LastOf(args, WidthKeys), 1, 1920)
      /\ promised.height = SideSaid(LastOf(args, HeightKeys), 2, 1080)
      /\ promised.fps = FpsSaid(LastOf(args, {"--fps"}))
      /\ promised.url = TextSaid(LastOf(args, {"--url"}), "default")
      /\ promised.session = LastOf(args, {"--session-id"}).value
  BY DEF Promised, SideSaid, FpsSaid, TextSaid, WidthKeys, HeightKeys
<1>6. /\ WidthKeys \subseteq Valued /\ HeightKeys \subseteq Valued /\ {"--fps"} \subseteq Valued
      /\ {"--url"} \subseteq Valued /\ {"--session-id"} \subseteq Valued
  BY DEF WidthKeys, HeightKeys, Valued
<1>7. /\ promised.width = cfg.width /\ promised.height = cfg.height
      /\ promised.fps = cfg.fps
      /\ promised.url = cfg.url /\ promised.session = cfg.session
  <2>1. Sides(h, args, n, cfg) /\ Rates(h, args, n, cfg) /\ Words(h, args, n, cfg)
    BY <1>4 DEF Agrees
  <2>2. /\ SideSaid(LastOf(args, WidthKeys), 1, 1920) = cfg.width
        /\ SideSaid(LastOf(args, HeightKeys), 2, 1080) = cfg.height
    <3> DEFINE iw == Newest(Given(h, args, n, WidthKeys))
               ih == Newest(Given(h, args, n, HeightKeys))
    <3>1. /\ \A side, default : SideSaid(LastOf(args, WidthKeys), side, default)
                                = SideOf(args, iw, side, default)
          /\ \A side, default : SideSaid(LastOf(args, HeightKeys), side, default)
                                = SideOf(args, ih, side, default)
      BY <1>2, <1>6, Said
    <3>2. cfg.width = SideOf(args, iw, 1, 1920) /\ cfg.height = SideOf(args, ih, 2, 1080)
      BY <2>1 DEF Sides
    <3> HIDE DEF iw, ih
    <3> QED
      BY <3>1, <3>2
  <2>3. FpsSaid(LastOf(args, {"--fps"})) = cfg.fps
    BY <1>2, <1>6, <2>1, Said DEF Rates
  <2>4. /\ TextSaid(LastOf(args, {"--url"}), "default") = cfg.url
        /\ LastOf(args, {"--session-id"}).value = cfg.session
    <3> DEFINE iu == Newest(Given(h, args, n, {"--url"}))
               is == Newest(Given(h, args, n, {"--session-id"}))
    <3>1. \A default : TextSaid(LastOf(args, {"--url"}), default) = TextOf(args, iu, default)
      BY <1>2, <1>6, Said
    <3>2. LastOf(args, {"--session-id"}).value = TextOf(args, is, "")
      BY <1>2, <1>6, Said
    <3>3. cfg.url = TextOf(args, iu, "default") /\ cfg.session = TextOf(args, is, "")
      BY <2>1 DEF Words
    <3> HIDE DEF iu, is
    <3> QED
      BY <3>1, <3>2, <3>3
  <2> HIDE DEF promised
  <2> QED
    BY <1>5, <2>2, <2>3, <2>4
<1>8. \A texts : Has(h, args, n, texts) <=> \E i \in Heads(args) : args[i].text \in texts
  <2>1. \A i \in Free(h, args) : i <= n
    BY <1>2, ScanLength DEF Free
  <2>2. Heads(args) = Free(h, args)
    BY <1>2, HeadsAreFree
  <2> QED
    BY <2>1, <2>2 DEF Has
<1>9. /\ promised.help = (\E i \in Heads(args) : args[i].text \in Help)
      /\ promised.tuning = ~(\E i \in Heads(args) : args[i].text \in {"--no-thread-tuning"})
      /\ promised.cadence = (\E i \in Heads(args) :
                               args[i].text \in {"--enable-cadence-feedback"})
  BY DEF Promised
<1>10. /\ promised.help = Has(h, args, n, Help)
       /\ promised.tuning = ~Has(h, args, n, {"--no-thread-tuning"})
       /\ promised.cadence = Has(h, args, n, {"--enable-cadence-feedback"})
  <2> DEFINE G(texts) == \E i \in Heads(args) : args[i].text \in texts
  <2>1. \A texts : G(texts) = Has(h, args, n, texts)
    BY <1>8 DEF Has
  <2> HIDE DEF promised, G
  <2>2. /\ promised.help = G(Help) /\ promised.tuning = ~G({"--no-thread-tuning"})
        /\ promised.cadence = G({"--enable-cadence-feedback"})
    BY <1>9 DEF G
  <2> QED
    BY <2>1, <2>2
<1>11. /\ promised.help = cfg.help /\ promised.tuning = cfg.tuning
       /\ promised.cadence = cfg.cadence
  <2>1. Switches(h, args, n, cfg)
    BY <1>4 DEF Agrees
  <2>2. cfg.help \in BOOLEAN /\ cfg.tuning \in BOOLEAN /\ cfg.cadence \in BOOLEAN
    BY <1>3 DEF Configs
  <2>3. /\ Has(h, args, n, Help) \in BOOLEAN
        /\ Has(h, args, n, {"--no-thread-tuning"}) \in BOOLEAN
        /\ Has(h, args, n, {"--enable-cadence-feedback"}) \in BOOLEAN
    BY DEF Has
  <2> HIDE DEF promised
  <2> QED
    BY <1>10, <2>1, <2>2, <2>3 DEF Switches
<1>12. promised = [help |-> promised.help, tuning |-> promised.tuning,
                   cadence |-> promised.cadence, url |-> promised.url,
                   width |-> promised.width, height |-> promised.height,
                   fps |-> promised.fps, session |-> promised.session]
  BY DEF Promised
<1>13. cfg = [help |-> cfg.help, tuning |-> cfg.tuning, cadence |-> cfg.cadence, url |-> cfg.url,
              width |-> cfg.width, height |-> cfg.height, fps |-> cfg.fps,
              session |-> cfg.session]
  BY <1>3 DEF Configs
<1>14. cfg = promised
  <2> HIDE DEF promised
  <2> QED
    BY <1>7, <1>11, <1>12, <1>13
<1> QED
  BY <1>14 DEF cfg

(* The configuration a host starts with is the promised one, whatever the  *)
(* command line and however often hosts are launched and killed:           *)
(* host_runtime_config.cpp FromArgs, called by main.                       *)
THEOREM OptionsAreObeyed == StartSpec => []OptionsObeyed
<1>1. StartInit => OptionsObeyed
  BY DEF StartInit, OptionsObeyed
<1>2. OptionsObeyed /\ [StartNext]_startVars => OptionsObeyed'
  <2> SUFFICES ASSUME OptionsObeyed, [StartNext]_startVars PROVE OptionsObeyed'
    OBVIOUS
  <2>1. CASE Launch
    <3>1. PICK args \in ArgLists : argv' = args /\ config' = FromArgs(args)
      BY <2>1 DEF Launch
    <3>2. FromArgs(args) = Promised(args)
      BY HostStartAssumption, PromiseKept
    <3> QED
      BY <3>1, <3>2 DEF OptionsObeyed
  <2>2. CASE UNCHANGED <<pc, argv, config>>
    BY <2>2 DEF OptionsObeyed
  <2>3. CASE pc' # "parsed"
    BY <2>3 DEF OptionsObeyed
  <2>4. CASE StartNext
    <3>1. \A c \in Channels : Following(c) # "parsed"
      BY DEF Channels, Following
    <3>2. MapChannel => pc' # "parsed"
      BY <3>1 DEF MapChannel
    <3> QED
      BY <2>1, <2>2, <2>3, <2>4, <3>2 DEF StartNext, ExitAtOnce, Killed, Exit, InitDevice,
         InitFails, ClearWrite, ClearRead, InitD3DInterfaces, CreateBrowser, OnAfterCreated,
         OnBeforeClose, OpenLocalFile, ReadEvent, Attach, Detach, Reserve, Store, PublishEvent,
         hostVars
  <2> QED
    BY <2>2, <2>4 DEF startVars, hostVars
<1> QED
  BY <1>1, <1>2, PTL DEF StartSpec

-----------------------------------------------------------------------------
(* A file URL names the file.                                              *)

\* With the literals the conversion uses, which the provers do not know to be strings.
UrlChars == STRING \cup {"%", "0", "2", "3", "5", "9", "F", "/", "f", "i", "l", "e", ":"}

Code(c) == IF c \in Escaped THEN <<"%">> \o Hex(c) ELSE <<c>>
CodeLen(c) == IF c \in Escaped THEN 3 ELSE 1
HexDigits == {"0", "2", "3", "5", "9", "F"}

LEMMA HexTyped ==
    ASSUME NEW c \in Escaped
    PROVE  Hex(c) \in Seq(HexDigits) /\ Len(Hex(c)) = 2
<1>1. /\ c = " " => Hex(c) = <<"2", "0">>
      /\ c = "#" => Hex(c) = <<"2", "3">>
      /\ c = "?" => Hex(c) = <<"3", "F">>
      /\ c = "%" => Hex(c) = <<"2", "5">>
      /\ c = "TAB" => Hex(c) = <<"0", "9">>
  BY DEF Hex
<1>2. \A a, b \in HexDigits : <<a, b>> \in Seq(HexDigits) /\ Len(<<a, b>>) = 2
  OBVIOUS
<1> QED
  BY <1>1, <1>2 DEF Escaped, HexDigits

LEMMA HexTells ==
    ASSUME NEW c \in Escaped, NEW d \in Escaped,
           Hex(c)[1] = Hex(d)[1], Hex(c)[2] = Hex(d)[2]
    PROVE  c = d
BY DEF Escaped, Hex

LEMMA CodeIs ==
    ASSUME NEW c, c \in UrlChars \cup Escaped
    PROVE  /\ Code(c) \in Seq(UrlChars) /\ Len(Code(c)) = CodeLen(c) /\ CodeLen(c) \in {1, 3}
           /\ c \in Escaped => /\ Code(c)[1] = "%"
                               /\ Code(c)[2] = Hex(c)[1] /\ Code(c)[3] = Hex(c)[2]
           /\ c \notin Escaped => Code(c)[1] = c
<1>1. CASE c \in Escaped
  <2>1. Code(c) = <<"%">> \o Hex(c)
    BY <1>1 DEF Code
  <2>2. HexDigits \subseteq UrlChars /\ "%" \in UrlChars
    BY DEF HexDigits, UrlChars
  <2>3. Hex(c) \in Seq(UrlChars) /\ Len(Hex(c)) = 2 /\ <<"%">> \in Seq(UrlChars)
    BY <1>1, <2>2, HexTyped
  <2> DEFINE hex == Hex(c)
             percent == "%"
  <2>4. ASSUME NEW u, u = <<percent>>, NEW w, w = u \o hex
        PROVE  /\ w \in Seq(UrlChars) /\ Len(w) = 3 /\ w[1] = percent
               /\ w[2] = hex[1] /\ w[3] = hex[2]
    <3>1. u \in Seq(UrlChars) /\ Len(u) = 1 /\ u[1] = percent
      BY <2>3, <2>4
    <3>2. hex \in Seq(UrlChars) /\ Len(hex) = 2
      BY <2>3
    <3> HIDE DEF UrlChars, hex, percent
    <3>3. /\ w \in Seq(UrlChars) /\ Len(w) = Len(u) + Len(hex)
          /\ \A i \in 1 .. Len(u) + Len(hex) :
                w[i] = IF i <= Len(u) THEN u[i] ELSE hex[i - Len(u)]
      <4>1. /\ u \o hex \in Seq(UrlChars) /\ Len(u \o hex) = Len(u) + Len(hex)
            /\ \A i \in 1 .. Len(u) + Len(hex) :
                  (u \o hex)[i] = IF i <= Len(u) THEN u[i] ELSE hex[i - Len(u)]
        BY <3>1, <3>2, ConcatProperties
      <4> QED
        BY <2>4, <4>1
    <3> QED
      BY <3>1, <3>2, <3>3
  <2> HIDE DEF UrlChars
  <2> QED
    BY <1>1, <2>1, <2>4 DEF CodeLen
<1>2. CASE c \notin Escaped
  <2>1. Code(c) = <<c>>
    BY <1>2 DEF Code
  <2> HIDE DEF UrlChars
  <2> QED
    BY <1>2, <2>1 DEF CodeLen
<1> QED
  BY <1>1, <1>2

\* FlattenSeq, one sequence after the other: what the first k of them make.
Flattenings(S, n, seqs) ==
    {F \in [0 .. n -> Seq(S)] :
        /\ F[0] = <<>>
        /\ \A i \in 1 .. n : F[i] = F[i - 1] \o seqs[i]
        /\ FlattenSeq(seqs) = F[n]}

LEMMA Flattened ==
    ASSUME NEW S, NEW n \in Nat, NEW seqs \in [1 .. n -> Seq(S)]
    PROVE  \E F \in [0 .. n -> Seq(S)] : F \in Flattenings(S, n, seqs)
<1> DEFINE Fs == [0 .. n -> Seq(S)]
           Solves(F, k) == F[0] = <<>> /\ \A i \in 1 .. k : F[i] = F[i - 1] \o seqs[i]
           K == {k \in Nat : k <= n => \E F \in Fs : Solves(F, k)}
<1>1. 0 \in K
  <2> DEFINE F == [i \in 0 .. n |-> <<>>]
  <2>1. F \in Fs /\ Solves(F, 0)
    OBVIOUS
  <2> QED
    BY <2>1
<1>2. ASSUME NEW k \in Nat, NEW F \in Fs, Solves(F, k), k + 1 <= n
      PROVE  \E H \in Fs : Solves(H, k + 1)
  <2> DEFINE v == F[k] \o seqs[k + 1]
             H == [F EXCEPT ![k + 1] = v]
  <2>1. F[k] \in Seq(S) /\ seqs[k + 1] \in Seq(S)
    BY <1>2
  <2>2. v \in Seq(S)
    BY <2>1
  <2> HIDE DEF v
  <2>3. H \in Fs
    BY <2>2
  <2>4. H[0] = <<>> /\ H[k + 1] = v /\ \A i \in 0 .. k : H[i] = F[i]
    BY <1>2
  <2> HIDE DEF H, Fs
  <2>5. Solves(H, k + 1)
    <3> SUFFICES ASSUME NEW i \in 1 .. k + 1 PROVE H[i] = H[i - 1] \o seqs[i]
      BY <2>4
    <3>1. CASE i = k + 1
      <4>1. H[i - 1] = F[k]
        BY <2>4, <3>1
      <4> QED
        BY <2>4, <3>1, <4>1 DEF v
    <3>2. CASE i \in 1 .. k
      <4>1. H[i] = F[i] /\ H[i - 1] = F[i - 1]
        BY <2>4, <3>2
      <4> QED
        BY <1>2, <3>2, <4>1
    <3>3. i = k + 1 \/ i \in 1 .. k
      BY <1>2
    <3> QED
      BY <3>1, <3>2, <3>3
  <2> QED
    BY <2>3, <2>5
<1>3. n \in K
  <2> HIDE DEF Fs, Solves
  <2>1. ASSUME NEW k \in Nat, k \in K PROVE k + 1 \in K
    BY <2>1, <1>2
  <2> HIDE DEF K
  <2> QED
    BY <1>1, <2>1, Climb
<1>4. PICK F \in Fs : Solves(F, n)
  <2> HIDE DEF Fs, Solves
  <2> QED
    BY <1>3
<1>7. F[0] = <<>> /\ \A i \in 1 .. n : F[i] = F[i - 1] \o seqs[i]
  BY <1>4
<1> HIDE DEF Fs, Solves, K
<1>5. Len(seqs) = n /\ DOMAIN seqs = 1 .. n
  OBVIOUS
<1>6. FlattenSeq(seqs) = F[n]
  <2>1. CASE n = 0
    <3>1. seqs = <<>>
      BY <2>1
    <3> QED
      BY <1>7, <1>5, <2>1, <3>1 DEF FlattenSeq
  <2>2. CASE n # 0
    <3>8. \A i \in 0 .. n : F[i] \in Seq(S)
      BY <1>4 DEF Fs
    <3>9. \A i \in 1 .. n : seqs[i] \in Seq(S)
      OBVIOUS
    <3> DEFINE Is(f) == f = [i \in 1 .. n |-> IF i = 1 THEN seqs[i] ELSE f[i - 1] \o seqs[i]]
               flatten == CHOOSE f : Is(f)
               g == [i \in 1 .. n |-> F[i]]
    <3>1. Is(g)
      <4>1. ASSUME NEW i \in 1 .. n
            PROVE  g[i] = IF i = 1 THEN seqs[i] ELSE g[i - 1] \o seqs[i]
        <5>1. F[i] = F[i - 1] \o seqs[i]
          BY <1>7
        <5>2. CASE i = 1
          <6>1. F[i - 1] = <<>> /\ seqs[i] \in Seq(S)
            BY <1>7, <5>2
          <6> QED
            BY <5>1, <5>2, <6>1, ConcatEmptySeq
        <5>3. CASE i # 1
          <6>1. i - 1 \in 1 .. n
            BY <5>3
          <6> QED
            BY <5>1, <5>3, <6>1
        <5> QED
          BY <5>2, <5>3
      <4> QED
        BY <4>1
    <3>2. Is(flatten)
      <4> HIDE DEF Is, g
      <4> QED
        BY <3>1
    <3>3. FlattenSeq(seqs) = flatten[n]
      BY <1>5, <2>2 DEF FlattenSeq
    <3> HIDE DEF flatten
    <3> DEFINE J == {k \in Nat : k \in 1 .. n => flatten[k] = F[k]}
    <3>4. 0 \in J
      OBVIOUS
    <3>5. ASSUME NEW k \in Nat, k \in J PROVE k + 1 \in J
      <4> SUFFICES ASSUME k + 1 \in 1 .. n PROVE flatten[k + 1] = F[k + 1]
        OBVIOUS
      <4>1. PICK i \in 1 .. n : i = k + 1 /\ i - 1 = k
        OBVIOUS
      <4>2. /\ flatten[i] = IF i = 1 THEN seqs[i] ELSE flatten[i - 1] \o seqs[i]
            /\ F[i] = F[i - 1] \o seqs[i]
        BY <1>7, <3>2
      <4>3. CASE i = 1
        <5>1. F[i - 1] = <<>> /\ seqs[i] \in Seq(S)
          BY <1>7, <4>3
        <5> QED
          BY <4>1, <4>2, <4>3, <5>1, ConcatEmptySeq
      <4>4. CASE i # 1
        <5>1. flatten[i - 1] = F[i - 1]
          BY <3>5, <4>1, <4>4
        <5> QED
          BY <4>1, <4>2, <4>4, <5>1
      <4> QED
        BY <4>3, <4>4
    <3>6. Nat \subseteq J
      <4> HIDE DEF J
      <4> QED
        BY <3>4, <3>5, Climb
    <3>7. n \in J /\ n \in 1 .. n
      BY <2>2, <3>6
    <3> QED
      BY <3>3, <3>7
  <2> QED
    BY <2>1, <2>2
<1> QED
  BY <1>4, <1>6, <1>7 DEF Fs, Flattenings

\* The k-th code in text, which starts after at[k - 1] characters, is that of path[k].
Block(text, c, i) ==
    IF c \in Escaped THEN text[i + 1] = "%" /\ text[i + 2] = Hex(c)[1] /\ text[i + 3] = Hex(c)[2]
    ELSE text[i + 1] = c

\* text spells path: the codes of its characters in turn, the k-th ending at at[k].
Spells(text, path, at) ==
    /\ text \in Seq(UrlChars) /\ path \in Seq(UrlChars)
    /\ at \in [0 .. Len(path) -> Nat]
    /\ at[0] = 0 /\ at[Len(path)] = Len(text)
    /\ \A k \in 1 .. Len(path) : at[k] = at[k - 1] + CodeLen(path[k])
    /\ \A k \in 1 .. Len(path) : Block(text, path[k], at[k - 1])

LEMMA CodeLenIs == \A c : CodeLen(c) \in {1, 3} /\ (c \in Escaped <=> CodeLen(c) = 3)
BY DEF CodeLen

\* Positions that grow by the lengths of codes are in order.
LEMMA Climbing ==
    ASSUME NEW n \in Nat, NEW at \in [0 .. n -> Nat],
           \A k \in 1 .. n : at[k] >= at[k - 1]
    PROVE  \A j, k \in 0 .. n : j <= k => at[j] <= at[k]
<1> SUFFICES ASSUME NEW j \in 0 .. n PROVE \A k \in 0 .. n : j <= k => at[j] <= at[k]
  OBVIOUS
<1> DEFINE K == {k \in Nat : k <= n /\ j <= k => at[j] <= at[k]}
<1>1. 0 \in K
  OBVIOUS
<1>2. ASSUME NEW k \in Nat, k \in K PROVE k + 1 \in K
  <2> SUFFICES ASSUME k + 1 <= n, j <= k + 1 PROVE at[j] <= at[k + 1]
    OBVIOUS
  <2>1. CASE j = k + 1
    <3>1. at[j] \in Nat
      OBVIOUS
    <3> QED
      BY <2>1, <3>1
  <2>2. CASE j # k + 1
    <3>1. PICK i \in 1 .. n : i = k + 1 /\ i - 1 = k
      OBVIOUS
    <3>2. at[k + 1] >= at[k] /\ at[j] <= at[k]
      BY <1>2, <2>2, <3>1
    <3>3. at[j] \in Nat /\ at[k] \in Nat /\ at[k + 1] \in Nat
      BY <3>1
    <3> QED
      BY <3>2, <3>3
  <2> QED
    BY <2>1, <2>2
<1>3. Nat \subseteq K
  <2> HIDE DEF K
  <2> QED
    BY <1>1, <1>2, Climb
<1> QED
  BY <1>3

\* EncodeFileUrlPath spells its path.
LEMMA EncodedSpells ==
    ASSUME NEW path \in Seq(UrlChars)
    PROVE  \E at : Spells(EncodeFileUrlPath(path), path, at)
<1> DEFINE n == Len(path)
           seqs == [i \in 1 .. n |-> Code(path[i])]
<1>1. n \in Nat /\ DOMAIN path = 1 .. n /\ \A i \in 1 .. n : path[i] \in UrlChars
  OBVIOUS
<1> HIDE DEF n
<1>2. seqs \in [1 .. n -> Seq(UrlChars)]
  BY <1>1, CodeIs
<1>3. EncodeFileUrlPath(path) = FlattenSeq(seqs)
  BY <1>1 DEF EncodeFileUrlPath, Code
<1>0. \A i \in 1 .. n : seqs[i] = Code(path[i])
  OBVIOUS
<1> HIDE DEF seqs
<1>20. PICK F \in [0 .. n -> Seq(UrlChars)] : F \in Flattenings(UrlChars, n, seqs)
  BY <1>1, <1>2, Flattened
<1>4. /\ F[0] = <<>>
      /\ \A i \in 1 .. n : F[i] = F[i - 1] \o seqs[i]
      /\ FlattenSeq(seqs) = F[n]
  BY <1>20 DEF Flattenings
<1> DEFINE at == [k \in 0 .. n |-> Len(F[k])]
<1>5. ASSUME NEW k \in 1 .. n
      PROVE  /\ k - 1 \in 0 .. n /\ at[k - 1] \in Nat
             /\ at[k] = at[k - 1] + CodeLen(path[k])
             /\ \A i \in 1 .. at[k - 1] : F[k][i] = F[k - 1][i]
             /\ Block(F[k], path[k], at[k - 1])
  <2> DEFINE old == F[k - 1]
             new == F[k]
             code == Code(path[k])
             c == path[k]
  <2>1. new = old \o code
    BY <1>0, <1>4
  <2>2. old \in Seq(UrlChars) /\ k - 1 \in 0 .. n /\ at[k - 1] = Len(old) /\ at[k] = Len(new)
    BY <1>1
  <2>3. /\ code \in Seq(UrlChars) /\ Len(code) = CodeLen(c) /\ CodeLen(c) \in {1, 3}
        /\ c \in Escaped => code[1] = "%" /\ code[2] = Hex(c)[1] /\ code[3] = Hex(c)[2]
        /\ c \notin Escaped => code[1] = c
        /\ c \in Escaped <=> CodeLen(c) = 3
    BY <1>1, CodeIs, CodeLenIs
  <2> HIDE DEF old, new, code, at, c
  <2>4. /\ Len(new) = Len(old) + CodeLen(c)
        /\ Len(old) \in Nat
        /\ \A i \in 1 .. Len(old) : new[i] = old[i]
        /\ \A i \in 1 .. CodeLen(c) : new[Len(old) + i] = code[i]
    <3>1. old \in Seq(UrlChars) /\ code \in Seq(UrlChars) /\ Len(code) = CodeLen(c)
      BY <2>2, <2>3
    <3>2. /\ Len(old \o code) = Len(old) + Len(code)
          /\ \A i \in 1 .. Len(old) + Len(code) :
                (old \o code)[i] = IF i <= Len(old) THEN old[i] ELSE code[i - Len(old)]
      BY <3>1, ConcatProperties
    <3>3. Len(old) \in Nat /\ Len(code) \in Nat
      BY <3>1
    <3> QED
      BY <2>1, <3>1, <3>2, <3>3
  <2>5. Block(new, c, Len(old))
    BY <2>3, <2>4 DEF Block
  <2> QED
    BY <2>2, <2>4, <2>5 DEF old, new, c
<1>6. at \in [0 .. n -> Nat]
  OBVIOUS
<1>7. \A j, k \in 0 .. n : j <= k => at[j] <= at[k]
  <2> HIDE DEF at
  <2>1. ASSUME NEW k \in 1 .. n PROVE at[k] >= at[k - 1]
    <3>1. at[k] = at[k - 1] + CodeLen(path[k]) /\ at[k - 1] \in Nat /\ CodeLen(path[k]) \in {1, 3}
      BY <1>5, CodeLenIs
    <3> QED
      BY <3>1
  <2> QED
    BY <1>1, <1>6, <2>1, Climbing
<1>12. at[0] = 0 /\ at[n] = Len(F[n])
  BY <1>1, <1>4
<1> HIDE DEF at
<1> DEFINE K == {k \in Nat : k <= n => \A m \in 1 .. k : Block(F[k], path[m], at[m - 1])}
<1>8. 0 \in K
  OBVIOUS
<1>9. ASSUME NEW k \in Nat, k \in K PROVE k + 1 \in K
  <2> SUFFICES ASSUME k + 1 <= n, NEW m \in 1 .. k + 1
               PROVE  Block(F[k + 1], path[m], at[m - 1])
    OBVIOUS
  <2>1. PICK i \in 1 .. n : i = k + 1 /\ i - 1 = k
    BY <1>1
  <2>2. /\ Block(F[i], path[i], at[i - 1])
        /\ \A x \in 1 .. at[k] : F[i][x] = F[k][x]
    BY <1>5, <2>1
  <2>3. CASE m = k + 1
    BY <2>1, <2>2, <2>3
  <2>4. CASE m \in 1 .. k
    <3>1. Block(F[k], path[m], at[m - 1])
      BY <1>1, <1>9, <2>1, <2>4
    <3>2. /\ m \in 1 .. n /\ m \in 0 .. n /\ m - 1 \in 0 .. n /\ k \in 0 .. n /\ m <= k
      BY <1>1, <2>1, <2>4
    <3>3. at[m] = at[m - 1] + CodeLen(path[m]) /\ at[m] <= at[k]
      BY <1>5, <1>7, <3>2
    <3>4. at[m] \in Nat /\ at[m - 1] \in Nat /\ at[k] \in Nat
      BY <1>6, <3>2
    <3>5. \A x \in 1 .. CodeLen(path[m]) : F[i][at[m - 1] + x] = F[k][at[m - 1] + x]
      <4> SUFFICES ASSUME NEW x \in 1 .. CodeLen(path[m])
                   PROVE  at[m - 1] + x \in 1 .. at[k]
        BY <2>2
      <4>1. CodeLen(path[m]) \in {1, 3}
        BY CodeLenIs
      <4>2. ASSUME NEW l \in {1, 3}, x \in 1 .. l, NEW p \in Nat, NEW q \in Nat, p + l <= q
            PROVE  p + x \in 1 .. q
        BY <4>2
      <4>3. at[m - 1] + CodeLen(path[m]) <= at[k]
        BY <3>3
      <4> QED
        BY <3>4, <4>1, <4>2, <4>3
    <3>6. /\ path[m] \in Escaped => {1, 2, 3} \subseteq 1 .. CodeLen(path[m])
          /\ path[m] \notin Escaped => 1 \in 1 .. CodeLen(path[m])
      BY CodeLenIs DEF CodeLen
    <3> QED
      BY <2>1, <3>1, <3>5, <3>6 DEF Block
  <2>5. m = k + 1 \/ m \in 1 .. k
    OBVIOUS
  <2> QED
    BY <2>3, <2>4, <2>5
<1>10. n \in K
  <2> HIDE DEF K
  <2> QED
    BY <1>1, <1>8, <1>9, Climb
<1>11. Spells(F[n], path, at)
  <2>1. F[n] \in Seq(UrlChars) /\ at[0] = 0 /\ at[n] = Len(F[n])
    BY <1>1, <1>12
  <2>2. \A m \in 1 .. n : Block(F[n], path[m], at[m - 1])
    BY <1>1, <1>10
  <2> QED
    BY <1>5, <1>6, <2>1, <2>2 DEF Spells, n
<1> QED
  BY <1>3, <1>4, <1>11

\* What Spells says of one character.
LEMMA SpellsAt ==
    ASSUME NEW text, NEW path, NEW at, Spells(text, path, at), NEW k \in 1 .. Len(path)
    PROVE  /\ Len(path) \in Nat /\ Len(text) \in Nat
           /\ k - 1 \in 0 .. Len(path) /\ at[k - 1] \in Nat /\ at[k] \in Nat
           /\ at[k] = at[k - 1] + CodeLen(path[k]) /\ CodeLen(path[k]) \in {1, 3}
           /\ Block(text, path[k], at[k - 1]) /\ path[k] \in UrlChars
           /\ \A j \in 0 .. Len(path) : j <= k => at[j] <= at[k]
           /\ \A j \in 0 .. Len(path) : k <= j => at[k] <= at[j]
           /\ at[k] <= Len(text)
<1> DEFINE n == Len(path)
<1>1. n \in Nat /\ Len(text) \in Nat /\ at \in [0 .. n -> Nat] /\ at[n] = Len(text)
  BY DEF Spells
<1> HIDE DEF n
<1>2. ASSUME NEW m \in 1 .. n
      PROVE  /\ m - 1 \in 0 .. n /\ at[m - 1] \in Nat /\ at[m] \in Nat
             /\ at[m] = at[m - 1] + CodeLen(path[m]) /\ CodeLen(path[m]) \in {1, 3}
  <2>1. at[m] = at[m - 1] + CodeLen(path[m]) /\ CodeLen(path[m]) \in {1, 3}
    BY CodeLenIs DEF Spells, n
  <2> QED
    BY <1>1, <2>1
<1>3. \A m \in 1 .. n : at[m] >= at[m - 1]
  <2> SUFFICES ASSUME NEW m \in 1 .. n PROVE at[m] >= at[m - 1]
    OBVIOUS
  <2> QED
    BY <1>2
<1>4. \A i, j \in 0 .. n : i <= j => at[i] <= at[j]
  BY <1>1, <1>3, Climbing
<1>5. k \in 1 .. n /\ k \in 0 .. n /\ n \in 0 .. n /\ k <= n
  BY <1>1 DEF n
<1>6. Block(text, path[k], at[k - 1]) /\ path[k] \in UrlChars
  BY DEF Spells
<1>7. at[k] <= Len(text)
  BY <1>1, <1>4, <1>5
<1> QED
  BY <1>1, <1>2, <1>4, <1>5, <1>6, <1>7 DEF n

\* Every character of the text is in the code of a character of the path.
LEMMA BlockOf ==
    ASSUME NEW text, NEW path, NEW at, Spells(text, path, at), NEW i \in 1 .. Len(text)
    PROVE  \E k \in 1 .. Len(path) : at[k - 1] < i /\ i <= at[k]
<1> DEFINE n == Len(path)
           K == {k \in Nat : k <= n /\ i <= at[k] =>
                               \E m \in 1 .. n : at[m - 1] < i /\ i <= at[m]}
<1>1. n \in Nat /\ i \in Nat /\ 1 <= i /\ i <= at[n] /\ at[0] = 0
  BY DEF Spells
<1>2. 0 \in K
  BY <1>1
<1>3. ASSUME NEW k \in Nat, k \in K PROVE k + 1 \in K
  <2> SUFFICES ASSUME k + 1 <= n, i <= at[k + 1]
               PROVE  \E m \in 1 .. n : at[m - 1] < i /\ i <= at[m]
    OBVIOUS
  <2>1. PICK m \in 1 .. n : m = k + 1 /\ m - 1 = k
    BY <1>1
  <2>2. at[k] \in Nat
    BY <2>1, SpellsAt
  <2>3. CASE i <= at[k]
    BY <1>1, <1>3, <2>3
  <2>4. CASE ~(i <= at[k])
    BY <1>1, <2>1, <2>2, <2>4
  <2> QED
    BY <2>3, <2>4
<1>4. n \in K
  <2> HIDE DEF K
  <2> QED
    BY <1>1, <1>2, <1>3, Climb
<1> QED
  BY <1>1, <1>4

\* What stands where in a code.
LEMMA InBlock ==
    ASSUME NEW text, NEW path, NEW at, Spells(text, path, at), NEW k \in 1 .. Len(path),
           NEW i \in 1 .. Len(text), at[k - 1] < i, i <= at[k]
    PROVE  /\ path[k] \in Escaped =>
                \/ i = at[k - 1] + 1 /\ text[i] = "%"
                \/ i = at[k - 1] + 2 /\ text[i] \in HexDigits
                \/ i = at[k - 1] + 3 /\ text[i] \in HexDigits
           /\ path[k] \notin Escaped => i = at[k - 1] + 1 /\ text[i] = path[k]
<1> DEFINE a == at[k - 1]
           c == path[k]
<1>1. a \in Nat /\ at[k] = a + CodeLen(c) /\ Block(text, c, a) /\ i \in Nat
  BY SpellsAt
<1>2. CASE c \in Escaped
  <2>1. at[k] = a + 3
    BY <1>1, <1>2 DEF CodeLen
  <2>2. i = a + 1 \/ i = a + 2 \/ i = a + 3
    BY <1>1, <2>1
  <2>3. text[a + 1] = "%" /\ text[a + 2] = Hex(c)[1] /\ text[a + 3] = Hex(c)[2]
    BY <1>1, <1>2 DEF Block
  <2>4. Hex(c)[1] \in HexDigits /\ Hex(c)[2] \in HexDigits
    BY <1>2, HexTyped
  <2> QED
    BY <1>2, <2>2, <2>3, <2>4
<1>3. CASE c \notin Escaped
  <2>1. at[k] = a + 1 /\ text[a + 1] = c
    BY <1>1, <1>3 DEF CodeLen, Block
  <2>2. i = a + 1
    BY <1>1, <2>1
  <2> QED
    BY <1>3, <2>1, <2>2
<1> QED
  BY <1>2, <1>3

LEMMA NoDigitIsSpecial ==
    /\ "%" \notin HexDigits /\ "?" \notin HexDigits /\ "#" \notin HexDigits
    /\ "%" \in Escaped /\ "?" \in Escaped /\ "#" \in Escaped /\ "/" \notin Escaped
    /\ "%" # "?" /\ "%" # "#"
BY DEF HexDigits, Escaped

\* Nothing is cut off.
LEMMA NothingCut ==
    ASSUME NEW text, NEW path, NEW at, Spells(text, path, at)
    PROVE  Cut(text) = text
<1>1. ASSUME NEW i \in 1 .. Len(text) PROVE text[i] \notin {"?", "#"}
  <2>1. PICK k \in 1 .. Len(path) : at[k - 1] < i /\ i <= at[k]
    BY BlockOf
  <2>2. CASE path[k] \in Escaped
    <3>1. text[i] = "%" \/ text[i] \in HexDigits
      BY <2>1, <2>2, InBlock
    <3> QED
      BY <3>1, NoDigitIsSpecial
  <2>3. CASE path[k] \notin Escaped
    <3>1. text[i] = path[k]
      BY <2>1, <2>3, InBlock
    <3> QED
      BY <2>3, <3>1, NoDigitIsSpecial
  <2> QED
    BY <2>2, <2>3
<1>2. DOMAIN text = 1 .. Len(text)
  BY DEF Spells
<1>3. {i \in DOMAIN text : text[i] \in {"?", "#"}} = {}
  BY <1>1, <1>2
<1> QED
  BY <1>3 DEF Cut

\* The parts of Unescaped, named.
Codes(text, i) ==
    {c \in Escaped : i + 2 <= Len(text) /\ SubSeq(text, i, i + 2) = <<"%">> \o Hex(c)}
Starts(text) == {i \in DOMAIN text : text[i] = "%" /\ Codes(text, i) # {}}
Skipped(text, i) == \E j \in Starts(text) : i \in {j + 1, j + 2}
ReadAt(text, i) == IF i \in Starts(text) THEN Codes(text, i)
                   ELSE IF Skipped(text, i) THEN {} ELSE {text[i]}

LEMMA UnescapedReads ==
    ASSUME NEW text
    PROVE  Unescaped(text) = FlattenSeq([i \in DOMAIN text |-> SetToSeq(ReadAt(text, i))])
BY DEF Unescaped, ReadAt, Skipped, Starts, Codes

\* The code of c starts at i.
StartOf(text, c, i) == i \in Starts(text) /\ Codes(text, i) = {c}

\* A code that starts an escape is that of the character escaped.
LEMMA StartAt ==
    ASSUME NEW text, NEW path, NEW at, Spells(text, path, at), NEW k \in 1 .. Len(path),
           path[k] \in Escaped
    PROVE  StartOf(text, path[k], at[k - 1] + 1)
<1> DEFINE a == at[k - 1]
           c == path[k]
           cut == SubSeq(text, a + 1, a + 3)
<1>1. /\ a \in Nat /\ Len(text) \in Nat /\ a + 3 <= Len(text)
      /\ text[a + 1] = "%" /\ text[a + 2] = Hex(c)[1] /\ text[a + 3] = Hex(c)[2]
  <2>1. Block(text, c, a) /\ CodeLen(c) = 3
    BY SpellsAt DEF CodeLen
  <2>2. a \in Nat /\ Len(text) \in Nat /\ at[k] = a + 3 /\ at[k] <= Len(text)
    BY SpellsAt, <2>1
  <2> QED
    BY <2>1, <2>2 DEF Block
<1>2. text \in Seq(UrlChars) /\ DOMAIN text = 1 .. Len(text)
  BY DEF Spells
<1>3. cut \in Seq(UrlChars) /\ Len(cut) = 3 /\ \A i \in 1 .. 3 : cut[i] = text[a + i]
  <2> HIDE DEF a, c
  <2>1. \A i \in a + 1 .. a + 3 : text[i] \in UrlChars
    BY <1>1, <1>2
  <2>2. /\ cut \in Seq(UrlChars) /\ Len(cut) = (a + 3) - (a + 1) + 1
        /\ \A i \in 1 .. (a + 3) - (a + 1) + 1 : cut[i] = text[(a + 1) + i - 1]
    BY <1>1, <2>1, SubSeqProperties
  <2>3. (a + 3) - (a + 1) + 1 = 3 /\ \A i \in 1 .. 3 : (a + 1) + i - 1 = a + i
    BY <1>1
  <2> HIDE DEF cut
  <2> QED
    BY <2>2, <2>3
<1> HIDE DEF cut, a, c
<1>4. ASSUME NEW d \in Escaped
      PROVE  cut = <<"%">> \o Hex(d) <=> d = c
  <2> DEFINE code == <<"%">> \o Hex(d)
             hex == Hex(d)
             percent == "%"
  <2>4. /\ code \in Seq(UrlChars) /\ Len(code) = 3 /\ code[1] = percent
        /\ code[2] = hex[1] /\ code[3] = hex[2]
    <3>1. code = Code(d) /\ CodeLen(d) = 3
      BY DEF Code, CodeLen
    <3> HIDE DEF code, hex, percent
    <3> QED
      BY <3>1, CodeIs DEF hex, percent
  <2>5. cut[1] = percent /\ cut[2] = Hex(c)[1] /\ cut[3] = Hex(c)[2]
    <3>1. cut[1] = text[a + 1] /\ cut[2] = text[a + 2] /\ cut[3] = text[a + 3]
      BY <1>3
    <3> QED
      BY <1>1, <3>1
  <2> HIDE DEF code, hex, percent
  <2>6. ASSUME cut = code PROVE d = c
    BY <2>4, <2>5, <2>6, HexTells DEF hex, c
  <2>7. ASSUME d = c PROVE cut = code
    <3>1. \A i \in 1 .. 3 : cut[i] = code[i]
      <4>1. \A i \in 1 .. 3 : i = 1 \/ i = 2 \/ i = 3
        OBVIOUS
      <4>2. cut[1] = code[1] /\ cut[2] = code[2] /\ cut[3] = code[3]
        BY <2>4, <2>5, <2>7 DEF hex
      <4> QED
        BY <4>1, <4>2
    <3> QED
      BY <1>3, <2>4, <3>1, SeqEqual
  <2> QED
    BY <2>6, <2>7 DEF code
<1>5. Codes(text, a + 1) = {c}
  <2>1. (a + 1) + 2 = a + 3
    BY <1>1
  <2>2. Codes(text, a + 1) = {d \in Escaped : a + 3 <= Len(text) /\ cut = <<"%">> \o Hex(d)}
    BY <2>1 DEF Codes, cut
  <2>3. c \in Escaped
    BY DEF c
  <2> QED
    BY <1>1, <1>4, <2>2, <2>3
<1>6. a + 1 \in DOMAIN text /\ text[a + 1] = "%"
  BY <1>1, <1>2
<1>7. a + 1 \in Starts(text)
  BY <1>5, <1>6 DEF Starts
<1> QED
  BY <1>5, <1>7 DEF StartOf, a, c

LEMMA StartsOnly ==
    ASSUME NEW text, NEW path, NEW at, Spells(text, path, at), NEW j \in Starts(text)
    PROVE  \E k \in 1 .. Len(path) : path[k] \in Escaped /\ j = at[k - 1] + 1
<1>1. j \in 1 .. Len(text) /\ text[j] = "%"
  BY DEF Starts, Spells
<1>2. PICK k \in 1 .. Len(path) : at[k - 1] < j /\ j <= at[k]
  BY <1>1, BlockOf
<1>3. path[k] \in Escaped
  BY <1>1, <1>2, InBlock, NoDigitIsSpecial
<1>4. j = at[k - 1] + 1
  BY <1>1, <1>2, <1>3, InBlock, NoDigitIsSpecial
<1> QED
  BY <1>3, <1>4

\* What is read in the code of one character: the character, once.
LEMMA ReadBlock ==
    ASSUME NEW text, NEW path, NEW at, Spells(text, path, at), NEW k \in 1 .. Len(path)
    PROVE  /\ ReadAt(text, at[k - 1] + 1) = {path[k]}
           /\ path[k] \in Escaped => /\ ReadAt(text, at[k - 1] + 2) = {}
                                     /\ ReadAt(text, at[k - 1] + 3) = {}
<1> DEFINE a == at[k - 1]
<1>1. a \in Nat /\ at[k] = a + CodeLen(path[k]) /\ CodeLen(path[k]) \in {1, 3}
  BY SpellsAt
<1> HIDE DEF a
<1>2. CASE path[k] \in Escaped
  <2>1. a + 1 \in Starts(text) /\ Codes(text, a + 1) = {path[k]}
    <3>1. StartOf(text, path[k], at[k - 1] + 1)
      BY <1>2, StartAt
    <3> QED
      BY <3>1 DEF StartOf, a
  <2>2. Skipped(text, a + 2) /\ Skipped(text, a + 3)
    <3>1. (a + 1) + 1 = a + 2 /\ (a + 1) + 2 = a + 3
      BY <1>1
    <3> QED
      BY <2>1, <3>1 DEF Skipped
  <2>3. ASSUME NEW i \in {a + 2, a + 3} PROVE i \notin Starts(text)
    <3> SUFFICES ASSUME i \in Starts(text) PROVE FALSE
      OBVIOUS
    <3>1. i \in 1 .. Len(text) /\ text[i] = "%"
      BY DEF Starts, Spells
    <3>2. at[k] = a + 3
      BY <1>1, <1>2 DEF CodeLen
    <3>3. a < i /\ i <= at[k] /\ i # a + 1
      BY <1>1, <3>2
    <3> QED
      BY <1>2, <3>1, <3>3, InBlock, NoDigitIsSpecial DEF a
  <2>4. a + 2 \notin Starts(text) /\ a + 3 \notin Starts(text)
    BY <2>3
  <2>5. ReadAt(text, a + 1) = {path[k]} /\ ReadAt(text, a + 2) = {} /\ ReadAt(text, a + 3) = {}
    BY <2>1, <2>2, <2>4 DEF ReadAt
  <2> QED
    BY <2>5 DEF a
<1>3. CASE path[k] \notin Escaped
  <2>1. text[a + 1] = path[k]
    BY <1>3, SpellsAt DEF Block, a
  <2>2. a + 1 \notin Starts(text)
    BY <1>3, <2>1, NoDigitIsSpecial DEF Starts
  <2>3. ASSUME Skipped(text, a + 1) PROVE FALSE
    <3>1. PICK j \in Starts(text) : a + 1 \in {j + 1, j + 2}
      BY <2>3 DEF Skipped
    <3>2. PICK m \in 1 .. Len(path) : path[m] \in Escaped /\ j = at[m - 1] + 1
      BY StartsOnly
    <3>3. /\ at[m - 1] \in Nat /\ at[m] = at[m - 1] + 3 /\ m # k
          /\ m \in Nat /\ k \in Nat /\ k - 1 \in 0 .. Len(path) /\ m - 1 \in 0 .. Len(path)
      BY <1>3, <3>2, SpellsAt DEF CodeLen
    <3>4. CASE m < k
      <4>1. m <= k - 1
        BY <3>3, <3>4
      <4>2. at[m] <= at[k - 1]
        BY <3>3, <4>1, SpellsAt
      <4>3. at[m] <= a
        BY <4>2 DEF a
      <4> QED
        <5>1. j = at[m - 1] + 1 /\ (a + 1 = j + 1 \/ a + 1 = j + 2)
          BY <3>1, <3>2
        <5>2. at[m - 1] + 3 <= a
          BY <3>3, <4>3
        <5> QED
          BY <1>1, <3>3, <5>1, <5>2
    <3>5. CASE k < m
      <4>1. k <= m - 1
        BY <3>3, <3>5
      <4>2. at[k] <= at[m - 1]
        BY <3>3, <4>1, SpellsAt
      <4>3. at[k] >= a + 1 /\ at[k] \in Nat
        BY <1>1
      <4> QED
        <5>1. j = at[m - 1] + 1 /\ (a + 1 = j + 1 \/ a + 1 = j + 2)
          BY <3>1, <3>2
        <5>2. a + 1 <= at[m - 1]
          BY <1>1, <3>3, <4>2, <4>3
        <5> QED
          BY <1>1, <3>3, <5>1, <5>2
    <3> QED
      BY <3>3, <3>4, <3>5
  <2>4. ReadAt(text, a + 1) = {path[k]}
    BY <2>1, <2>2, <2>3 DEF ReadAt
  <2> QED
    BY <1>3, <2>4 DEF a
<1> QED
  BY <1>2, <1>3

LEMMA OneOrNone == SetToSeq({}) = <<>> /\ \A x : SetToSeq({x}) = <<x>>
<1>1. SetToSeq({}) = <<>>
  <2> DEFINE Is(f) == f \in [1 .. Cardinality({}) -> {}] /\ IsInjective(f)
  <2>1. Cardinality({}) = 0
    BY FS_EmptySet
  <2>2. Is(<<>>)
    BY <2>1 DEF IsInjective
  <2>3. \A f : Is(f) => f = <<>>
    BY <2>1
  <2>4. SetToSeq({}) = CHOOSE f : Is(f)
    BY Zenon DEF SetToSeq
  <2> HIDE DEF Is
  <2> QED
    BY <2>2, <2>3, <2>4
<1>2. ASSUME NEW x PROVE SetToSeq({x}) = <<x>>
  <2> DEFINE Is(f) == f \in [1 .. Cardinality({x}) -> {x}] /\ IsInjective(f)
  <2>1. Cardinality({x}) = 1
    BY FS_Singleton
  <2>2. Is(<<x>>)
    BY <2>1 DEF IsInjective
  <2>3. \A f : Is(f) => f = <<x>>
    BY <2>1
  <2>4. SetToSeq({x}) = CHOOSE f : Is(f)
    BY Zenon DEF SetToSeq
  <2> HIDE DEF Is
  <2> QED
    BY <2>2, <2>3, <2>4
<1> QED
  BY <1>1, <1>2

\* What is spelled is what is read.
LEMMA Decoded ==
    ASSUME NEW text, NEW path, NEW at, Spells(text, path, at)
    PROVE  Unescaped(Cut(text)) = path
<1> DEFINE n == Len(path)
           t == Len(text)
           seqs == [i \in 1 .. t |-> SetToSeq(ReadAt(text, i))]
<1>1. /\ text \in Seq(UrlChars) /\ path \in Seq(UrlChars) /\ n \in Nat /\ t \in Nat
      /\ DOMAIN text = 1 .. t /\ at[0] = 0 /\ at[n] = t
  BY DEF Spells
<1>2. Unescaped(Cut(text)) = FlattenSeq(seqs)
  BY <1>1, NothingCut, UnescapedReads
<1>3. \A i \in 1 .. t : seqs[i] = SetToSeq(ReadAt(text, i))
  OBVIOUS
<1>4. \A k \in 1 .. n : path[k] \in UrlChars
  BY <1>1
<1> HIDE DEF n, t
<1>5. ASSUME NEW i \in 1 .. t PROVE SetToSeq(ReadAt(text, i)) \in Seq(UrlChars)
  <2>1. PICK k \in 1 .. n : at[k - 1] < i /\ i <= at[k]
    BY BlockOf DEF n, t
  <2>5. /\ ReadAt(text, at[k - 1] + 1) = {path[k]}
        /\ path[k] \in Escaped => /\ ReadAt(text, at[k - 1] + 2) = {}
                                  /\ ReadAt(text, at[k - 1] + 3) = {}
    BY ReadBlock DEF n
  <2>2. ReadAt(text, i) = {path[k]} \/ ReadAt(text, i) = {}
    <3>1. CASE path[k] \in Escaped
      <4>1. i = at[k - 1] + 1 \/ i = at[k - 1] + 2 \/ i = at[k - 1] + 3
        BY <2>1, <3>1, InBlock DEF n, t
      <4> QED
        BY <2>5, <3>1, <4>1
    <3>2. CASE path[k] \notin Escaped
      <4>1. i = at[k - 1] + 1
        BY <2>1, <3>2, InBlock DEF n, t
      <4> QED
        BY <2>5, <4>1
    <3> QED
      BY <3>1, <3>2
  <2>3. SetToSeq(ReadAt(text, i)) = <<path[k]>> \/ SetToSeq(ReadAt(text, i)) = <<>>
    BY <2>2, OneOrNone
  <2>4. <<path[k]>> \in Seq(UrlChars) /\ <<>> \in Seq(UrlChars)
    BY <1>4
  <2> QED
    BY <2>3, <2>4
<1>6. seqs \in [1 .. t -> Seq(UrlChars)]
  BY <1>5
<1>12. t \in Nat
  BY <1>1
<1> HIDE DEF seqs
<1>20. PICK F \in [0 .. t -> Seq(UrlChars)] : F \in Flattenings(UrlChars, t, seqs)
  BY <1>6, <1>12, Flattened
<1>7. /\ F[0] = <<>>
      /\ \A i \in 1 .. t : F[i] = F[i - 1] \o seqs[i]
      /\ FlattenSeq(seqs) = F[t]
  BY <1>20 DEF Flattenings
<1>13. \A i \in 1 .. t : F[i] \in Seq(UrlChars)
  BY <1>12
<1> DEFINE K == {k \in Nat : k <= n => F[at[k]] = SubSeq(path, 1, k)}
<1>8. 0 \in K
  BY <1>1, <1>7
<1>9. ASSUME NEW k \in Nat, k \in K PROVE k + 1 \in K
  <2> SUFFICES ASSUME k + 1 <= n PROVE F[at[k + 1]] = SubSeq(path, 1, k + 1)
    OBVIOUS
  <2>1. PICK m \in 1 .. n : m = k + 1 /\ m - 1 = k
    BY <1>1
  <2> DEFINE a == at[k]
             c == path[m]
             s == SubSeq(path, 1, k)
  <2>9. m \in 1 .. Len(path) /\ at[m - 1] = a
    BY <2>1 DEF n
  <2>10. /\ at[m - 1] \in Nat /\ at[m] = at[m - 1] + CodeLen(c) /\ at[m] <= t
         /\ CodeLen(c) \in {1, 3}
    BY <2>9, SpellsAt DEF t
  <2>11. /\ ReadAt(text, at[m - 1] + 1) = {c}
         /\ c \in Escaped => /\ ReadAt(text, at[m - 1] + 2) = {}
                             /\ ReadAt(text, at[m - 1] + 3) = {}
    BY <2>9, ReadBlock
  <2>2. /\ a \in Nat /\ at[m] = a + CodeLen(c) /\ at[m] <= t /\ CodeLen(c) \in {1, 3}
        /\ ReadAt(text, a + 1) = {c}
        /\ c \in Escaped => ReadAt(text, a + 2) = {} /\ ReadAt(text, a + 3) = {}
    BY <2>9, <2>10, <2>11
  <2>3. SubSeq(path, 1, m) = s \o <<c>>
    <3>1. m \in 1 .. Len(path) /\ 1 \in 1 .. Len(path) /\ m \in 1 .. Len(path)
      BY <1>1, <2>1 DEF n
    <3>2. SubSeq(path, 1, m) = SubSeq(path, 1, m - 1) \o <<path[m]>>
      BY <1>1, <3>1, SubSeqRecursiveSecond
    <3> QED
      BY <2>1, <3>2
  <2>4. F[a] = s
    BY <1>9, <2>1, <1>1
  <2> HIDE DEF a, c, s
  <2>5. a + 1 \in 1 .. t
    BY <1>1, <2>2
  <2>6. F[a + 1] = F[a] \o <<c>> /\ F[a + 1] \in Seq(UrlChars)
    <3>1. PICK i \in 1 .. t : i = a + 1 /\ i - 1 = a
      BY <2>2, <2>5
    <3>2. seqs[i] = <<c>>
      BY <1>3, <2>2, <3>1, OneOrNone
    <3>3. F[i] = F[i - 1] \o seqs[i] /\ F[i] \in Seq(UrlChars)
      BY <1>7, <1>13
    <3> QED
      BY <3>1, <3>2, <3>3
  <2>7. CASE c \in Escaped
    <3>1. at[m] = a + 3 /\ a + 2 \in 1 .. t /\ a + 3 \in 1 .. t
      BY <1>1, <2>2, <2>7 DEF CodeLen
    <3>2. F[a + 2] = F[a + 1]
      <4>1. PICK i \in 1 .. t : i = a + 2 /\ i - 1 = a + 1
        BY <2>2, <3>1
      <4>2. seqs[i] = <<>>
        BY <1>3, <2>2, <2>7, <4>1, OneOrNone
      <4>3. F[i] = F[i - 1] \o seqs[i]
        BY <1>7
      <4>4. F[a + 2] = F[a + 1] \o <<>>
        BY <4>1, <4>2, <4>3
      <4> QED
        BY <2>6, <4>4, ConcatEmptySeq
    <3>3. F[a + 3] = F[a + 2]
      <4>1. PICK i \in 1 .. t : i = a + 3 /\ i - 1 = a + 2
        BY <2>2, <3>1
      <4>2. seqs[i] = <<>>
        BY <1>3, <2>2, <2>7, <4>1, OneOrNone
      <4>3. F[i] = F[i - 1] \o seqs[i]
        BY <1>7
      <4>4. F[a + 3] = F[a + 2] \o <<>>
        BY <4>1, <4>2, <4>3
      <4> QED
        BY <2>6, <3>2, <4>4, ConcatEmptySeq
    <3> QED
      BY <2>1, <2>3, <2>4, <2>6, <3>1, <3>2, <3>3
  <2>8. CASE c \notin Escaped
    <3>1. at[m] = a + 1
      BY <2>2, <2>8 DEF CodeLen
    <3> QED
      BY <2>1, <2>3, <2>4, <2>6, <3>1
  <2> QED
    BY <2>7, <2>8
<1>10. n \in K
  <2> HIDE DEF K
  <2> QED
    BY <1>1, <1>8, <1>9, Climb
<1>11. F[t] = SubSeq(path, 1, n)
  BY <1>1, <1>10
<1> QED
  BY <1>1, <1>2, <1>7, <1>11, SubSeqFull DEF n

\* A code that was moved.
LEMMA BlockMoved ==
    ASSUME NEW text, NEW t, NEW c, NEW i, NEW j, Block(text, c, i),
           \A x \in 1 .. CodeLen(c) : t[j + x] = text[i + x]
    PROVE  Block(t, c, j)
<1>1. CASE c \in Escaped
  <2>1. 1 \in 1 .. CodeLen(c) /\ 2 \in 1 .. CodeLen(c) /\ 3 \in 1 .. CodeLen(c)
    BY <1>1 DEF CodeLen
  <2>2. t[j + 1] = text[i + 1] /\ t[j + 2] = text[i + 2] /\ t[j + 3] = text[i + 3]
    BY <2>1
  <2> QED
    BY <1>1, <2>2 DEF Block
<1>2. CASE c \notin Escaped
  <2>1. 1 \in 1 .. CodeLen(c)
    BY <1>2 DEF CodeLen
  <2>2. t[j + 1] = text[i + 1]
    BY <2>1
  <2> QED
    BY <1>2, <2>2 DEF Block
<1> QED
  BY <1>1, <1>2

\* A "/" before both, and two characters that are not escaped off both.
LEMMA SlashBefore ==
    ASSUME NEW text, NEW path, NEW at, Spells(text, path, at)
    PROVE  \E b : Spells(<<"/">> \o text, <<"/">> \o path, b)
<1> DEFINE n == Len(path)
           b == [k \in 0 .. n + 1 |-> IF k = 0 THEN 0 ELSE at[k - 1] + 1]
           slash == "/"
           one == <<slash>>
           t == one \o text
           p == one \o path
<1>1. /\ text \in Seq(UrlChars) /\ path \in Seq(UrlChars) /\ n \in Nat /\ Len(text) \in Nat
      /\ at \in [0 .. n -> Nat] /\ at[0] = 0 /\ at[n] = Len(text)
  BY DEF Spells
<1>2. slash \in UrlChars /\ slash \notin Escaped
  BY DEF UrlChars, Escaped
<1> HIDE DEF n, slash
<1>3. one \in Seq(UrlChars) /\ Len(one) = 1 /\ one[1] = slash
  BY <1>2
<1> HIDE DEF one
<1>4. /\ t \in Seq(UrlChars) /\ Len(t) = Len(text) + 1 /\ t[1] = slash
      /\ \A i \in 1 .. Len(text) : t[i + 1] = text[i]
  <2>1. /\ t \in Seq(UrlChars) /\ Len(t) = Len(one) + Len(text)
        /\ \A i \in 1 .. Len(one) + Len(text) :
              t[i] = IF i <= Len(one) THEN one[i] ELSE text[i - Len(one)]
    BY <1>1, <1>3, ConcatProperties
  <2> HIDE DEF t
  <2>2. ASSUME NEW i \in 1 .. Len(text) PROVE t[i + 1] = text[i]
    <3>1. i + 1 \in 1 .. Len(one) + Len(text) /\ ~(i + 1 <= Len(one)) /\ (i + 1) - Len(one) = i
      BY <1>1, <1>3
    <3> QED
      BY <2>1, <3>1
  <2> QED
    BY <1>1, <1>3, <2>1, <2>2
<1>5. /\ p \in Seq(UrlChars) /\ Len(p) = n + 1 /\ p[1] = slash
      /\ \A i \in 1 .. n : p[i + 1] = path[i]
  <2>1. /\ p \in Seq(UrlChars) /\ Len(p) = Len(one) + n
        /\ \A i \in 1 .. Len(one) + n : p[i] = IF i <= Len(one) THEN one[i] ELSE path[i - Len(one)]
    BY <1>1, <1>3, ConcatProperties DEF n
  <2> HIDE DEF p
  <2>2. ASSUME NEW i \in 1 .. n PROVE p[i + 1] = path[i]
    <3>1. i + 1 \in 1 .. Len(one) + n /\ ~(i + 1 <= Len(one)) /\ (i + 1) - Len(one) = i
      BY <1>1, <1>3
    <3> QED
      BY <2>1, <3>1
  <2> QED
    BY <1>1, <1>3, <2>1, <2>2
<1>6. /\ b \in [0 .. n + 1 -> Nat] /\ b[0] = 0
      /\ \A k \in 0 .. n : b[k + 1] = at[k] + 1
  BY <1>1
<1> HIDE DEF b, t, p
<1>7. ASSUME NEW k \in 1 .. n + 1
      PROVE  b[k] = b[k - 1] + CodeLen(p[k]) /\ Block(t, p[k], b[k - 1])
  <2>1. CASE k = 1
    <3>1. k - 1 = 0 /\ b[1] = 1
      BY <1>1, <1>6, <2>1
    <3> QED
      BY <1>2, <1>4, <1>5, <1>6, <2>1, <3>1 DEF CodeLen, Block
  <2>2. CASE k # 1
    <3>1. PICK m \in 1 .. n : k = m + 1 /\ k - 1 = m /\ m - 1 \in 0 .. n /\ (m - 1) + 1 = m
      BY <1>1, <2>2
    <3> DEFINE a == at[m - 1]
               c == path[m]
    <3>2. /\ a \in Nat /\ at[m] = a + CodeLen(c) /\ Block(text, c, a) /\ at[m] <= Len(text)
          /\ CodeLen(c) \in {1, 3}
      BY <3>1, SpellsAt DEF n
    <3>3. p[k] = c /\ b[k] = at[m] + 1 /\ b[k - 1] = a + 1
      BY <1>1, <1>5, <1>6, <3>1
    <3> HIDE DEF a, c
    <3>4. \A x \in 1 .. CodeLen(c) : t[(a + 1) + x] = text[a + x]
      <4> SUFFICES ASSUME NEW x \in 1 .. CodeLen(c) PROVE t[(a + 1) + x] = text[a + x]
        OBVIOUS
      <4>1. a + x \in 1 .. Len(text) /\ (a + x) + 1 = (a + 1) + x
        BY <1>1, <3>2
      <4> QED
        BY <1>4, <4>1
    <3>5. Block(t, c, a + 1)
      BY <3>2, <3>4, BlockMoved
    <3> QED
      BY <3>2, <3>3, <3>5
  <2> QED
    BY <2>1, <2>2
<1>8. b[n + 1] = Len(t)
  BY <1>1, <1>4, <1>6
<1>9. Spells(t, p, b)
  BY <1>4, <1>5, <1>6, <1>7, <1>8 DEF Spells
<1> QED
  BY <1>9 DEF t, p, one, slash

LEMMA SlashesOff ==
    ASSUME NEW text, NEW path, NEW at, Spells(text, path, at),
           Len(path) >= 2, path[1] \notin Escaped, path[2] \notin Escaped
    PROVE  /\ Len(text) >= 2
           /\ \E b : Spells(SubSeq(text, 3, Len(text)), SubSeq(path, 3, Len(path)), b)
<1> DEFINE n == Len(path)
           l == Len(text)
           b == [k \in 0 .. n - 2 |-> at[k + 2] - 2]
           t == SubSeq(text, 3, l)
           p == SubSeq(path, 3, n)
<1>1. /\ text \in Seq(UrlChars) /\ path \in Seq(UrlChars) /\ n \in Nat /\ l \in Nat /\ n >= 2
      /\ at \in [0 .. n -> Nat] /\ at[0] = 0 /\ at[n] = l
      /\ \A i \in 1 .. n : path[i] \in UrlChars
      /\ \A i \in 1 .. l : text[i] \in UrlChars
  BY DEF Spells
<1> HIDE DEF n, l
<1>2. at[1] = 1 /\ at[2] = 2 /\ l >= 2
  <2>1. 1 \in 1 .. n /\ 2 \in 1 .. n
    BY <1>1
  <2>2. at[1] = at[1 - 1] + CodeLen(path[1]) /\ at[2] = at[2 - 1] + CodeLen(path[2]) /\ at[2] <= l
    BY <2>1, SpellsAt DEF n, l
  <2>3. CodeLen(path[1]) = 1 /\ CodeLen(path[2]) = 1
    BY DEF CodeLen
  <2> QED
    BY <1>1, <2>2, <2>3
<1>3. /\ t \in Seq(UrlChars) /\ Len(t) = l - 2
      /\ \A i \in 1 .. l - 2 : t[i] = text[i + 2]
  <2>1. /\ t \in Seq(UrlChars) /\ Len(t) = IF 3 <= l THEN l - 3 + 1 ELSE 0
        /\ \A i \in 1 .. l - 3 + 1 : t[i] = text[3 + i - 1]
    <3>1. 3 \in Int /\ l \in Int /\ \A i \in 3 .. l : text[i] \in UrlChars
      BY <1>1
    <3> QED
      BY <3>1, SubSeqProperties
  <2>2. \A i \in Nat : 3 + i - 1 = i + 2
    OBVIOUS
  <2> HIDE DEF t
  <2> QED
    BY <1>1, <1>2, <2>1, <2>2
<1>4. /\ p \in Seq(UrlChars) /\ Len(p) = n - 2
      /\ \A i \in 1 .. n - 2 : p[i] = path[i + 2]
  <2>1. /\ p \in Seq(UrlChars) /\ Len(p) = IF 3 <= n THEN n - 3 + 1 ELSE 0
        /\ \A i \in 1 .. n - 3 + 1 : p[i] = path[3 + i - 1]
    <3>1. 3 \in Int /\ n \in Int /\ \A i \in 3 .. n : path[i] \in UrlChars
      BY <1>1
    <3> QED
      BY <3>1, SubSeqProperties
  <2>2. \A i \in Nat : 3 + i - 1 = i + 2
    OBVIOUS
  <2> HIDE DEF p
  <2> QED
    BY <1>1, <2>1, <2>2
<1> HIDE DEF t, p
<1>5. ASSUME NEW k \in 0 .. n - 2 PROVE at[k + 2] - 2 \in Nat
  <2>1. 2 \in 1 .. n /\ k + 2 \in 0 .. n /\ 2 <= k + 2
    BY <1>1
  <2>2. at[2] <= at[k + 2] /\ at[k + 2] \in Nat
    BY <1>1, <2>1, SpellsAt DEF n
  <2> QED
    BY <1>2, <2>2
<1>6. /\ b \in [0 .. n - 2 -> Nat]
      /\ \A k \in 0 .. n - 2 : b[k] = at[k + 2] - 2
  BY <1>5
<1> HIDE DEF b
<1>7. ASSUME NEW k \in 1 .. n - 2
      PROVE  b[k] = b[k - 1] + CodeLen(p[k]) /\ Block(t, p[k], b[k - 1])
  <2>1. PICK m \in 1 .. n : m = k + 2 /\ m - 1 = (k - 1) + 2 /\ k \in 0 .. n - 2
                               /\ k - 1 \in 0 .. n - 2
    BY <1>1
  <2> DEFINE a == at[m - 1]
             c == path[m]
  <2>2. /\ a \in Nat /\ at[m] = a + CodeLen(c) /\ Block(text, c, a) /\ at[m] <= l
        /\ CodeLen(c) \in {1, 3}
    BY <2>1, SpellsAt DEF n, l
  <2>3. p[k] = c /\ b[k] = at[m] - 2 /\ b[k - 1] = a - 2 /\ b[k - 1] \in Nat
    BY <1>1, <1>4, <1>6, <2>1
  <2> HIDE DEF a, c
  <2>4. \A x \in 1 .. CodeLen(c) : t[(a - 2) + x] = text[a + x]
    <3> SUFFICES ASSUME NEW x \in 1 .. CodeLen(c) PROVE t[(a - 2) + x] = text[a + x]
      OBVIOUS
    <3>2. l \in Nat /\ a \in Nat /\ a - 2 \in Nat /\ a + CodeLen(c) <= l /\ CodeLen(c) \in {1, 3}
      BY <1>1, <2>2, <2>3
    <3> HIDE DEF l
    <3>1. (a - 2) + x \in 1 .. l - 2 /\ ((a - 2) + x) + 2 = a + x
      BY <3>2
    <3> QED
      BY <1>3, <3>1
  <2>5. Block(t, c, a - 2)
    BY <2>2, <2>4, BlockMoved
  <2>6. b[k] = b[k - 1] + CodeLen(c)
    BY <2>2, <2>3
  <2> QED
    BY <2>3, <2>5, <2>6
<1>8. b[0] = 0 /\ b[n - 2] = Len(t)
  <2>1. 0 \in 0 .. n - 2 /\ n - 2 \in 0 .. n - 2 /\ 0 + 2 = 2 /\ (n - 2) + 2 = n
    BY <1>1
  <2> QED
    BY <1>1, <1>2, <1>3, <1>6, <2>1
<1>9. Spells(t, p, b)
  BY <1>3, <1>4, <1>6, <1>7, <1>8 DEF Spells
<1> QED
  BY <1>2, <1>9 DEF t, p, n, l

(* The URL made of a path that is not a file URL already names the file,   *)
(* whatever characters the path holds (osr_handler.cpp:                    *)
(* MakeFileUrlFromPath, EncodeFileUrlPath).                                *)
THEOREM UrlNames ==
    ASSUME NEW rawPath \in Seq(STRING), ~IsPrefix(FilePrefix, Slashed(rawPath))
    PROVE  FileNamedBy(MakeFileUrlFromPath(rawPath)) = FileMeant(rawPath)
<1> DEFINE path == Slashed(rawPath)
           text == EncodeFileUrlPath(path)
           scheme == SubSeq(FilePrefix, 1, 5)
           root == Len(path) >= 1 /\ path[1] = "/"
           server == Len(path) >= 2 /\ path[2] = "/"
           slash == "/"
           Named(u) == Unescaped(Cut(SubSeq(u, 8, Len(u))))
<1>1. path \in Seq(UrlChars) /\ Len(path) \in Nat
  <2>1. STRING \subseteq UrlChars /\ slash \in UrlChars
    BY DEF UrlChars
  <2>2. path = [i \in 1 .. Len(rawPath) |-> IF rawPath[i] = "\\" THEN slash ELSE rawPath[i]]
    BY DEF Slashed
  <2>3. \A i \in 1 .. Len(rawPath) : rawPath[i] \in UrlChars
    <3>1. \A i \in 1 .. Len(rawPath) : rawPath[i] \in STRING
      BY ElementOfSeq
    <3> QED
      BY <2>1, <3>1, Zenon
  <2> HIDE DEF path, slash
  <2> QED
    BY <2>1, <2>2, <2>3
<1>2. PICK at : Spells(text, path, at)
  BY <1>1, EncodedSpells
<1>3. text \in Seq(UrlChars) /\ Len(text) \in Nat
  BY <1>2 DEF Spells
<1>4. /\ FilePrefix \in Seq(UrlChars) /\ Len(FilePrefix) = 7
      /\ scheme \in Seq(UrlChars) /\ Len(scheme) = 5
      /\ <<slash>> \in Seq(UrlChars) /\ Len(<<slash>>) = 1
  BY DEF FilePrefix, UrlChars
<1>5. FileNamedBy(MakeFileUrlFromPath(rawPath)) = Named(MakeFileUrlFromPath(rawPath))
  BY <1>4 DEF FileNamedBy
<1>6. MakeFileUrlFromPath(rawPath) =
        CASE root /\ server -> scheme \o text
          [] root /\ ~server -> FilePrefix \o text
          [] OTHER -> FilePrefix \o <<slash>> \o text
  BY DEF MakeFileUrlFromPath
<1>7. FileMeant(rawPath) =
        CASE root /\ server -> SubSeq(path, 3, Len(path))
          [] root /\ ~server -> path
          [] OTHER -> <<slash>> \o path
  BY DEF FileMeant
<1> HIDE DEF path, text, scheme, Named
\* What comes after file:// is what was put there.
<1>8. ASSUME NEW rest \in Seq(UrlChars)
      PROVE  Named(FilePrefix \o rest) = Unescaped(Cut(rest))
  <2> DEFINE u == FilePrefix \o rest
             v == SubSeq(u, 8, Len(u))
  <2>1. /\ u \in Seq(UrlChars) /\ Len(u) = 7 + Len(rest) /\ Len(rest) \in Nat
        /\ \A i \in 1 .. 7 + Len(rest) : u[i] = IF i <= 7 THEN FilePrefix[i] ELSE rest[i - 7]
        /\ \A i \in 1 .. 7 + Len(rest) : u[i] \in UrlChars
    <3>1. /\ u \in Seq(UrlChars) /\ Len(u) = 7 + Len(rest) /\ Len(rest) \in Nat
          /\ \A i \in 1 .. 7 + Len(rest) : u[i] = IF i <= 7 THEN FilePrefix[i] ELSE rest[i - 7]
      <4>1. /\ u \in Seq(UrlChars) /\ Len(u) = Len(FilePrefix) + Len(rest)
            /\ \A i \in 1 .. Len(FilePrefix) + Len(rest) :
                  u[i] = IF i <= Len(FilePrefix) THEN FilePrefix[i]
                         ELSE rest[i - Len(FilePrefix)]
        BY <1>4, ConcatProperties
      <4>2. Len(rest) \in Nat
        OBVIOUS
      <4> HIDE DEF u
      <4> QED
        BY <1>4, <4>1, <4>2
    <3> HIDE DEF u
    <3> QED
      BY <3>1
  <2> HIDE DEF u
  <2>2. /\ v \in Seq(UrlChars)
        /\ Len(v) = IF 8 <= Len(u) THEN Len(u) - 8 + 1 ELSE 0
        /\ \A i \in 1 .. Len(u) - 8 + 1 : v[i] = u[8 + i - 1]
    <3>1. 8 \in Int /\ Len(u) \in Int /\ \A i \in 8 .. Len(u) : u[i] \in UrlChars
      BY <2>1
    <3> QED
      BY <3>1, SubSeqProperties
  <2> HIDE DEF v
  <2>3. Len(v) = Len(rest)
    BY <2>1, <2>2
  <2>4. ASSUME NEW i \in 1 .. Len(rest) PROVE v[i] = rest[i]
    <3>1. /\ i \in 1 .. Len(u) - 8 + 1 /\ 8 + i - 1 \in 1 .. 7 + Len(rest)
          /\ ~(8 + i - 1 <= 7) /\ (8 + i - 1) - 7 = i
      BY <2>1
    <3> QED
      BY <2>1, <2>2, <3>1
  <2>5. v = rest
    BY <2>2, <2>3, <2>4, SeqEqual
  <2> QED
    BY <2>5 DEF Named, u, v
<1>9. CASE root /\ server
  <2>1. path[1] \notin Escaped /\ path[2] \notin Escaped /\ Len(path) >= 2
    BY <1>9, NoDigitIsSpecial
  <2>2. PICK b : Spells(SubSeq(text, 3, Len(text)), SubSeq(path, 3, Len(path)), b)
    BY <1>2, <2>1, SlashesOff
  <2>3. Len(text) >= 2
    BY <1>2, <2>1, SlashesOff
  <2> DEFINE u == scheme \o text
             v == SubSeq(u, 8, Len(u))
             w == SubSeq(text, 3, Len(text))
             l == Len(text)
  <2>4. /\ u \in Seq(UrlChars) /\ Len(u) = 5 + l
        /\ \A i \in 1 .. 5 + l : u[i] = IF i <= 5 THEN scheme[i] ELSE text[i - 5]
    <3>1. /\ u \in Seq(UrlChars) /\ Len(u) = Len(scheme) + l
          /\ \A i \in 1 .. Len(scheme) + l :
                u[i] = IF i <= Len(scheme) THEN scheme[i] ELSE text[i - Len(scheme)]
      BY <1>3, <1>4, ConcatProperties
    <3> HIDE DEF u, l
    <3> QED
      BY <1>4, <3>1
  <2> HIDE DEF u
  <2>5. \A i \in 1 .. 5 + l : u[i] \in UrlChars
    BY <2>4
  <2>6. /\ v \in Seq(UrlChars)
        /\ Len(v) = IF 8 <= Len(u) THEN Len(u) - 8 + 1 ELSE 0
        /\ \A i \in 1 .. Len(u) - 8 + 1 : v[i] = u[8 + i - 1]
    <3>1. 8 \in Int /\ Len(u) \in Int /\ \A i \in 8 .. Len(u) : u[i] \in UrlChars
      BY <1>3, <2>4, <2>5
    <3> QED
      BY <3>1, SubSeqProperties
  <2>7. /\ w \in Seq(UrlChars)
        /\ Len(w) = IF 3 <= l THEN l - 3 + 1 ELSE 0
        /\ \A i \in 1 .. l - 3 + 1 : w[i] = text[3 + i - 1]
    <3>1. 3 \in Int /\ l \in Int /\ \A i \in 3 .. l : text[i] \in UrlChars
      BY <1>3
    <3> QED
      BY <3>1, SubSeqProperties
  <2> HIDE DEF v, w, l
  <2>8. l \in Nat /\ l >= 2
    BY <1>3, <2>3 DEF l
  <2>9. Len(v) = Len(w) /\ Len(w) = l - 2
    BY <2>4, <2>6, <2>7, <2>8
  <2>10. ASSUME NEW i \in 1 .. l - 2 PROVE v[i] = w[i]
    <3>1. /\ i \in 1 .. Len(u) - 8 + 1 /\ i \in 1 .. l - 3 + 1 /\ 8 + i - 1 \in 1 .. 5 + l
          /\ ~(8 + i - 1 <= 5) /\ (8 + i - 1) - 5 = 3 + i - 1
      BY <2>4, <2>8
    <3> QED
      BY <2>4, <2>6, <2>7, <3>1
  <2>11. v = w
    BY <2>6, <2>7, <2>9, <2>10, SeqEqual
  <2>12. Unescaped(Cut(w)) = SubSeq(path, 3, Len(path))
    BY <2>2, Decoded DEF w
  <2>13. Named(u) = Unescaped(Cut(v))
    BY DEF Named, v
  <2> QED
    BY <1>5, <1>6, <1>7, <1>9, <2>11, <2>12, <2>13 DEF u
<1>10. CASE root /\ ~server
  BY <1>2, <1>3, <1>5, <1>6, <1>7, <1>8, <1>10, Decoded
<1>11. CASE ~root
  <2>1. PICK b : Spells(<<slash>> \o text, <<slash>> \o path, b)
    BY <1>2, SlashBefore
  <2>2. <<slash>> \o text \in Seq(UrlChars)
    BY <2>1 DEF Spells
  <2>3. (FilePrefix \o <<slash>>) \o text = FilePrefix \o (<<slash>> \o text)
    BY <1>3, <1>4, ConcatAssociative
  <2>4. MakeFileUrlFromPath(rawPath) = FilePrefix \o (<<slash>> \o text)
    BY <1>6, <1>11, <2>3
  <2>5. FileMeant(rawPath) = <<slash>> \o path
    BY <1>7, <1>11
  <2> QED
    BY <1>5, <1>8, <2>1, <2>2, <2>4, <2>5, Decoded
<1> QED
  BY <1>9, <1>10, <1>11

(* The URL the browser was told to load names the file that was asked for: *)
(* osr_handler.cpp, HandleControlEvent for an OpenLocalFile event.         *)
THEOREM FilesAreFound == StartSpec => []UrlFindsFile
<1>1. StartInit => UrlFindsFile
  BY DEF StartInit, UrlFindsFile
<1>2. UrlFindsFile /\ [StartNext]_startVars => UrlFindsFile'
  <2> SUFFICES ASSUME UrlFindsFile, [StartNext]_startVars PROVE UrlFindsFile'
    OBVIOUS
  <2>1. CASE OpenLocalFile
    <3>1. PICK path \in Paths : opening' = path /\ url' = MakeFileUrlFromPath(path)
      BY <2>1 DEF OpenLocalFile
    <3>2. path \in Seq(STRING)
      BY HostStartAssumption
    <3> QED
      BY <3>1, <3>2, UrlNames DEF UrlFindsFile
  <2>2. CASE UNCHANGED pageVars
    BY <2>2 DEF UrlFindsFile, pageVars
  <2>3. CASE opening' = <<>>
    BY <2>3 DEF UrlFindsFile
  <2>4. StartNext => OpenLocalFile \/ UNCHANGED pageVars \/ opening' = <<>>
    BY DEF StartNext, Launch, ExitAtOnce, Killed, Exit, InitDevice, MapChannel, InitFails,
       ClearWrite, ClearRead, InitD3DInterfaces, CreateBrowser, OnAfterCreated, OnBeforeClose,
       ReadEvent, Attach, Detach, Reserve, Store, PublishEvent, pageVars
  <2> QED
    BY <2>1, <2>2, <2>3, <2>4 DEF startVars
<1> QED
  BY <1>1, <1>2, PTL DEF StartSpec
=============================================================================
