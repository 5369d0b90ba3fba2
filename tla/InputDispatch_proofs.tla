------------------------ MODULE InputDispatch_proofs ------------------------
(***************************************************************************)
(* Proofs about the browser's life, its threads and the input dispatch,    *)
(* for any batch, ring, number of browsers and set of mouse buttons.       *)
(*                                                                         *)
(* The steps of the dispatch are HostThreads' steps with the mouse added,  *)
(* so the inductive invariant of HostThreads carries over; what is new is  *)
(* that no two buttons share a flag.                                       *)
(***************************************************************************)
EXTENDS InputDispatch, TLAPS

-----------------------------------------------------------------------------
(* The browser's life and the worker threads: HostThreads.                 *)

\* The joins are made in order, and only while m_running is clear and the browser
\* is still held; out of them a null browser means nothing runs.
JoinedInOrder ==
    /\ uiPc # "idle" => browser # 0 /\ ~running
    /\ uiPc = "idle" /\ browser # 0 => renderPc # "off"
    /\ uiPc \in {"input", "control"} => renderPc = "off"
    /\ uiPc = "control" => inputPc = "off"
    /\ NoWorkerWithoutBrowser

\* What PumpInput still owes its flag remembers.
OwedIsFlagged == owed => inputPc = "pump" /\ shouldNudge

IInv == TypeOK /\ JoinedInOrder /\ OwedIsFlagged

-----------------------------------------------------------------------------
\* The initial state, before the browser is created, satisfies the invariant.
LEMMA InitInv == Init => IInv
<1> SUFFICES ASSUME Init PROVE IInv
  OBVIOUS
<1>1. TypeOK
  <2>1. /\ opened \in 0 .. Browsers
        /\ browser \in 0 .. opened
        /\ inputPending \in 0 .. Capacity
        /\ controlPosted \in 0 .. MaxControls
        /\ controlPending \in 0 .. Capacity
        /\ processed \in 0 .. Batch
    BY HostThreadsAssumption DEF HostThreadsAssumption, Init
  <2> QED
    BY <2>1 DEF Init, TypeOK
<1>2. JoinedInOrder
  BY DEF Init, JoinedInOrder, NoWorkerWithoutBrowser
<1>3. OwedIsFlagged
  BY DEF Init, OwedIsFlagged
<1> QED
  BY <1>1, <1>2, <1>3 DEF IInv

\* A step of the UI thread (creation, stop, joins) preserves the invariant.
LEMMA UiInv == IInv /\ (OnAfterCreated \/ BeginStop \/ Stopping) => IInv'
<1> SUFFICES ASSUME IInv, OnAfterCreated \/ BeginStop \/ Stopping PROVE IInv'
  OBVIOUS
<1> USE HostThreadsAssumption
        DEF HostThreadsAssumption, IInv, TypeOK, JoinedInOrder, NoWorkerWithoutBrowser, OwedIsFlagged
<1>1. CASE OnAfterCreated
  <2>1. opened' \in 1 .. Browsers /\ browser' = opened' /\ browser' # 0
    BY <1>1 DEF OnAfterCreated
  <2>2. uiPc' = "idle" /\ running' = TRUE
    BY <1>1 DEF OnAfterCreated, StartRenderLoop
  <2>3. UNCHANGED <<inputPending, controls, inputEnabled, pump>>
    BY <1>1 DEF OnAfterCreated
  <2>4. CASE renderPc = "off"
    <3>1. inputPc # "pump"
      BY <1>1, <2>4 DEF OnAfterCreated
    <3> QED
      BY <1>1, <2>1, <2>2, <2>3, <2>4, <3>1 DEF StartRenderLoop, OnAfterCreated, controls, pump
  <2>5. CASE renderPc # "off"
    BY <1>1, <2>1, <2>2, <2>3, <2>5 DEF StartRenderLoop, OnAfterCreated, controls, pump, threads
  <2> QED
    BY <2>4, <2>5
<1>2. CASE BeginStop
  <2>1. UNCHANGED <<browser, opened, aborted, renderPc, inputPc, controlPc>>
    BY <1>2 DEF BeginStop, threads
  <2>2. UNCHANGED <<inputPending, controls, inputEnabled, pump>>
    BY <1>2 DEF BeginStop
  <2>3. browser # 0 /\ uiPc = "idle" /\ uiPc' = "render" /\ running' = FALSE
    BY <1>2 DEF BeginStop
  <2>4. TypeOK'
    <3>1. /\ opened' \in 0 .. Browsers /\ browser' \in 0 .. opened'
          /\ renderPc' \in {"off", "loop", "wait", "tick", "ended"}
          /\ inputPc' \in {"off", "loop", "first", "spin", "probe", "wait", "pump", "ended"}
          /\ controlPc' \in {"off", "loop", "wait", "recheck", "pump", "ended"}
          /\ aborted' \in BOOLEAN
      BY <2>1
    <3>2. /\ inputPending' \in 0 .. Capacity /\ controlPosted' \in 0 .. MaxControls
          /\ controlPending' \in 0 .. Capacity /\ inputEnabled' \in BOOLEAN
          /\ processed' \in 0 .. Batch /\ shouldNudge' \in BOOLEAN /\ owed' \in BOOLEAN
      BY <2>2 DEF controls, pump
    <3>3. running' \in BOOLEAN /\ uiPc' \in {"idle", "render", "input", "control"}
      BY <2>3
    <3> QED
      BY ONLY <3>1, <3>2, <3>3 DEF TypeOK
  <2>5. JoinedInOrder'
    BY <2>1, <2>3
  <2>6. OwedIsFlagged'
    BY <2>1, <2>2 DEF pump
  <2> QED
    BY <2>4, <2>5, <2>6
<1>3. CASE JoinRender
  BY <1>3 DEF JoinRender, controls, pump
<1>4. CASE JoinInput
  BY <1>4 DEF JoinInput, controls, pump
<1>5. CASE JoinControl
  BY <1>5 DEF JoinControl, controls, pump
<1> QED
  BY <1>1, <1>2, <1>3, <1>4, <1>5 DEF Stopping

\* A step of the input thread preserves the invariant.
LEMMA InputInv == IInv /\ InputThread => IInv'
<1> SUFFICES ASSUME IInv, InputThread PROVE IInv'
  OBVIOUS
<1> USE HostThreadsAssumption
        DEF HostThreadsAssumption, IInv, TypeOK, JoinedInOrder, NoWorkerWithoutBrowser, OwedIsFlagged,
            inputRest, ui, controls, pump
<1>1. CASE InputLoop
  BY <1>1 DEF InputLoop
<1>2. CASE InputFound
  <2>1. ~owed /\ inputPc # "off"
    BY <1>2 DEF InputFound
  <2>2. UNCHANGED <<inputRest, inputPending, pump>>
    BY <1>2 DEF InputFound, EnterPumpInput
  <2>3. inputPc' \in {"loop", "pump"}
    BY <1>2 DEF InputFound, EnterPumpInput
  <2> QED
    BY <2>1, <2>2, <2>3
<1>3. CASE InputNotFound
  BY <1>3 DEF InputNotFound
<1>4. CASE InputSpin
  BY <1>4 DEF InputSpin
<1>5. CASE InputWaitEnds
  BY <1>5 DEF InputWaitEnds
<1>6. CASE ReadInput
  <2>1. /\ inputPc = "pump" /\ inputPc' = "pump"
        /\ inputPending' \in 0 .. Capacity
        /\ processed' \in 0 .. Batch
        /\ UNCHANGED inputRest
    BY <1>6 DEF ReadInput, PumpHasRoom
  <2>2. /\ shouldNudge' \in BOOLEAN /\ owed' \in BOOLEAN
        /\ owed' => shouldNudge'
    <3>1. CASE inputEnabled
      <4>1. PICK handled \in BOOLEAN : Dispatch(handled)
        BY <1>6, <3>1 DEF ReadInput
      <4>2. owed => shouldNudge
        OBVIOUS
      <4> QED
        BY <4>1, <4>2, Zenon DEF Dispatch
    <3>2. CASE ~inputEnabled
      BY <1>6, <3>2 DEF ReadInput
    <3> QED
      BY <3>1, <3>2
  <2> QED
    BY <2>1, <2>2
<1>7. CASE EndPumpInput
  <2>1. owed' = FALSE /\ shouldNudge' = FALSE /\ processed' = 0
    BY <1>7 DEF EndPumpInput
  <2>2. inputPc = "pump" /\ inputPc' = "loop" /\ UNCHANGED <<inputRest, inputPending>>
    BY <1>7 DEF EndPumpInput
  <2>3. processed' \in 0 .. Batch /\ inputPending' \in 0 .. Capacity
    BY <2>1, <2>2
  <2>4. TypeOK'
    BY <2>1, <2>2, <2>3
  <2>5. JoinedInOrder' /\ OwedIsFlagged'
    BY <2>1, <2>2
  <2> QED
    BY <2>4, <2>5
<1> QED
  BY <1>1, <1>2, <1>3, <1>4, <1>5, <1>6, <1>7 DEF InputThread

\* A step of the render thread, the control thread or the producer preserves the
\* invariant.
LEMMA OthersInv ==
    IInv /\ (RenderStep \/ ControlThread \/ PostInput \/ PostControl) => IInv'
<1> SUFFICES ASSUME IInv, RenderStep \/ ControlThread \/ PostInput \/ PostControl
             PROVE  IInv'
  OBVIOUS
<1> USE HostThreadsAssumption
        DEF HostThreadsAssumption, IInv, TypeOK, JoinedInOrder, NoWorkerWithoutBrowser, OwedIsFlagged,
            controlRest, ui, controls, pump, threads
<1>1. CASE RenderStep
  BY <1>1 DEF RenderStep
<1>2. CASE ControlLoop
  BY <1>2 DEF ControlLoop
<1>3. CASE ControlWaitEnds
  BY <1>3 DEF ControlWaitEnds
<1>4. CASE EnterPumpControl
  BY <1>4 DEF EnterPumpControl
<1>5. CASE ReadControl
  BY <1>5 DEF ReadControl
<1>6. CASE EndPumpControl
  BY <1>6 DEF EndPumpControl
<1>7. CASE PostInput
  BY <1>7 DEF PostInput
<1>8. CASE PostControl
  BY <1>8 DEF PostControl
<1> QED
  BY <1>1, <1>2, <1>3, <1>4, <1>5, <1>6, <1>7, <1>8 DEF ControlThread

\* Every step of the host preserves the invariant.
LEMMA StepInv == IInv /\ [Next]_vars => IInv'
<1> SUFFICES ASSUME IInv, [Next]_vars PROVE IInv'
  OBVIOUS
<1>1. CASE UNCHANGED vars
  BY <1>1 DEF IInv, TypeOK, JoinedInOrder, NoWorkerWithoutBrowser, OwedIsFlagged,
              vars, ui, controls, pump, threads
<1> QED
  BY <1>1, UiInv, InputInv, OthersInv DEF Next

\* The inductive invariant holds in every reachable state.
THEOREM ThreadsInvariant == Spec => []IInv
<1>1. Init => IInv
  BY InitInv
<1>2. IInv /\ [Next]_vars => IInv'
  BY StepInv
<1> QED
  BY <1>1, <1>2, PTL DEF Spec

\* Every variable of the browser and its threads keeps to its type.
THEOREM TypeCorrect == Spec => []TypeOK
<1>1. IInv => TypeOK
  BY DEF IInv
<1> QED
  BY <1>1, ThreadsInvariant, PTL

\* OnBeforeClose lets the browser go only when no worker is alive.
THEOREM QuietWithoutBrowser == Spec => []NoWorkerWithoutBrowser
<1>1. IInv => NoWorkerWithoutBrowser
  BY DEF IInv, JoinedInOrder
<1> QED
  BY <1>1, ThreadsInvariant, PTL

\* For every batch size and nudge interval, PumpInput returns with
\* TryInputNudgeFrame called after the last event it has dispatched.
THEOREM NudgeIsTried == Spec => []NudgeTriedForEveryInput
<1>1. IInv => NudgeTriedForEveryInput
  BY DEF IInv, OwedIsFlagged, NudgeTriedForEveryInput
<1> QED
  BY <1>1, ThreadsInvariant, PTL

-----------------------------------------------------------------------------
(* The mouse: InputDispatch.                                               *)

MouseTypes == modifiers \subseteq Flags /\ held \subseteq Buttons /\ missed \subseteq Buttons

DInv == IInv /\ MouseTypes /\ ModifiersAreHeld

\* No two buttons have one flag.
LEMMA FlagsDiffer == \A a, b \in Buttons : FlagOf(a) = FlagOf(b) => a = b
  BY InputDispatchAssumption DEF InputDispatchAssumption, FlagOf

\* A step of the input dispatch is a step of HostThreads.
LEMMA DispatchStepIsThreadStep == DispatchNext => Next
<1> SUFFICES ASSUME DispatchNext PROVE Next
  OBVIOUS
<1>1. CASE ReadEvent
  BY <1>1 DEF ReadEvent, DispatchNext, Next, InputThread
<1>2. CASE InputThreadOther
  BY <1>2 DEF InputThreadOther, DispatchNext, Next, InputThread
<1>3. QED
  BY <1>1, <1>2, Zenon DEF DispatchNext, InputThreadReading, Next

\* Reading an event keeps the modifiers right about every button not missed.
LEMMA ReadKeepsModifiers ==
    MouseTypes /\ ModifiersAreHeld /\ ReadEvent => (MouseTypes /\ ModifiersAreHeld)'
<1> SUFFICES ASSUME MouseTypes, ModifiersAreHeld, ReadEvent
             PROVE  (MouseTypes /\ ModifiersAreHeld)'
  OBVIOUS
<1>1. PICK e \in {x \in Event : Possible(x)} :
          /\ held' = Moved(e)
          /\ IF inputEnabled
             THEN /\ Dispatch(e.type # "unknown")
                  /\ DispatchInputEvent(e)
                  /\ missed' = IF IsClick(e) THEN missed \ {e.button} ELSE missed
             ELSE /\ missed' = IF IsClick(e) THEN missed \cup {e.button} ELSE missed
                  /\ UNCHANGED modifiers
  BY Zenon DEF ReadEvent
<1>2. e \in Event /\ Possible(e)
  OBVIOUS
<1>3. CASE ~IsClick(e)
  <2>1. held' = held /\ missed' = missed
    BY <1>1, <1>3 DEF Moved
  <2>2. modifiers' = modifiers
    BY <1>1, <1>3 DEF DispatchInputEvent, IsClick
  <2>3. QED
    BY <2>1, <2>2 DEF MouseTypes, ModifiersAreHeld
<1>4. CASE IsClick(e)
  <2> DEFINE b == e.button
  <2>1. b \in Buttons /\ e.type \in {"MouseDown", "MouseUp"}
    BY <1>2, <1>4 DEF Event, IsClick
  <2>2. held' = IF e.type = "MouseUp" THEN held \ {b} ELSE held \cup {b}
    BY <1>1, <1>4 DEF Moved
  <2>3. CASE inputEnabled
    <3>1. missed' = missed \ {b}
      BY <1>1, <1>4, <2>3
    <3>2. modifiers' = IF e.type = "MouseUp" THEN modifiers \ {FlagOf(b)}
                                             ELSE modifiers \cup {FlagOf(b)}
      BY <1>1, <2>1, <2>3 DEF DispatchInputEvent
    <3>3. FlagOf(b) \in Flags
      BY <2>1 DEF Flags
    <3>4. MouseTypes'
      BY <2>1, <2>2, <3>1, <3>2, <3>3 DEF MouseTypes, Flags
    <3>5. ASSUME NEW c \in Buttons, c \notin missed'
          PROVE  FlagOf(c) \in modifiers' <=> c \in held'
      <4>1. CASE c = b
        BY <2>1, <2>2, <3>2, <4>1
      <4>2. CASE c # b
        <5>1. FlagOf(c) # FlagOf(b) /\ c \notin missed
          BY <2>1, <3>1, <3>5, <4>2, FlagsDiffer
        <5>2. QED
          BY <2>2, <3>2, <4>2, <5>1 DEF ModifiersAreHeld
      <4>3. QED
        BY <4>1, <4>2
    <3>6. QED
      BY <3>4, <3>5 DEF ModifiersAreHeld
  <2>4. CASE ~inputEnabled
    <3>1. missed' = missed \cup {b} /\ modifiers' = modifiers
      BY <1>1, <1>4, <2>4
    <3>2. MouseTypes'
      BY <2>1, <2>2, <3>1 DEF MouseTypes, Flags
    <3>3. ASSUME NEW c \in Buttons, c \notin missed'
          PROVE  FlagOf(c) \in modifiers' <=> c \in held'
      BY <2>2, <3>1, <3>3 DEF ModifiersAreHeld
    <3>4. QED
      BY <3>2, <3>3 DEF ModifiersAreHeld
  <2>5. QED
    BY <2>3, <2>4
<1>5. QED
  BY <1>3, <1>4

(* The invariant of the threads and that of the mouse hold together in     *)
(* every reachable state of the input dispatch.                            *)
THEOREM DispatchInvariant == DispatchSpec => []DInv
<1>1. DispatchInit => DInv
  <2>1. DispatchInit => IInv
    BY InitInv DEF DispatchInit
  <2>2. DispatchInit => MouseTypes /\ ModifiersAreHeld
    BY DEF DispatchInit, MouseTypes, ModifiersAreHeld
  <2>3. QED
    BY <2>1, <2>2 DEF DInv
<1>2. DInv /\ [DispatchNext]_dispatchVars => DInv'
  <2> SUFFICES ASSUME DInv, [DispatchNext]_dispatchVars PROVE DInv'
    OBVIOUS
  <2>1. IInv'
    <3>1. [Next]_vars
      BY DispatchStepIsThreadStep, Zenon DEF dispatchVars
    <3>2. QED
      BY <3>1, StepInv DEF DInv
  <2>2. (MouseTypes /\ ModifiersAreHeld)'
    <3>1. CASE ReadEvent
      BY <3>1, ReadKeepsModifiers DEF DInv
    <3>2. CASE ~ReadEvent
      <4>1. UNCHANGED mouse
        BY <3>2, Zenon DEF DispatchNext, InputThreadReading, dispatchVars
      <4>2. QED
        BY <4>1 DEF DInv, mouse, MouseTypes, ModifiersAreHeld, Flags
    <3>3. QED
      BY <3>1, <3>2
  <2>3. QED
    BY <2>1, <2>2 DEF DInv
<1>3. QED
  BY <1>1, <1>2, PTL DEF DispatchSpec

\* Every variable of the threads and of the mouse keeps to its type.
THEOREM DispatchTypeCorrect == DispatchSpec => []DispatchTypeOK
<1>1. DInv => DispatchTypeOK
  BY DEF DInv, IInv, MouseTypes, DispatchTypeOK
<1>2. QED
  BY <1>1, DispatchInvariant, PTL

(* For any buttons and any moments at which input is switched off and on:  *)
(* a modifier is wrong only about a button whose last event was dropped.   *)
THEOREM ModifiersRight == DispatchSpec => []ModifiersAreHeld
<1>1. DInv => ModifiersAreHeld
  BY DEF DInv
<1>2. QED
  BY <1>1, DispatchInvariant, PTL

(* With the events the mouse really sends, as with any: no worker is alive *)
(* without a browser, and every dispatched event has its begin frame.      *)
THEOREM DispatchKeepsThreads == DispatchSpec => [](NoWorkerWithoutBrowser /\ NudgeTriedForEveryInput)
<1>1. DInv => NoWorkerWithoutBrowser /\ NudgeTriedForEveryInput
  BY DEF DInv, IInv, JoinedInOrder, OwedIsFlagged, NudgeTriedForEveryInput
<1>2. QED
  BY <1>1, DispatchInvariant, PTL
=============================================================================
