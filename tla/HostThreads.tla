---------------------------- MODULE HostThreads ----------------------------
(***************************************************************************)
(* The browser's life and the three threads that serve it.                 *)
(*                                                                         *)
(* CEF calls OnAfterCreated and OnBeforeClose on the UI thread; the first  *)
(* starts the render, input and control threads and the second clears      *)
(* m_running and joins them one after the other.  The input thread reads   *)
(* at most Batch events a pump and asks for a begin frame after every      *)
(* NudgeEvery of them; the control thread drains its ring whole.  Both     *)
(* wait on their event with a timeout of 100 ms, so a wait ends whether or *)
(* not the event is set and the events are left out.                       *)
(*                                                                         *)
(* The rings are here the number of their unread events (SpscRing shows    *)
(* that each is delivered once and in order); a control event's content is *)
(* chosen when it is read.                                                 *)
(***************************************************************************)
EXTENDS Integers

CONSTANTS Batch,        \* kMaxEventsPerPump
          NudgeEvery,   \* kNudgeEveryEvents
          Capacity,     \* the slots a ring offers
          MaxControls,  \* bound: control events posted
          Browsers      \* bound: browsers that name this handler their client

ASSUME HostThreadsAssumption ==
    /\ Batch \in Nat \ {0}
    /\ NudgeEvery \in Nat \ {0}
    /\ Capacity \in Nat \ {0}
    /\ MaxControls \in Nat
    /\ Browsers \in Nat \ {0}

VARIABLES
    opened,        \* browsers created so far
    browser,       \* m_browser: its number, 0 for null
    running,       \* m_running
    uiPc,          \* the thread StopRenderLoop is joining
    renderPc,      \* RenderThreadMain; "off" when m_renderThread is not joinable
    inputPc,       \* InputThreadMain and PumpInput
    controlPc,     \* ControlThreadMain and PumpControl
    inputPending,  \* unread events in the input ring
    controlPosted, \* control events posted so far
    controlPending,\* unread events in the control ring
    inputEnabled,  \* m_inputEnabled
    processed,     \* PumpInput's processedEvents
    shouldNudge,   \* PumpInput's shouldNudgeFrame
    owed,          \* history: an event was dispatched after the last TryInputNudgeFrame
    aborted        \* std::terminate was called

ui == <<opened, browser, running, uiPc, aborted>>
pump == <<processed, shouldNudge, owed>>
controls == <<controlPosted, controlPending>>
threads == <<renderPc, inputPc, controlPc>>
vars == <<ui, threads, inputPending, controls, inputEnabled, pump>>

TypeOK ==
    /\ opened \in 0 .. Browsers
    /\ browser \in 0 .. opened
    /\ running \in BOOLEAN
    /\ uiPc \in {"idle", "render", "input", "control"}
    /\ renderPc \in {"off", "loop", "wait", "tick", "ended"}
    /\ inputPc \in {"off", "loop", "first", "spin", "probe", "wait", "pump", "ended"}
    /\ controlPc \in {"off", "loop", "wait", "recheck", "pump", "ended"}
    /\ inputPending \in 0 .. Capacity
    /\ controlPosted \in 0 .. MaxControls
    /\ controlPending \in 0 .. Capacity
    /\ inputEnabled \in BOOLEAN
    /\ processed \in 0 .. Batch
    /\ shouldNudge \in BOOLEAN
    /\ owed \in BOOLEAN
    /\ aborted \in BOOLEAN

Init ==
    /\ opened = 0
    /\ browser = 0
    /\ running = FALSE
    /\ uiPc = "idle"
    /\ renderPc = "off"
    /\ inputPc = "off"
    /\ controlPc = "off"
    /\ inputPending = 0
    /\ controlPosted = 0
    /\ controlPending = 0
    /\ inputEnabled = TRUE
    /\ processed = 0
    /\ shouldNudge = FALSE
    /\ owed = FALSE
    /\ aborted = FALSE

-----------------------------------------------------------------------------
(* The UI thread.                                                          *)

\* StartRenderLoop assigns a new std::thread to each member; assigning to one
\* that is still joinable calls std::terminate.
StartRenderLoop ==
    /\ running' = TRUE
    /\ IF renderPc = "off"
       THEN /\ renderPc' = "loop"
            /\ inputPc' = "loop"
            /\ controlPc' = "loop"
            /\ UNCHANGED aborted
       ELSE /\ aborted' = TRUE
            /\ UNCHANGED threads

\* The first browser is the host's own.  OnBeforePopup is not overridden, so
\* the window a page opens is created with this handler as its client.
OnAfterCreated ==
    /\ uiPc = "idle"
    /\ opened < Browsers
    /\ opened > 0 => browser # 0
    /\ opened' = opened + 1
    /\ browser' = opened + 1
    /\ StartRenderLoop
    /\ UNCHANGED <<uiPc, inputPending, controls, inputEnabled, pump>>

\* Mutant: OnBeforeClose drops the browser before it stops the loops.
BeginStopBrowserless ==
    /\ uiPc = "idle"
    /\ browser # 0
    /\ running' = FALSE
    /\ uiPc' = "render"
    /\ browser' = 0
    /\ UNCHANGED <<opened, aborted, threads, inputPending, controls, inputEnabled, pump>>

\* OnBeforeClose enters StopRenderLoop.
BeginStop ==
    /\ uiPc = "idle"
    /\ browser # 0
    /\ running' = FALSE
    /\ uiPc' = "render"
    /\ UNCHANGED <<opened, browser, aborted, threads, inputPending, controls,
                   inputEnabled, pump>>

JoinRender ==
    /\ uiPc = "render"
    /\ renderPc = "ended"
    /\ renderPc' = "off"
    /\ uiPc' = "input"
    /\ UNCHANGED <<opened, browser, running, aborted, inputPc, controlPc, inputPending,
                   controls, inputEnabled, pump>>

JoinInput ==
    /\ uiPc = "input"
    /\ inputPc = "ended"
    /\ inputPc' = "off"
    /\ uiPc' = "control"
    /\ UNCHANGED <<opened, browser, running, aborted, renderPc, controlPc, inputPending,
                   controls, inputEnabled, pump>>

\* The last join returns to OnBeforeClose, which clears m_browser.
JoinControl ==
    /\ uiPc = "control"
    /\ controlPc = "ended"
    /\ controlPc' = "off"
    /\ uiPc' = "idle"
    /\ browser' = 0
    /\ UNCHANGED <<opened, running, aborted, renderPc, inputPc, inputPending, controls,
                   inputEnabled, pump>>

Stopping == JoinRender \/ JoinInput \/ JoinControl

-----------------------------------------------------------------------------
(* The render thread: one pass of RenderThreadMain (BeginFrames has what a *)
(* tick sends).                                                            *)

RenderStep ==
    /\ \/ /\ renderPc = "loop"
          /\ renderPc' = IF running THEN "wait" ELSE "ended"
       \/ /\ renderPc = "wait"
          /\ renderPc' = IF running THEN "tick" ELSE "ended"
       \/ /\ renderPc = "tick"
          /\ renderPc' = "loop"
    /\ UNCHANGED <<ui, inputPc, controlPc, inputPending, controls, inputEnabled, pump>>

-----------------------------------------------------------------------------
(* The input thread.                                                       *)

inputRest == <<ui, renderPc, controlPc, controls, inputEnabled>>

InputLoop ==
    /\ inputPc = "loop"
    /\ inputPc' = IF running THEN "first" ELSE "ended"
    /\ UNCHANGED <<inputRest, inputPending, pump>>

\* Mutant: the pump returns while input is disabled, and leaves the ring as it is.
EnterPumpInputDisabled ==
    /\ inputPc' = IF browser = 0 \/ ~inputEnabled THEN "loop" ELSE "pump"
    /\ UNCHANGED <<inputRest, inputPending, pump>>

\* PumpInput's entry; it returns at once without a browser.  Its locals are at
\* their initial values between two pumps.
EnterPumpInput ==
    /\ inputPc' = IF browser = 0 THEN "loop" ELSE "pump"
    /\ UNCHANGED <<inputRest, inputPending, pump>>

InputFound ==
    /\ inputPc \in {"first", "probe"}
    /\ inputPending > 0
    /\ EnterPumpInput

\* Nothing pending at first: the spin phase.  A spin that finds nothing may
\* go on or give up for the wait.
InputNotFound ==
    /\ inputPending = 0
    /\ \/ inputPc = "first" /\ inputPc' = "spin"
       \/ inputPc = "probe" /\ inputPc' \in {"spin", "wait"}
    /\ UNCHANGED <<inputRest, inputPending, pump>>

InputSpin ==
    /\ inputPc = "spin"
    /\ inputPc' = IF running THEN "probe" ELSE "wait"
    /\ UNCHANGED <<inputRest, inputPending, pump>>

InputWaitEnds ==
    /\ inputPc = "wait"
    /\ inputPc' = "loop"
    /\ UNCHANGED <<inputRest, inputPending, pump>>

\* Mutant: the batch bound lets one more event through.
PumpHasRoomForOneMore == processed <= Batch

PumpHasRoom == processed < Batch

\* Mutant: the flag is what the last dispatch returned.
DispatchForgetful(handled) ==
    LET now == handled /\ (processed + 1) % NudgeEvery = 0
    IN  /\ shouldNudge' = (handled /\ ~now)
        /\ owed' = ((handled \/ owed) /\ ~now)

\* The event is dispatched: DispatchInputEvent returns handled, FALSE for a
\* type it does not know.
Dispatch(handled) ==
    LET nudge == handled \/ shouldNudge
        now   == nudge /\ (processed + 1) % NudgeEvery = 0
    IN  /\ shouldNudge' = (nudge /\ ~now)
        /\ owed' = ((handled \/ owed) /\ ~now)

\* One turn of PumpInput's loop: an event is read, and dropped while input is
\* disabled.
ReadInput ==
    /\ inputPc = "pump"
    /\ PumpHasRoom
    /\ inputPending > 0
    /\ inputPending' = inputPending - 1
    /\ processed' = processed + 1
    /\ IF inputEnabled
       THEN \E handled \in BOOLEAN : Dispatch(handled)
       ELSE UNCHANGED <<shouldNudge, owed>>
    /\ UNCHANGED <<inputRest, inputPc>>

\* Mutant: the input thread pumps while events are pending before it looks at
\* m_running again.
EndPumpInputGreedy ==
    /\ inputPc = "pump"
    /\ ~PumpHasRoom \/ inputPending = 0
    /\ inputPc' = IF inputPending > 0 THEN "first" ELSE "loop"
    /\ owed' = (owed /\ ~shouldNudge)
    /\ processed' = 0
    /\ shouldNudge' = FALSE
    /\ UNCHANGED <<inputRest, inputPending>>

\* The loop's end: the flag that is still set asks for a begin frame.
EndPumpInput ==
    /\ inputPc = "pump"
    /\ ~PumpHasRoom \/ inputPending = 0
    /\ inputPc' = "loop"
    /\ owed' = (owed /\ ~shouldNudge)
    /\ processed' = 0
    /\ shouldNudge' = FALSE
    /\ UNCHANGED <<inputRest, inputPending>>

InputThread ==
    \/ InputLoop \/ InputFound \/ InputNotFound \/ InputSpin \/ InputWaitEnds
    \/ ReadInput \/ EndPumpInput

-----------------------------------------------------------------------------
(* The control thread.                                                     *)

controlRest == <<ui, renderPc, inputPc, inputPending, controlPosted, pump>>

ControlLoop ==
    /\ controlPc = "loop"
    /\ controlPc' = IF running THEN "wait" ELSE "ended"
    /\ UNCHANGED <<controlRest, controlPending, inputEnabled>>

ControlWaitEnds ==
    /\ controlPc = "wait"
    /\ controlPc' = "recheck"
    /\ UNCHANGED <<controlRest, controlPending, inputEnabled>>

\* m_running is read again, then PumpControl takes its reference.
EnterPumpControl ==
    /\ controlPc = "recheck"
    /\ controlPc' = IF running /\ browser # 0 THEN "pump" ELSE "loop"
    /\ UNCHANGED <<controlRest, controlPending, inputEnabled>>

\* HandleControlEvent, of which SetInputEnabled reaches the input thread.
ReadControl ==
    /\ controlPc = "pump"
    /\ controlPending > 0
    /\ controlPending' = controlPending - 1
    /\ inputEnabled' \in BOOLEAN
    /\ UNCHANGED <<controlRest, controlPc>>

EndPumpControl ==
    /\ controlPc = "pump"
    /\ controlPending = 0
    /\ controlPc' = "loop"
    /\ UNCHANGED <<controlRest, controlPending, inputEnabled>>

ControlThread ==
    ControlLoop \/ ControlWaitEnds \/ EnterPumpControl \/ ReadControl \/ EndPumpControl

-----------------------------------------------------------------------------
(* The producer of both rings.  Only the control events are bounded: the   *)
(* input events never stop.                                                *)

PostInput ==
    /\ inputPending < Capacity
    /\ inputPending' = inputPending + 1
    /\ UNCHANGED <<ui, threads, controls, inputEnabled, pump>>

PostControl ==
    /\ controlPosted < MaxControls
    /\ controlPending < Capacity
    /\ controlPosted' = controlPosted + 1
    /\ controlPending' = controlPending + 1
    /\ UNCHANGED <<ui, threads, inputPending, inputEnabled, pump>>

-----------------------------------------------------------------------------
Next ==
    /\ ~aborted
    /\ \/ OnAfterCreated \/ BeginStop \/ Stopping
       \/ RenderStep \/ InputThread \/ ControlThread
       \/ PostInput \/ PostControl

Fairness ==
    /\ WF_vars(~aborted /\ Stopping)
    /\ WF_vars(~aborted /\ RenderStep)
    /\ WF_vars(~aborted /\ InputThread)
    /\ WF_vars(~aborted /\ ControlThread)

Spec == Init /\ [][Next]_vars /\ Fairness

-----------------------------------------------------------------------------
\* Without a browser no worker is alive: the loops end before OnBeforeClose lets
\* the browser go, so no pump or tick uses a browser that is being destroyed.
NoWorkerWithoutBrowser ==
    browser = 0 => /\ ~running
                   /\ renderPc = "off" /\ inputPc = "off" /\ controlPc = "off"

\* TryInputNudgeFrame was called after every event the input thread dispatched,
\* or PumpInput is still at work: whatever unknown types, disabled stretches and
\* full batches come between.  The call itself asks for nothing when the page is
\* paused or a begin frame is less than the gate old, see NudgeGate.
NudgeTriedForEveryInput == owed => inputPc = "pump"

\* Closing the browser ends, although the producer never stops sending input:
\* StopRenderLoop joins the three threads.
StopCompletes == (uiPc # "idle") ~> (uiPc = "idle")

\* A full input ring gets room while the loops run.
InputIsServed == (inputPending = Capacity /\ running) ~> (inputPending < Capacity \/ ~running)

\* osr_handler.h:93: OnAfterCreated "Starts render/input/control loops when
\* browser host is created": creating a browser does not end the process.
CreationStartsLoops == ~aborted
=============================================================================
