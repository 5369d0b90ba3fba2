----------------------------- MODULE BeginFrames -----------------------------
(***************************************************************************)
(* The begin-frame cadence and its backpressure.                           *)
(*                                                                         *)
(* Chromium only renders when the host asks for a frame.  The render       *)
(* thread asks on every tick, unless the begin frames it has counted       *)
(* exceed the paints completed by a cap; the input thread asks too, after  *)
(* input, without counting.  CEF answers a begin frame with paints, on the *)
(* UI thread, or with none.  The control thread pauses the cadence and     *)
(* changes the cap.  The four share relaxed atomics: every load and store  *)
(* of one is a step of its own.                                            *)
(*                                                                         *)
(* Ticks, the nudge's rate gate and the browser's lifetime are not here:   *)
(* a thread may reach its next request at any time.                        *)
(***************************************************************************)
EXTENDS Integers

CONSTANTS RequestedCaps,  \* the caps SetMaxInFlightBeginFrames may carry
          MaxSent,        \* bound: begin frames the render thread sends
          MaxNudges,      \* bound: begin frames the input thread sends
          MaxResets,      \* bound: SetMaxInFlightBeginFrames events
          MaxExtraPaints  \* bound: paints beyond one for each begin frame

InitialCap == 2

ASSUME BeginFramesAssumption ==
    /\ RequestedCaps \subseteq Nat
    /\ MaxSent \in Nat
    /\ MaxNudges \in Nat
    /\ MaxResets \in Nat
    /\ MaxExtraPaints \in Nat

VARIABLES sent,         \* m_beginFramesSent
          done,         \* m_paintsCompleted
          cap,          \* m_maxInFlightBeginFrames
          paused,       \* m_paused
          renderPc,     \* where TrySendBeginFrame is
          renderSent,   \* its local sent
          renderDone,   \* its local done
          inputPc,      \* where TryInputNudgeFrame is
          controlPc,    \* where HandleControlSetMaxInFlightBeginFrames is
          controlSent,  \* its local sentNow
          outstanding,  \* CEF: begin frames received and not yet answered
          nudges,       \* history: begin frames sent by the input thread
          resets,       \* history: SetMaxInFlightBeginFrames events handled
          extra,        \* history: paints beyond one for each begin frame
          leaked,       \* history: begin frames answered without a publish
          late,         \* history: begin frames counted during the last reset
          sincePause    \* history: begin frames sent since the last SetPaused

renderVars == <<renderPc, renderSent, renderDone>>
controlVars == <<controlPc, controlSent, resets>>
shared == <<sent, done, cap, paused>>
cef == <<outstanding, extra, leaked>>
vars == <<shared, renderVars, inputPc, nudges, controlVars, cef, late, sincePause>>

TypeOK ==
    /\ sent \in Nat
    /\ done \in Nat
    /\ cap \in Nat \ {0}
    /\ paused \in BOOLEAN
    /\ renderPc \in {"tick", "admitted", "loadedSent", "loadedDone", "sending", "counting"}
    /\ renderSent \in Nat
    /\ renderDone \in Nat
    /\ inputPc \in {"idle", "nudging"}
    /\ controlPc \in {"idle", "capStored", "sentLoaded"}
    /\ controlSent \in Nat
    /\ outstanding \in Nat
    /\ nudges \in Nat
    /\ resets \in Nat
    /\ extra \in Nat
    /\ leaked \in Nat
    /\ late \in Nat
    /\ sincePause \in Nat

Init ==
    /\ sent = 0
    /\ done = 0
    /\ cap = InitialCap
    /\ paused = FALSE
    /\ renderPc = "tick"
    /\ renderSent = 0
    /\ renderDone = 0
    /\ inputPc = "idle"
    /\ controlPc = "idle"
    /\ controlSent = 0
    /\ outstanding = 0
    /\ nudges = 0
    /\ resets = 0
    /\ extra = 0
    /\ leaked = 0
    /\ late = 0
    /\ sincePause = 0

\* One more begin frame, when the host is paused.
SincePause == IF paused THEN sincePause + 1 ELSE sincePause

-----------------------------------------------------------------------------
(* The render thread: RenderThreadMain's tick and TrySendBeginFrame.       *)

InFlight(s, d) == IF s > d THEN s - d ELSE 0

\* A cap of zero would switch the backpressure off.
OneTooMany(s, d, c) == c > 0 /\ InFlight(s, d) > c
Blocked(s, d, c) == c > 0 /\ InFlight(s, d) >= c

RenderUnchecked ==
    /\ renderPc = "tick"
    /\ renderPc' = "admitted"
    /\ UNCHANGED <<shared, renderSent, renderDone, inputPc, nudges, controlVars, cef, late, sincePause>>

RenderTick ==
    /\ renderPc = "tick"
    /\ ~paused
    /\ renderPc' = "admitted"
    /\ UNCHANGED <<shared, renderSent, renderDone, inputPc, nudges, controlVars, cef, late, sincePause>>

RenderLoadSent ==
    /\ renderPc = "admitted"
    /\ renderSent' = sent
    /\ renderPc' = "loadedSent"
    /\ UNCHANGED <<shared, renderDone, inputPc, nudges, controlVars, cef, late, sincePause>>

RenderLoadDone ==
    /\ renderPc = "loadedSent"
    /\ renderDone' = done
    /\ renderPc' = "loadedDone"
    /\ UNCHANGED <<shared, renderSent, inputPc, nudges, controlVars, cef, late, sincePause>>

RenderDecide ==
    /\ renderPc = "loadedDone"
    /\ renderPc' = IF Blocked(renderSent, renderDone, cap) THEN "tick" ELSE "sending"
    /\ UNCHANGED <<shared, renderSent, renderDone, inputPc, nudges, controlVars, cef, late, sincePause>>

RenderSend ==
    /\ renderPc = "sending"
    /\ sent < MaxSent
    /\ outstanding' = outstanding + 1
    /\ sincePause' = SincePause
    /\ renderPc' = "counting"
    /\ UNCHANGED <<shared, renderSent, renderDone, inputPc, nudges, controlVars, extra, leaked, late>>

RenderCount ==
    /\ renderPc = "counting"
    /\ sent' = sent + 1
    /\ late' = IF controlPc = "sentLoaded" THEN late + 1 ELSE late
    /\ renderPc' = "tick"
    /\ UNCHANGED <<done, cap, paused, renderSent, renderDone, inputPc, nudges, controlVars, cef, sincePause>>

Render ==
    \/ RenderTick \/ RenderLoadSent \/ RenderLoadDone
    \/ RenderDecide \/ RenderSend \/ RenderCount

-----------------------------------------------------------------------------
(* The input thread: TryInputNudgeFrame, past its rate gate.               *)

NudgeCheck ==
    /\ inputPc = "idle"
    /\ nudges < MaxNudges
    /\ ~paused
    /\ inputPc' = "nudging"
    /\ UNCHANGED <<shared, renderVars, nudges, controlVars, cef, late, sincePause>>

NudgeSend ==
    /\ inputPc = "nudging"
    /\ outstanding' = outstanding + 1
    /\ nudges' = nudges + 1
    /\ sincePause' = SincePause
    /\ inputPc' = "idle"
    /\ UNCHANGED <<shared, renderVars, controlVars, extra, leaked, late>>

Nudge == NudgeCheck \/ NudgeSend

-----------------------------------------------------------------------------
(* The UI thread: CEF answers a begin frame.                               *)

\* A paint of the view or of a popup is published and ends the begin frame.
PaintUncounted ==
    /\ outstanding > 0
    /\ outstanding' = outstanding - 1
    /\ UNCHANGED <<shared, renderVars, inputPc, nudges, controlVars, extra, leaked, late, sincePause>>

PaintPublished ==
    /\ outstanding > 0
    /\ outstanding' = outstanding - 1
    /\ done' = done + 1
    /\ UNCHANGED <<sent, cap, paused, renderVars, inputPc, nudges, controlVars, extra, leaked, late, sincePause>>

\* The same begin frame paints the popup and the view: both are published.
SecondPaintPublished ==
    /\ outstanding > 0
    /\ extra < MaxExtraPaints
    /\ extra' = extra + 1
    /\ done' = done + 1
    /\ UNCHANGED <<sent, cap, paused, renderVars, inputPc, nudges, controlVars, outstanding, leaked, late, sincePause>>

\* OnAcceleratedPaint returns early: the CEF texture cannot be opened, or
\* the shared or popup textures cannot be created.
PaintFails ==
    /\ outstanding > 0
    /\ outstanding' = outstanding - 1
    /\ leaked' = leaked + 1
    /\ UNCHANGED <<shared, renderVars, inputPc, nudges, controlVars, extra, late, sincePause>>

\* Nothing changed on the page: CEF does not call OnAcceleratedPaint.
NoDamage ==
    /\ outstanding > 0
    /\ outstanding' = outstanding - 1
    /\ leaked' = leaked + 1
    /\ UNCHANGED <<shared, renderVars, inputPc, nudges, controlVars, extra, late, sincePause>>

Answer == PaintPublished \/ PaintFails \/ NoDamage

-----------------------------------------------------------------------------
(* The control thread: SetPaused and SetMaxInFlightBeginFrames.            *)

SetPaused(v) ==
    /\ controlPc = "idle"
    /\ paused # v
    /\ paused' = v
    /\ sincePause' = 0
    /\ UNCHANGED <<sent, done, cap, renderVars, inputPc, nudges, controlVars, cef, late>>

AppliedCapVerbatim(requested) == requested
AppliedCap(requested) == IF requested = 0 THEN 2 ELSE requested

StoreCap(requested) ==
    /\ controlPc = "idle"
    /\ resets < MaxResets
    /\ resets' = resets + 1
    /\ cap' = AppliedCap(requested)
    /\ controlPc' = "capStored"
    /\ UNCHANGED <<sent, done, paused, renderVars, inputPc, nudges, controlSent, cef, late, sincePause>>

LoadSentNow ==
    /\ controlPc = "capStored"
    /\ controlSent' = sent
    /\ late' = 0
    /\ controlPc' = "sentLoaded"
    /\ UNCHANGED <<shared, renderVars, inputPc, nudges, resets, cef, sincePause>>

\* Mutant: the reset leaves one begin frame of debt.
StoreDoneShort ==
    /\ controlPc = "sentLoaded"
    /\ done' = IF controlSent > 0 THEN controlSent - 1 ELSE 0
    /\ controlPc' = "idle"
    /\ UNCHANGED <<sent, cap, paused, renderVars, inputPc, nudges, controlSent, resets, cef, late, sincePause>>

StoreDone ==
    /\ controlPc = "sentLoaded"
    /\ done' = controlSent
    /\ controlPc' = "idle"
    /\ UNCHANGED <<sent, cap, paused, renderVars, inputPc, nudges, controlSent, resets, cef, late, sincePause>>

SetMaxInFlightBeginFrames ==
    \/ \E requested \in RequestedCaps : StoreCap(requested)
    \/ LoadSentNow
    \/ StoreDone

-----------------------------------------------------------------------------
Next ==
    \/ Render
    \/ Nudge
    \/ Answer
    \/ SecondPaintPublished
    \/ SetMaxInFlightBeginFrames
    \/ \E v \in BOOLEAN : SetPaused(v)

\* The render thread's loop runs for as long as the browser lives, a handler
\* that started ends, and CEF answers every begin frame.
Spec ==
    /\ Init
    /\ [][Next]_vars
    /\ WF_vars(Render)
    /\ WF_vars(NudgeSend)
    /\ WF_vars(Answer)
    /\ WF_vars(LoadSentNow \/ StoreDone)

-----------------------------------------------------------------------------
(* The counted debt never exceeds the cap in force, whatever the threads   *)
(* read and store in between, unless begin frames were counted while the   *)
(* control thread was between loading the sent count and storing it as the *)
(* completed count.                                                        *)
CountedDebtWithinCap ==
    controlPc = "idle" /\ late = 0 => InFlight(sent, done) <= cap

(* The pause flag is checked before a begin frame is sent, not with it: a  *)
(* paused host still sends, but each of the two threads at most one more.  *)
PauseSettles == paused => sincePause <= 2

(* Unless paused, the render thread gets to send the next begin frame.     *)
(* SKILLS.md:108 says it "keeps cadence from target FPS/cadence controls". *)
CadenceKept == \A n \in 0 .. MaxSent - 1 : (sent = n) ~> (sent > n \/ paused)

(* Where every begin frame ends in a published paint and the cap is not    *)
(* changed, that is so: the two counters and the four threads' relaxed     *)
(* loads and stores of them never block the cadence by themselves.         *)
CadenceKeptIfAllPublished == [](leaked = 0 /\ resets = 0) => CadenceKept

(* "Applies in-flight begin-frame cap and resets stale debt"               *)
(* (osr_handler.h:126): as long as every begin frame is published, a       *)
(* change of the cap leaves no debt behind that stops the cadence.         *)
CadenceKeptAcrossResets == [](leaked = 0) => CadenceKept

(* A reset drops the debt for good: a render thread that begin frames     *)
(* without a paint had blocked sends again after it, unless paused.        *)
ResetUnblocks ==
    \A n \in 0 .. MaxSent - 1 :
        (sent = n /\ controlPc = "sentLoaded" /\ late = 0) ~> (sent > n \/ paused)

(* "enforced bounded begin-frame backpressure" (PROJECT_LOG.md:392): what  *)
(* CEF has been asked for and has not answered stays within the cap.       *)
OutstandingWithinCap == resets = 0 => outstanding <= cap

(* The same line goes on "and reset stale in-flight debt when cap          *)
(* changes": the reset, too, leaves the backpressure bounded by the cap.   *)
OutstandingWithinCapAcrossResets ==
    nudges = 0 /\ extra = 0 => outstanding <= cap
=============================================================================
