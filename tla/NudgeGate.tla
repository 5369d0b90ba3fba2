----------------------------- MODULE NudgeGate -----------------------------
(***************************************************************************)
(* The rate gate of the input nudge.                                       *)
(*                                                                         *)
(* An interactive input event makes the input thread send a begin frame of *)
(* its own (TryInputNudgeFrame), at most one per Gate: it compares its     *)
(* clock reading with m_lastBeginFrameUs and takes its turn with a         *)
(* compare-exchange on it.  The render thread (TrySendBeginFrame) writes   *)
(* the same atomic with a plain store of a reading it took before its own  *)
(* checks.  Both threads may be preempted between any two of these steps.  *)
(*                                                                         *)
(* Gate is min(cadence, 2 ms); the cadence is never below 1/240 s, so it   *)
(* is 2 ms whatever the frame rate.                                        *)
(***************************************************************************)
EXTENDS Integers

CONSTANTS Gate,     \* nudgeUs, in clock ticks
          Word,     \* the number of values of uint64_t
          MaxTime   \* bound: the clock

ASSUME NudgeGateAssumption ==
    /\ Gate \in Nat \ {0}
    /\ MaxTime \in Nat
    /\ MaxTime >= Gate
    /\ Word \in Nat
    /\ Word >= MaxTime + Gate

VARIABLES
    clock,         \* steady_clock
    paused,        \* m_paused
    lastBeginUs,   \* m_lastBeginFrameUs
    renderPc,      \* where TrySendBeginFrame is
    renderNow,     \* its local now
    nudgePc,       \* where TryInputNudgeFrame is
    nudgeNow,      \* its local now
    nudgePrev,     \* its local prev
    lastNudge,     \* history: the reading of the last nudge sent
    storedSince,   \* history: the render thread has stored since that nudge
    gapShort,      \* history: the last two nudges' readings are less than Gate apart
    gapDisturbed   \* history: the render thread stored between those two

renderVars == <<renderPc, renderNow>>
nudgeVars == <<nudgePc, nudgeNow, nudgePrev>>
history == <<lastNudge, storedSince, gapShort, gapDisturbed>>
vars == <<clock, paused, lastBeginUs, renderVars, nudgeVars, history>>

TypeOK ==
    /\ clock \in 0 .. MaxTime
    /\ paused \in BOOLEAN
    /\ lastBeginUs \in 0 .. clock
    /\ renderPc \in {"wait", "store"}
    /\ renderNow \in 0 .. clock
    /\ nudgePc \in {"idle", "load", "exchange"}
    /\ nudgeNow \in 0 .. clock
    /\ nudgePrev \in 0 .. clock
    /\ lastNudge \in 0 .. clock
    /\ storedSince \in BOOLEAN
    /\ gapShort \in BOOLEAN
    /\ gapDisturbed \in BOOLEAN

\* The clock has run for longer than Gate, and nothing has been sent.
Init ==
    /\ clock = Gate
    /\ paused = FALSE
    /\ lastBeginUs = 0
    /\ renderPc = "wait"
    /\ renderNow = 0
    /\ nudgePc = "idle"
    /\ nudgeNow = 0
    /\ nudgePrev = 0
    /\ lastNudge = 0
    /\ storedSince = TRUE
    /\ gapShort = FALSE
    /\ gapDisturbed = TRUE

Tick ==
    /\ clock < MaxTime
    /\ clock' = clock + 1
    /\ UNCHANGED <<paused, lastBeginUs, renderVars, nudgeVars, history>>

SetPaused ==
    /\ paused' = ~paused
    /\ UNCHANGED <<clock, lastBeginUs, renderVars, nudgeVars, history>>

-----------------------------------------------------------------------------
\* The mutated form: the end of the tick in place of the time of the reading.
RenderReadAhead ==
    /\ renderPc = "wait"
    /\ ~paused
    /\ renderNow' = clock + 1
    /\ renderPc' = "store"
    /\ UNCHANGED <<clock, paused, lastBeginUs, nudgeVars, history>>

RenderRead ==
    /\ renderPc = "wait"
    /\ ~paused
    /\ renderNow' = clock
    /\ renderPc' = "store"
    /\ UNCHANGED <<clock, paused, lastBeginUs, nudgeVars, history>>

\* Backpressure, or no browser.
RenderHeldBack ==
    /\ renderPc = "store"
    /\ renderPc' = "wait"
    /\ renderNow' = 0
    /\ UNCHANGED <<clock, paused, lastBeginUs, nudgeVars, history>>

RenderStore ==
    /\ renderPc = "store"
    /\ lastBeginUs' = renderNow
    /\ storedSince' = TRUE
    /\ renderPc' = "wait"
    /\ renderNow' = 0
    /\ UNCHANGED <<clock, paused, nudgeVars, lastNudge, gapShort, gapDisturbed>>

-----------------------------------------------------------------------------
\* now - prev in uint64_t.
Elapsed(now, prev) == IF now >= prev THEN now - prev ELSE Word - (prev - now)

TooSoon(now, prev) == Elapsed(now, prev) < Gate

\* The function's locals end with it.
NudgeReturns ==
    /\ nudgePc' = "idle"
    /\ nudgeNow' = 0
    /\ nudgePrev' = 0

NudgeRead ==
    /\ nudgePc = "idle"
    /\ ~paused
    /\ nudgeNow' = clock
    /\ nudgePc' = "load"
    /\ UNCHANGED <<clock, paused, lastBeginUs, renderVars, nudgePrev, history>>

\* The load of prev, or the failed exchange that loads it again (the weak
\* exchange may also fail without a reason), then the test at the loop's head.
NudgeLoad ==
    /\ nudgePc \in {"load", "exchange"}
    /\ IF TooSoon(nudgeNow, lastBeginUs)
       THEN NudgeReturns
       ELSE /\ nudgePc' = "exchange"
            /\ nudgePrev' = lastBeginUs
            /\ UNCHANGED nudgeNow
    /\ UNCHANGED <<clock, paused, lastBeginUs, renderVars, history>>

\* History: a nudge is sent for the reading nudgeNow.
NoteNudge ==
    /\ lastNudge' = nudgeNow
    /\ storedSince' = FALSE
    /\ gapShort' = (nudgeNow - lastNudge < Gate)
    /\ gapDisturbed' = storedSince

NudgeForgetful ==  \* a mutated form: sends, and leaves the last time alone
    /\ nudgePc = "exchange"
    /\ lastBeginUs = nudgePrev
    /\ NudgeReturns
    /\ NoteNudge
    /\ UNCHANGED <<clock, paused, lastBeginUs, renderVars>>

NudgeSend ==
    /\ nudgePc = "exchange"
    /\ lastBeginUs = nudgePrev
    /\ lastBeginUs' = nudgeNow
    /\ NudgeReturns
    /\ NoteNudge
    /\ UNCHANGED <<clock, paused, renderVars>>

Next ==
    \/ Tick \/ SetPaused
    \/ RenderRead \/ RenderHeldBack \/ RenderStore
    \/ NudgeRead \/ NudgeLoad \/ NudgeSend

Spec == Init /\ [][Next]_vars

-----------------------------------------------------------------------------
(* The gate holds between two nudges as long as the render thread does not *)
(* store in between: the exchange is never won on a value that the last    *)
(* nudge did not leave there.                                              *)
QuietGate == gapDisturbed \/ ~gapShort

(* "hard-gated to avoid burst spam (<= 1 nudge / min(cadence, 2ms))"       *)
(* (PROJECT_LOG.md:251): two nudges are never closer than Gate.            *)
NudgesSpaced == ~gapShort
=============================================================================
