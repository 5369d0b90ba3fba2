------------------------------ MODULE RenderLoop ------------------------------
(***************************************************************************)
(* The cadence of the render thread, laid over the nudge gate: when        *)
(* RenderThreadMain reaches the TrySendBeginFrame that NudgeGate models.   *)
(*                                                                         *)
(* Each pass adds one frame of the current rate to the schedule, waits for *)
(* it, ticks unless paused, and gives the schedule up for the present when *)
(* it has fallen more than ResyncFrames frames behind.  The rate is stored *)
(* by the control thread at any moment.  The clock is free: it may run on  *)
(* between any two steps, which is how a stall looks.                      *)
(*                                                                         *)
(* The performance counter and steady_clock are the one clock of NudgeGate *)
(* (on Windows the second is made from the first).                         *)
(***************************************************************************)
EXTENDS NudgeGate

CONSTANTS Nanos,        \* the nanoseconds of a second
          Freq,         \* the clock ticks of a second
          DefaultFps,   \* 60: what a request for 0, and OnAfterCreated, apply
          MaxFps,       \* 240
          ResyncFrames, \* 4
          Requests      \* the rates SetFrameRate asks for

ASSUME RenderLoopAssumption ==
    /\ Nanos \in Nat \ {0}
    /\ Freq \in Nat \ {0}
    /\ MaxFps \in Nat \ {0}
    /\ MaxFps <= Nanos
    /\ DefaultFps \in 1 .. MaxFps
    /\ ResyncFrames \in Nat
    /\ Requests \subseteq Nat

VARIABLES
    loopPc,      \* where RenderThreadMain is
    intervalNs,  \* m_beginFrameIntervalNs
    frameTicks,  \* its local frameTicks
    nextTick,    \* its local nextTick
    ticks,       \* history: passes that got to the pause test
    lead,        \* history: their frames, less the time gone by since, never below 0
    slowest,     \* history: the longest of those frames since lead was last 0
    stale        \* history: passes finished at another rate than the one stored

schedule == <<frameTicks, nextTick>>
made == <<ticks, lead, slowest>>
loop == <<loopPc, schedule, made, stale>>
loopVars == <<loop, intervalNs>>

-----------------------------------------------------------------------------
(* The rate.                                                               *)

Applied(fps) == IF fps = 0 THEN DefaultFps ELSE IF fps > MaxFps THEN MaxFps ELSE fps

IntervalOf(fps) == Nanos \div (IF fps < 1 THEN 1 ELSE IF fps > MaxFps THEN MaxFps ELSE fps)

FrameTicks(ns) == (ns * Freq + Nanos - 1) \div Nanos

Fastest == FrameTicks(IntervalOf(MaxFps))
Rates == {IntervalOf(DefaultFps)} \cup {IntervalOf(Applied(f)) : f \in Requests}

LoopTypeOK ==
    /\ TypeOK
    /\ loopPc \in {"top", "wait", "sending", "resync"}
    /\ intervalNs \in Rates
    /\ frameTicks \in {FrameTicks(ns) : ns \in Rates}
    /\ nextTick \in 0 .. MaxTime + FrameTicks(Nanos)
    /\ ticks \in 0 .. MaxTime
    /\ lead \in 0 .. MaxTime * FrameTicks(Nanos)
    /\ slowest \in {FrameTicks(ns) : ns \in Rates}
    /\ stale \in Nat

LoopInit ==
    /\ Init
    /\ loopPc = "top"
    /\ intervalNs = IntervalOf(DefaultFps)
    /\ frameTicks = FrameTicks(intervalNs)
    /\ nextTick = clock
    /\ ticks = 0
    /\ lead = 0
    /\ slowest = frameTicks
    /\ stale = 0

-----------------------------------------------------------------------------
(* RenderThreadMain.                                                       *)

\* Mutant: the interval is read once, when the thread starts.
BeginPassOnce ==
    /\ loopPc = "top"
    /\ nextTick' = nextTick + frameTicks
    /\ loopPc' = "wait"
    /\ UNCHANGED <<vars, intervalNs, frameTicks, made, stale>>

BeginPass ==
    /\ loopPc = "top"
    /\ frameTicks' = FrameTicks(intervalNs)
    /\ nextTick' = nextTick + frameTicks'
    /\ loopPc' = "wait"
    /\ UNCHANGED <<vars, intervalNs, made, stale>>

WaitEndsEarly == clock + 1 >= nextTick  \* a mutated form: a coarse sleep, no spin
WaitEnds == clock >= nextTick

\* waitUntil has returned: the pause test, and the first step of TrySendBeginFrame.
TickDue ==
    /\ loopPc = "wait"
    /\ WaitEnds
    /\ \/ RenderRead /\ loopPc' = "sending"
       \/ paused /\ loopPc' = "resync" /\ UNCHANGED vars
    /\ ticks' = ticks + 1
    /\ lead' = lead + frameTicks
    /\ slowest' = IF lead = 0 \/ slowest < frameTicks THEN frameTicks ELSE slowest
    /\ UNCHANGED <<intervalNs, schedule, stale>>

\* The rest of TrySendBeginFrame.
Send ==
    /\ loopPc = "sending"
    /\ RenderHeldBack \/ RenderStore
    /\ loopPc' = "resync"
    /\ UNCHANGED <<intervalNs, schedule, made, stale>>

NeverBehind == FALSE  \* a mutated form: no resynchronisation
Behind == clock > nextTick + frameTicks * ResyncFrames

EndPass ==
    /\ loopPc = "resync"
    /\ nextTick' = IF Behind THEN clock ELSE nextTick
    /\ stale' = IF frameTicks = FrameTicks(intervalNs) THEN 0 ELSE stale + 1
    /\ loopPc' = "top"
    /\ UNCHANGED <<vars, intervalNs, frameTicks, made>>

-----------------------------------------------------------------------------
\* HandleControlSetFrameRate, with UpdateBeginFrameIntervalFromFps.
SetFrameRate ==
    /\ \E fps \in Requests : intervalNs' = IntervalOf(Applied(fps))
    /\ intervalNs' # intervalNs
    /\ stale' = 0
    /\ UNCHANGED <<vars, loopPc, schedule, made>>

Time ==
    /\ Tick
    /\ lead' = IF lead > 0 THEN lead - 1 ELSE 0
    /\ UNCHANGED <<loopPc, schedule, ticks, slowest, stale, intervalNs>>

Others == (SetPaused \/ NudgeRead \/ NudgeLoad \/ NudgeSend) /\ UNCHANGED loopVars

LoopNext == Time \/ Others \/ BeginPass \/ TickDue \/ Send \/ EndPass \/ SetFrameRate

LoopSpec == LoopInit /\ [][LoopNext]_<<vars, loopVars>>

-----------------------------------------------------------------------------
(* "Added render-loop drift resync to avoid catch-up bursts after stalls"  *)
(* (PROJECT_LOG.md:199): however long the thread was held up and whether   *)
(* or not it waits in between, over any stretch of time the frames it      *)
(* ticks exceed the time that goes by by no more than ResyncFrames + 1     *)
(* frames, of the slowest rate they were ticked at.  The bound is on what  *)
(* is made up: passes that take a whole frame each may follow each other   *)
(* without a wait for as long as they do.                                  *)
BurstBounded == lead <= (ResyncFrames + 1) * slowest

(* Catching up is all the thread does: over its whole life it has ticked   *)
(* no more often than the fastest rate allows in the time gone by, because *)
(* the schedule is only ever moved forward.                                *)
NeverAheadOfTime == ticks * Fastest <= clock - Gate

(* A rate is in force from the next pass on: at most the pass under way    *)
(* ends at an older one, however often the control thread stores a rate.   *)
RateTakesEffect == stale <= 1
=============================================================================
