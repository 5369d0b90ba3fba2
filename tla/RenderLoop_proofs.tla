-------------------------- MODULE RenderLoop_proofs --------------------------
(***************************************************************************)
(* Proofs about the rate gate of the input nudge and the cadence of the    *)
(* render thread, for any rates, gate and clock.                           *)
(*                                                                         *)
(* The gate: QuietGate is not inductive, it says nothing of what the next  *)
(* exchange will find.  LeftThere adds it: as long as the render thread    *)
(* has not stored, m_lastBeginFrameUs is what the last nudge left, and a   *)
(* nudge about to exchange on that value has passed the test against it.   *)
(*                                                                         *)
(* The loop: its every step is a step of NudgeGate or leaves its variables *)
(* alone, so the gate's invariant carries over; the rest is arithmetic on  *)
(* how far the schedule lies behind the clock.                             *)
(***************************************************************************)
EXTENDS RenderLoop, TLAPS

-----------------------------------------------------------------------------
(* The gate.                                                               *)

\* The two halves of TypeOK.
Flags ==
    /\ paused \in BOOLEAN
    /\ renderPc \in {"wait", "store"}
    /\ nudgePc \in {"idle", "load", "exchange"}
    /\ storedSince \in BOOLEAN
    /\ gapShort \in BOOLEAN
    /\ gapDisturbed \in BOOLEAN

Times ==
    /\ clock \in 0 .. MaxTime
    /\ lastBeginUs \in 0 .. clock
    /\ renderNow \in 0 .. clock
    /\ nudgeNow \in 0 .. clock
    /\ nudgePrev \in 0 .. clock
    /\ lastNudge \in 0 .. clock

\* The input thread's reading of the clock is not older than its last one.
ReadingsInOrder == nudgePc # "idle" => lastNudge <= nudgeNow

LeftThere == ~storedSince => lastBeginUs = lastNudge

\* An exchange is only tried on a value that has passed the test.
Tested == nudgePc = "exchange" => ~TooSoon(nudgeNow, nudgePrev)

GateInv == TypeOK /\ ReadingsInOrder /\ LeftThere /\ Tested /\ QuietGate

\* The gate's inductive invariant holds initially.
LEMMA GateInitInv == Init => GateInv
<1>1. Init => TypeOK
  <2>1. Init => Flags
    BY DEF Init, Flags
  <2>2. Init => Times
    BY NudgeGateAssumption DEF NudgeGateAssumption, Init, Times
  <2>3. QED
    BY <2>1, <2>2 DEF TypeOK, Flags, Times
<1>2. Init => ReadingsInOrder /\ LeftThere /\ Tested /\ QuietGate
  BY NudgeGateAssumption DEF NudgeGateAssumption, Init, ReadingsInOrder, LeftThere, Tested, QuietGate
<1>3. QED
  BY <1>1, <1>2 DEF GateInv

\* Every step of the two threads preserves it.
LEMMA GateStepInv == GateInv /\ [Next]_vars => GateInv'
<1> SUFFICES ASSUME GateInv, [Next]_vars PROVE GateInv'
  OBVIOUS
<1> USE NudgeGateAssumption
    DEF NudgeGateAssumption, GateInv, TypeOK, ReadingsInOrder, LeftThere, Tested,
        QuietGate, TooSoon, Elapsed
<1>1. CASE Tick
  BY <1>1 DEF Tick, renderVars, nudgeVars, history
<1>2. CASE SetPaused
  BY <1>2 DEF SetPaused, renderVars, nudgeVars, history
<1>3. CASE RenderRead
  BY <1>3 DEF RenderRead, nudgeVars, history
<1>4. CASE RenderHeldBack
  BY <1>4 DEF RenderHeldBack, nudgeVars, history
<1>5. CASE RenderStore
  BY <1>5 DEF RenderStore, nudgeVars
<1>6. CASE NudgeRead
  BY <1>6 DEF NudgeRead, renderVars, history
<1>7. CASE NudgeLoad
  BY <1>7 DEF NudgeLoad, NudgeReturns, renderVars, history
<1>8. CASE NudgeSend
  <2>1. ~storedSince => nudgeNow - lastNudge >= Gate
    BY <1>8 DEF NudgeSend
  <2>2. TypeOK'
    <3>1. Flags'
      <4>1. gapShort' \in BOOLEAN
        <5>1. (nudgeNow - lastNudge < Gate) \in BOOLEAN
          OBVIOUS
        <5>2. QED
          BY <1>8, <5>1, Zenon DEF NudgeSend, NoteNudge
      <4>2. (storedSince \in BOOLEAN /\ gapDisturbed \in BOOLEAN)'
        BY <1>8, Zenon DEF NudgeSend, NoteNudge, TypeOK
      <4>3. paused' \in BOOLEAN
        BY <1>8, Zenon DEF NudgeSend, TypeOK
      <4>4. renderPc' \in {"wait", "store"} /\ nudgePc' \in {"idle", "load", "exchange"}
        BY <1>8, Zenon DEF NudgeSend, NudgeReturns, renderVars, TypeOK
      <4>5. QED
        BY <4>1, <4>2, <4>3, <4>4, Zenon DEF Flags
    <3>2. Times'
      BY <1>8 DEF NudgeSend, NudgeReturns, NoteNudge, renderVars, Times
    <3>3. QED
      BY <3>1, <3>2 DEF Flags, Times
  <2>3. (ReadingsInOrder /\ LeftThere /\ Tested)'
    BY <1>8 DEF NudgeSend, NudgeReturns, NoteNudge, renderVars
  <2>4. QuietGate'
    <3>1. CASE storedSince
      BY <1>8, <3>1, Zenon DEF NudgeSend, NoteNudge
    <3>2. CASE ~storedSince
      BY <1>8, <2>1, <3>2 DEF NudgeSend, NoteNudge
    <3>3. QED
      BY <3>1, <3>2
  <2>5. QED
    BY <2>2, <2>3, <2>4
<1>9. CASE UNCHANGED vars
  BY <1>9 DEF vars, renderVars, nudgeVars, history
<1>10. QED
  BY <1>1, <1>2, <1>3, <1>4, <1>5, <1>6, <1>7, <1>8, <1>9 DEF Next

(* The gate's inductive invariant holds initially and over every step of   *)
(* the two threads.                                                        *)
THEOREM GateInvariant == Spec => []GateInv
  BY GateInitInv, GateStepInv, PTL DEF Spec

(* Whatever the gate, the clock and the interleaving, no atomic and no     *)
(* local of the two threads ever holds a time that has not come.           *)
THEOREM TypeCorrect == Spec => []TypeOK
  BY GateInvariant, PTL DEF GateInv

(* Whatever the gate, the clock and the interleaving, two nudges with no   *)
(* store of the render thread between them are at least Gate apart.        *)
THEOREM GateHoldsUndisturbed == Spec => []QuietGate
  BY GateInvariant, PTL DEF GateInv

-----------------------------------------------------------------------------
(* Arithmetic.                                                             *)

\* Division by a positive number keeps the order of its dividends.
LEMMA DivKeepsOrder ==
    ASSUME NEW a \in Nat, NEW b \in Nat, NEW c \in Nat \ {0}, a <= b
    PROVE  a \div c \in Nat /\ a \div c <= b \div c
  OBVIOUS

\* A larger divisor gives no larger quotient.
LEMMA DivByMore ==
    ASSUME NEW a \in Nat, NEW c \in Nat \ {0}, NEW d \in Nat \ {0}, c <= d
    PROVE  a \div d \in Nat /\ a \div d <= a \div c
<1> DEFINE q == a \div d
<1>1. q \in Nat /\ q * d <= a
  OBVIOUS
<1>2. q * c <= q * d
  BY <1>1
<1>3. q * c <= a
  BY <1>1, <1>2
<1>4. q <= a \div c
  BY <1>1, <1>3
<1>5. QED
  BY <1>1, <1>4

\* A positive divisor no larger than its dividend goes into it at least once.
LEMMA DivPositive ==
    ASSUME NEW a \in Nat, NEW c \in Nat \ {0}, c <= a
    PROVE  a \div c \in Nat \ {0}
  OBVIOUS

\* Multiples of a positive number keep the sign of the factor.
LEMMA MultiplePositive ==
    ASSUME NEW j \in Int, NEW f \in Nat \ {0}
    PROVE  j * f \in Int /\ (j * f >= 0 <=> j >= 0) /\ (j >= 0 => j <= j * f)
  OBVIOUS

\* And the order of two factors.
LEMMA MultiplesKeepOrder ==
    ASSUME NEW k \in Nat, NEW a \in Nat, NEW b \in Nat, a <= b
    PROVE  k * a <= k * b
<1>1. b - a \in Nat /\ k * (b - a) \in Nat /\ k * b = k * a + k * (b - a)
  OBVIOUS
<1>2. QED
  BY <1>1

-----------------------------------------------------------------------------
(* The frame of any rate is at least the fastest one's, and that is not    *)
(* empty.                                                                  *)
LEMMA FramesBounded ==
    /\ Fastest \in Nat \ {0}
    /\ FrameTicks(Nanos) \in Nat
    /\ \A ns \in Rates : /\ ns \in Nat
                         /\ FrameTicks(ns) \in Nat
                         /\ Fastest <= FrameTicks(ns)
                         /\ FrameTicks(ns) <= FrameTicks(Nanos)
<1> USE RenderLoopAssumption DEF RenderLoopAssumption
<1>1. ASSUME NEW a \in Nat, NEW b \in Nat, a <= b
      PROVE  FrameTicks(a) \in Nat /\ FrameTicks(a) <= FrameTicks(b)
  <2>1. a * Freq \in Nat /\ b * Freq \in Nat /\ a * Freq <= b * Freq
    BY <1>1
  <2>2. a * Freq + Nanos - 1 \in Nat /\ b * Freq + Nanos - 1 \in Nat
        /\ a * Freq + Nanos - 1 <= b * Freq + Nanos - 1
    BY <2>1
  <2>3. QED
    BY <2>2, DivKeepsOrder DEF FrameTicks
<1>2. ASSUME NEW fps \in 1 .. MaxFps
      PROVE  /\ IntervalOf(fps) \in Nat
             /\ IntervalOf(MaxFps) <= IntervalOf(fps)
             /\ IntervalOf(fps) <= Nanos
  <2>1. fps \in Nat \ {0} /\ 1 <= fps /\ fps <= MaxFps /\ 1 \in Nat \ {0} /\ Nanos \in Nat
    OBVIOUS
  <2>2. Nanos \div fps \in Nat /\ Nanos \div fps <= Nanos \div 1
    BY <2>1, DivByMore, Zenon
  <2>3. MaxFps \in Nat \ {0}
    OBVIOUS
  <2>4. Nanos \div MaxFps <= Nanos \div fps
    BY <2>1, <2>3, DivByMore, Zenon
  <2>5. Nanos \div 1 = Nanos
    OBVIOUS
  <2>6. QED
    BY <2>2, <2>4, <2>5 DEF IntervalOf
<1>3. IntervalOf(MaxFps) \in Nat \ {0}
  BY DivPositive DEF IntervalOf
<1>4. Fastest \in Nat \ {0}
  <2> DEFINE ns == IntervalOf(MaxFps)
  <2>1. ns * Freq \in Nat \ {0}
    BY <1>3
  <2> HIDE DEF ns
  <2>2. ns * Freq + Nanos - 1 \in Nat /\ Nanos <= ns * Freq + Nanos - 1
    BY <2>1
  <2>3. (ns * Freq + Nanos - 1) \div Nanos \in Nat \ {0}
    BY <2>2, DivPositive
  <2>4. QED
    BY <2>3 DEF Fastest, FrameTicks, ns
<1>5. \A ns \in Rates : \E fps \in 1 .. MaxFps : ns = IntervalOf(fps)
  <2>1. \A f \in Requests : Applied(f) \in 1 .. MaxFps
    BY DEF Applied
  <2>2. QED
    BY <2>1 DEF Rates
<1>6. ASSUME NEW ns \in Rates
      PROVE  /\ ns \in Nat
             /\ FrameTicks(ns) \in Nat
             /\ Fastest <= FrameTicks(ns)
             /\ FrameTicks(ns) <= FrameTicks(Nanos)
  <2>1. PICK fps \in 1 .. MaxFps : ns = IntervalOf(fps)
    BY <1>5
  <2>2. ns \in Nat /\ IntervalOf(MaxFps) <= ns /\ ns <= Nanos
    BY <1>2, <2>1
  <2>3. QED
    BY <1>1, <1>3, <2>2 DEF Fastest
<1>7. FrameTicks(Nanos) \in Nat
  BY <1>1
<1>8. QED
  BY <1>4, <1>6, <1>7

-----------------------------------------------------------------------------
(* The invariant.                                                          *)

LoopTypes ==
    /\ loopPc \in {"top", "wait", "sending", "resync"}
    /\ intervalNs \in Rates
    /\ frameTicks \in {FrameTicks(ns) : ns \in Rates}
    /\ nextTick \in Nat
    /\ ticks \in Nat
    /\ lead \in Nat
    /\ lead <= ticks * FrameTicks(Nanos)
    /\ slowest \in {FrameTicks(ns) : ns \in Rates}
    /\ stale \in 0 .. 1

\* A pass finished at an older rate leaves the loop where it reads the rate, or
\* at the rate it has read since.
RateRead == stale = 1 => loopPc = "top" \/ frameTicks = FrameTicks(intervalNs)

\* Only while it waits is the schedule ahead of the clock, by a frame at most.
OneFrameAhead ==
    /\ loopPc # "wait" => nextTick <= clock
    /\ nextTick <= clock + frameTicks

\* The schedule has room for the ticks made, and for the one waited for.
Scheduled ==
    /\ ticks * Fastest <= clock - Gate
    /\ ticks * Fastest <= nextTick - Gate
    /\ loopPc = "wait" => (ticks + 1) * Fastest <= nextTick - Gate

\* How far the schedule lies behind the clock, the frame waited for left out.
Lag == clock - nextTick + (IF loopPc = "wait" THEN frameTicks ELSE 0)

Allowance == (ResyncFrames + 1) * slowest

\* What the schedule lags by is what can still be made up: together with what
\* has been it stays within the allowance, but for the lag the pass is about to
\* give up.
Owed ==
    /\ lead <= Allowance
    /\ \/ lead = 0
       \/ lead + Lag <= Allowance
       \/ loopPc \in {"sending", "resync"} /\ Behind

LoopInv == GateInv /\ LoopTypes /\ RateRead /\ OneFrameAhead /\ Scheduled /\ Owed

LEMMA LoopInitInv == LoopInit => LoopInv
<1> SUFFICES ASSUME LoopInit PROVE LoopInv
  OBVIOUS
<1> USE RenderLoopAssumption, NudgeGateAssumption DEF RenderLoopAssumption, NudgeGateAssumption
<1>1. GateInv
  BY GateInitInv DEF LoopInit
<1>2. intervalNs \in Rates /\ frameTicks = FrameTicks(intervalNs)
  BY DEF LoopInit, Rates
<1>3. frameTicks \in Nat
  BY <1>2, FramesBounded
<1>4. clock = Gate /\ nextTick = Gate /\ ticks = 0 /\ lead = 0 /\ stale = 0 /\ loopPc = "top"
      /\ slowest = frameTicks
  BY DEF LoopInit, Init
<1>5. LoopTypes /\ RateRead /\ OneFrameAhead
  BY <1>2, <1>3, <1>4, FramesBounded DEF LoopTypes, RateRead, OneFrameAhead
<1>6. Scheduled
  BY <1>4, FramesBounded DEF Scheduled
<1>7. Owed
  <2>1. Allowance \in Nat
    BY <1>3, <1>4 DEF Allowance
  <2>2. QED
    BY <1>4, <2>1 DEF Owed
<1>8. QED
  BY <1>1, <1>5, <1>6, <1>7 DEF LoopInv

\* A step of the loop is a step of the gate, or leaves its variables alone.
LEMMA LoopStepIsGateStep == LoopNext => [Next]_vars
  BY DEF LoopNext, Time, Others, BeginPass, TickDue, Send, EndPass, SetFrameRate, Next

\* The numbers of the schedule.
LEMMA LoopNumbers ==
    ASSUME LoopInv
    PROVE  /\ clock \in Nat /\ nextTick \in Nat /\ ticks \in Nat /\ lead \in Nat
           /\ slowest \in Nat \ {0} /\ frameTicks \in Nat \ {0}
           /\ ResyncFrames \in Nat /\ Gate \in Nat /\ Fastest \in Nat \ {0}
           /\ FrameTicks(Nanos) \in Nat /\ frameTicks <= FrameTicks(Nanos)
           /\ Lag \in Int /\ Allowance \in Nat
<1>1. /\ clock \in Nat /\ nextTick \in Nat /\ ticks \in Nat /\ lead \in Nat
      /\ ResyncFrames \in Nat /\ Gate \in Nat
  BY NudgeGateAssumption, RenderLoopAssumption
     DEF NudgeGateAssumption, RenderLoopAssumption, LoopInv, LoopTypes, GateInv, TypeOK
<1>2. /\ slowest \in Nat \ {0} /\ frameTicks \in Nat \ {0} /\ Fastest \in Nat \ {0}
      /\ FrameTicks(Nanos) \in Nat /\ frameTicks <= FrameTicks(Nanos)
  BY FramesBounded DEF LoopInv, LoopTypes
<1>3. Lag \in Int
  BY <1>1, <1>2 DEF Lag
<1>4. Allowance \in Nat
  BY <1>1, <1>2 DEF Allowance
<1>5. QED
  BY <1>1, <1>2, <1>3, <1>4

\* Time passes: the schedule falls behind by as much as the lead shrinks.
LEMMA TimeInv == LoopInv /\ Time => (LoopTypes /\ RateRead /\ OneFrameAhead /\ Scheduled /\ Owed)'
<1> SUFFICES ASSUME LoopInv, Time
             PROVE  (LoopTypes /\ RateRead /\ OneFrameAhead /\ Scheduled /\ Owed)'
  OBVIOUS
<1>1. /\ clock \in Nat /\ clock' = clock + 1
      /\ lead' = IF lead > 0 THEN lead - 1 ELSE 0
      /\ UNCHANGED <<loopPc, frameTicks, nextTick, ticks, slowest, stale, intervalNs>>
  BY NudgeGateAssumption DEF NudgeGateAssumption, LoopInv, GateInv, TypeOK, Time, Tick, schedule
<1>2. frameTicks \in Nat /\ ResyncFrames \in Nat
  BY FramesBounded, RenderLoopAssumption DEF RenderLoopAssumption, LoopInv, LoopTypes
<1>3. (LoopTypes /\ RateRead)'
  <2>1. lead' \in Nat /\ lead' <= lead
    BY <1>1, LoopNumbers
  <2>2. ticks * FrameTicks(Nanos) \in Nat
    BY LoopNumbers
  <2>3. lead' <= ticks' * FrameTicks(Nanos)
    BY <1>1, <2>1, <2>2, LoopNumbers DEF LoopInv, LoopTypes
  <2>4. QED
    BY <1>1, <2>1, <2>3 DEF LoopInv, LoopTypes, RateRead
<1>4. OneFrameAhead'
  BY <1>1, <1>2 DEF LoopInv, LoopTypes, OneFrameAhead
<1>5. Scheduled'
  <2>1. ticks \in Nat /\ Fastest \in Nat /\ Gate \in Nat
    BY FramesBounded, NudgeGateAssumption DEF NudgeGateAssumption, LoopInv, LoopTypes
  <2>2. ticks * Fastest \in Nat
    BY <2>1
  <2>3. ticks * Fastest <= clock' - Gate
    BY <1>1, <2>1, <2>2 DEF LoopInv, Scheduled
  <2>4. QED
    BY <1>1, <2>3 DEF LoopInv, Scheduled
<1>6. Owed'
  <2>1. Lag' = Lag + 1 /\ Allowance' = Allowance
    BY <1>1, LoopNumbers DEF Lag, Allowance
  <2>2. Behind => Behind'
    <3>1. frameTicks * ResyncFrames \in Nat
      BY LoopNumbers
    <3>2. QED
      BY <1>1, <3>1, LoopNumbers DEF Behind
  <2>3. QED
    BY <1>1, <2>1, <2>2, LoopNumbers DEF LoopInv, Owed
<1>7. QED
  BY <1>3, <1>4, <1>5, <1>6

\* A pass begins: one frame of the rate read is added to the schedule.
LEMMA BeginPassInv ==
    LoopInv /\ BeginPass => (LoopTypes /\ RateRead /\ OneFrameAhead /\ Scheduled /\ Owed)'
<1> SUFFICES ASSUME LoopInv, BeginPass
             PROVE  (LoopTypes /\ RateRead /\ OneFrameAhead /\ Scheduled /\ Owed)'
  OBVIOUS
<1> DEFINE F == frameTicks'
<1>1. /\ loopPc = "top" /\ loopPc' = "wait"
      /\ F = FrameTicks(intervalNs) /\ nextTick' = nextTick + F
      /\ UNCHANGED <<clock, intervalNs, ticks, lead, slowest, stale>>
  BY DEF BeginPass, vars, made
<1>2. intervalNs \in Rates /\ clock \in Nat /\ nextTick \in Nat /\ ticks \in Nat /\ Gate \in Nat
  BY LoopNumbers DEF LoopInv, LoopTypes
<1>3. F \in Nat /\ Fastest \in Nat /\ Fastest <= F
  BY <1>1, <1>2, FramesBounded
<1>4. (LoopTypes /\ RateRead)'
  <2>1. nextTick' \in Nat
    BY <1>1, <1>2, <1>3
  <2>2. QED
    BY <1>1, <2>1 DEF LoopInv, LoopTypes, RateRead
<1>5. OneFrameAhead'
  BY <1>1, <1>2, <1>3 DEF LoopInv, OneFrameAhead
<1>6. Scheduled'
  <2>1. (ticks + 1) * Fastest = ticks * Fastest + Fastest /\ ticks * Fastest \in Nat
    BY <1>2, <1>3
  <2>2. ticks * Fastest <= nextTick - Gate /\ ticks * Fastest <= clock - Gate
    BY DEF LoopInv, Scheduled
  <2>3. ticks * Fastest <= nextTick' - Gate
    BY <1>1, <1>2, <1>3, <2>1, <2>2
  <2>4. (ticks + 1) * Fastest <= nextTick' - Gate
    BY <1>1, <1>2, <1>3, <2>1, <2>2
  <2>5. QED
    BY <1>1, <2>2, <2>3, <2>4 DEF Scheduled
<1>7. Owed'
  <2>1. Lag' = Lag /\ Allowance' = Allowance
    BY <1>1, <1>2, <1>3 DEF Lag, Allowance
  <2>2. QED
    BY <1>1, <2>1 DEF LoopInv, Owed
<1>8. QED
  BY <1>4, <1>5, <1>6, <1>7

\* A tick: the clock has reached the schedule.
LEMMA TickDueInv ==
    LoopInv /\ TickDue => (LoopTypes /\ RateRead /\ OneFrameAhead /\ Scheduled /\ Owed)'
<1> SUFFICES ASSUME LoopInv, TickDue
             PROVE  (LoopTypes /\ RateRead /\ OneFrameAhead /\ Scheduled /\ Owed)'
  OBVIOUS
<1>1. /\ loopPc = "wait" /\ loopPc' \in {"sending", "resync"} /\ nextTick <= clock
      /\ ticks' = ticks + 1 /\ lead' = lead + frameTicks
      /\ slowest' = IF lead = 0 \/ slowest < frameTicks THEN frameTicks ELSE slowest
      /\ UNCHANGED <<clock, intervalNs, frameTicks, nextTick, stale>>
  <2>1. nextTick <= clock
    BY LoopNumbers DEF TickDue, WaitEnds
  <2>2. QED
    BY <2>1 DEF TickDue, schedule, RenderRead, vars
<1>2. /\ clock \in Nat /\ nextTick \in Nat /\ ticks \in Nat /\ lead \in Nat
      /\ ResyncFrames \in Nat /\ Gate \in Nat /\ Fastest \in Nat
      /\ frameTicks \in Nat \ {0} /\ slowest \in Nat \ {0} /\ slowest' \in Nat \ {0}
      /\ FrameTicks(Nanos) \in Nat /\ frameTicks <= FrameTicks(Nanos)
  BY <1>1, LoopNumbers
<1>3. (LoopTypes /\ RateRead)'
  <2>1. ticks' \in Nat /\ lead' \in Nat /\ slowest' \in {slowest, frameTicks}
    BY <1>1, <1>2
  <2>2. ticks' * FrameTicks(Nanos) = ticks * FrameTicks(Nanos) + FrameTicks(Nanos)
    BY <1>1, <1>2
  <2>3. lead' <= ticks' * FrameTicks(Nanos)
    <3>1. ticks * FrameTicks(Nanos) \in Nat /\ lead <= ticks * FrameTicks(Nanos)
      BY <1>2 DEF LoopInv, LoopTypes
    <3>2. QED
      BY <1>1, <1>2, <2>2, <3>1
  <2>4. QED
    BY <1>1, <2>1, <2>3 DEF LoopInv, LoopTypes, RateRead
<1>4. OneFrameAhead'
  BY <1>1, <1>2 DEF LoopInv, OneFrameAhead
<1>5. Scheduled'
  BY <1>1, <1>2 DEF LoopInv, Scheduled
<1>6. Owed'
  <2>1. Lag' = clock - nextTick /\ Lag = clock - nextTick + frameTicks
    BY <1>1, <1>2 DEF Lag
  <2>2. Allowance' \in Nat /\ Allowance' = ResyncFrames * slowest' + slowest'
    BY <1>1, <1>2 DEF Allowance
  <2>3. CASE lead = 0
    <3>1. slowest' = frameTicks /\ lead' = frameTicks
      BY <1>1, <1>2, <2>3
    <3>2. frameTicks * ResyncFrames \in Nat /\ ResyncFrames * slowest' = frameTicks * ResyncFrames
      BY <1>2, <3>1
    <3>3. lead' <= Allowance'
      BY <1>2, <2>2, <3>1, <3>2
    <3>4. lead' + Lag' <= Allowance' \/ Behind'
      BY <1>1, <1>2, <2>1, <2>2, <3>1, <3>2 DEF Behind
    <3>5. QED
      BY <1>1, <3>3, <3>4 DEF Owed
  <2>4. CASE lead # 0
    <3>1. lead + Lag <= Allowance
      BY <1>1, <2>4 DEF LoopInv, Owed
    <3>2. slowest <= slowest'
      <4>1. CASE slowest < frameTicks
        BY <1>1, <1>2, <4>1
      <4>2. CASE ~(slowest < frameTicks)
        BY <1>1, <1>2, <2>4, <4>2
      <4>3. QED
        BY <4>1, <4>2
    <3>3. Allowance <= Allowance'
      <4>1. ResyncFrames + 1 \in Nat
        BY <1>2
      <4>2. (ResyncFrames + 1) * slowest <= (ResyncFrames + 1) * slowest'
        BY <1>2, <3>2, <4>1, MultiplesKeepOrder
      <4>3. QED
        BY <4>2 DEF Allowance
    <3>4. lead' + Lag' <= Allowance' /\ lead' <= Allowance'
      BY <1>1, <1>2, <2>1, <2>2, <3>1, <3>3, LoopNumbers
    <3>5. QED
      BY <3>4 DEF Owed
  <2>5. QED
    BY <2>3, <2>4
<1>7. QED
  BY <1>3, <1>4, <1>5, <1>6

\* The rest of the begin frame changes nothing of the schedule.
LEMMA SendInv == LoopInv /\ Send => (LoopTypes /\ RateRead /\ OneFrameAhead /\ Scheduled /\ Owed)'
<1> SUFFICES ASSUME LoopInv, Send
             PROVE  (LoopTypes /\ RateRead /\ OneFrameAhead /\ Scheduled /\ Owed)'
  OBVIOUS
<1>1. /\ loopPc = "sending" /\ loopPc' = "resync"
      /\ UNCHANGED <<clock, intervalNs, frameTicks, nextTick, ticks, lead, slowest, stale>>
  BY DEF Send, RenderHeldBack, RenderStore, schedule, made
<1>2. QED
  BY <1>1 DEF LoopInv, LoopTypes, RateRead, OneFrameAhead, Scheduled, Owed, Lag, Allowance, Behind

\* A pass ends, with the schedule moved to the present if it lies too far behind.
LEMMA EndPassInv ==
    LoopInv /\ EndPass => (LoopTypes /\ RateRead /\ OneFrameAhead /\ Scheduled /\ Owed)'
<1> SUFFICES ASSUME LoopInv, EndPass
             PROVE  (LoopTypes /\ RateRead /\ OneFrameAhead /\ Scheduled /\ Owed)'
  OBVIOUS
<1>1. /\ loopPc = "resync" /\ loopPc' = "top"
      /\ nextTick' = IF Behind THEN clock ELSE nextTick
      /\ stale' = IF frameTicks = FrameTicks(intervalNs) THEN 0 ELSE stale + 1
      /\ UNCHANGED <<clock, intervalNs, frameTicks, ticks, lead, slowest>>
  BY DEF EndPass, vars, made
<1>2. /\ clock \in Nat /\ nextTick \in Nat /\ ticks \in Nat /\ lead \in Nat
      /\ ResyncFrames \in Nat /\ Gate \in Nat /\ frameTicks \in Nat \ {0} /\ Fastest \in Nat
  BY LoopNumbers
<1>3. nextTick <= clock
  BY <1>1 DEF LoopInv, OneFrameAhead
<1>4. nextTick' \in Nat /\ nextTick' <= clock /\ nextTick <= nextTick'
  BY <1>1, <1>2, <1>3
<1>5. (LoopTypes /\ RateRead)'
  <2>1. stale' \in 0 .. 1
    BY <1>1 DEF LoopInv, LoopTypes, RateRead
  <2>2. QED
    BY <1>1, <1>4, <2>1 DEF LoopInv, LoopTypes, RateRead
<1>6. OneFrameAhead'
  BY <1>1, <1>2, <1>4 DEF OneFrameAhead
<1>7. Scheduled'
  <2>1. ticks * Fastest \in Nat /\ ticks * Fastest <= nextTick - Gate
    BY <1>2 DEF LoopInv, Scheduled
  <2>2. QED
    BY <1>1, <1>2, <1>4, <2>1 DEF Scheduled
<1>8. Owed'
  <2>1. Allowance' = Allowance
    BY <1>1 DEF Allowance
  <2>2. CASE Behind
    <3>1. Lag' = 0
      BY <1>1, <1>2, <2>2 DEF Lag
    <3>2. QED
      BY <1>1, <1>2, <2>1, <3>1 DEF LoopInv, Owed
  <2>3. CASE ~Behind
    <3>1. Lag' = Lag
      BY <1>1, <1>2, <2>3 DEF Lag
    <3>2. QED
      BY <1>1, <2>1, <2>3, <3>1 DEF LoopInv, Owed
  <2>4. QED
    BY <2>2, <2>3
<1>9. QED
  BY <1>5, <1>6, <1>7, <1>8

\* A new rate, the pause flag and the nudges change nothing of the schedule.
LEMMA OtherStepInv ==
    LoopInv /\ (SetFrameRate \/ Others \/ UNCHANGED <<vars, loopVars>>) =>
        (LoopTypes /\ RateRead /\ OneFrameAhead /\ Scheduled /\ Owed)'
<1> SUFFICES ASSUME LoopInv, SetFrameRate \/ Others \/ UNCHANGED <<vars, loopVars>>
             PROVE  (LoopTypes /\ RateRead /\ OneFrameAhead /\ Scheduled /\ Owed)'
  OBVIOUS
<1>1. UNCHANGED <<clock, loopPc, frameTicks, nextTick, ticks, lead, slowest>>
  BY DEF SetFrameRate, Others, SetPaused, NudgeRead, NudgeLoad, NudgeSend, vars, loopVars, loop,
         schedule, made
<1>2. intervalNs' \in Rates /\ (stale' = 0 \/ UNCHANGED <<stale, intervalNs>>)
  <2>1. CASE SetFrameRate
    BY <2>1 DEF SetFrameRate, Rates
  <2>2. CASE Others \/ UNCHANGED <<vars, loopVars>>
    BY <2>2 DEF Others, loopVars, loop, LoopInv, LoopTypes
  <2>3. QED
    BY <2>1, <2>2
<1>3. QED
  BY <1>1, <1>2 DEF LoopInv, LoopTypes, RateRead, OneFrameAhead, Scheduled, Owed, Lag, Allowance,
                    Behind

(* The inductive invariant of the gate and of the schedule.                *)
THEOREM LoopInvariant == LoopSpec => []LoopInv
<1>1. LoopInit => LoopInv
  BY LoopInitInv
<1>2. LoopInv /\ [LoopNext]_<<vars, loopVars>> => LoopInv'
  <2> SUFFICES ASSUME LoopInv, [LoopNext]_<<vars, loopVars>> PROVE LoopInv'
    OBVIOUS
  <2>1. GateInv'
    <3>1. [Next]_vars
      BY LoopStepIsGateStep, Zenon
    <3>2. QED
      BY <3>1, GateStepInv DEF LoopInv
  <2>2. (LoopTypes /\ RateRead /\ OneFrameAhead /\ Scheduled /\ Owed)'
    BY TimeInv, BeginPassInv, TickDueInv, SendInv, EndPassInv, OtherStepInv, Zenon DEF LoopNext
  <2>3. QED
    BY <2>1, <2>2 DEF LoopInv
<1>3. QED
  BY <1>1, <1>2, PTL DEF LoopSpec

-----------------------------------------------------------------------------
(* Types, and the ranges the model's bounds imply: the schedule is never   *)
(* more than a frame ahead of the clock, nor the ticks ahead of the time.  *)
THEOREM LoopTypeCorrect == LoopSpec => []LoopTypeOK
<1>1. LoopInv => LoopTypeOK
  <2> SUFFICES ASSUME LoopInv PROVE LoopTypeOK
    OBVIOUS
  <2>1. /\ TypeOK /\ clock \in Nat /\ clock <= MaxTime /\ MaxTime \in Nat
        /\ Gate \in Nat /\ nextTick \in Nat /\ ticks \in Nat /\ Fastest \in Nat \ {0}
        /\ frameTicks \in Nat /\ frameTicks <= FrameTicks(Nanos) /\ FrameTicks(Nanos) \in Nat
    BY NudgeGateAssumption, FramesBounded
       DEF NudgeGateAssumption, LoopInv, LoopTypes, GateInv, TypeOK
  <2>2. nextTick <= MaxTime + FrameTicks(Nanos)
    BY <2>1 DEF LoopInv, OneFrameAhead
  <2>3. ticks <= MaxTime
    <3>1. ticks * Fastest \in Int /\ ticks <= ticks * Fastest
      BY <2>1, MultiplePositive
    <3>2. ticks * Fastest <= clock - Gate
      BY DEF LoopInv, Scheduled
    <3>3. QED
      BY <2>1, <3>1, <3>2
  <2>4. lead <= MaxTime * FrameTicks(Nanos)
    <3>1. ticks * FrameTicks(Nanos) <= MaxTime * FrameTicks(Nanos)
      BY <2>1, <2>3
    <3>2. /\ ticks * FrameTicks(Nanos) \in Nat /\ MaxTime * FrameTicks(Nanos) \in Nat
          /\ lead \in Nat /\ lead <= ticks * FrameTicks(Nanos)
      BY <2>1 DEF LoopInv, LoopTypes
    <3>3. QED
      BY <3>1, <3>2
  <2>5. /\ nextTick \in 0 .. MaxTime + FrameTicks(Nanos) /\ ticks \in 0 .. MaxTime
        /\ lead \in 0 .. MaxTime * FrameTicks(Nanos)
    <3>1. lead \in Nat /\ MaxTime * FrameTicks(Nanos) \in Nat
      BY <2>1 DEF LoopInv, LoopTypes
    <3>2. QED
      BY <2>1, <2>2, <2>3, <2>4, <3>1
  <2>6. QED
    BY <2>1, <2>5 DEF LoopInv, LoopTypes, LoopTypeOK
<1>2. QED
  BY <1>1, LoopInvariant, PTL

(* For every rate and any stall, over any stretch of time the frames       *)
(* ticked exceed the time gone by by no more than ResyncFrames + 1 frames  *)
(* of the slowest rate run at meanwhile: what the loop can still make up   *)
(* and what it has made up share that allowance, and the check at the end  *)
(* of a pass gives up the rest.                                            *)
THEOREM BurstsBounded == LoopSpec => []BurstBounded
<1>1. LoopInv => BurstBounded
  BY DEF LoopInv, Owed, Allowance, BurstBounded
<1>2. QED
  BY <1>1, LoopInvariant, PTL

(* For every rate and any stall, the thread has ticked no more often than  *)
(* the fastest rate allows in the time gone by.                            *)
THEOREM NeverAhead == LoopSpec => []NeverAheadOfTime
<1>1. LoopInv => NeverAheadOfTime
  <2> SUFFICES ASSUME LoopInv PROVE NeverAheadOfTime
    OBVIOUS
  <2>1. /\ clock \in Nat /\ nextTick \in Nat /\ ticks \in Nat /\ Gate \in Nat /\ Fastest \in Nat
        /\ frameTicks \in Nat
    BY NudgeGateAssumption, FramesBounded
       DEF NudgeGateAssumption, LoopInv, LoopTypes, GateInv, TypeOK
  <2>2. ticks * Fastest <= clock - Gate
    BY DEF LoopInv, Scheduled
  <2>3. QED
    BY <2>1, <2>2 DEF NeverAheadOfTime
<1>2. QED
  BY <1>1, LoopInvariant, PTL

(* For every rate and however often it is stored, no pass but the one      *)
(* under way ends at an older rate.                                        *)
THEOREM RateEffective == LoopSpec => []RateTakesEffect
<1>1. LoopInv => RateTakesEffect
  BY DEF LoopInv, LoopTypes, RateTakesEffect
<1>2. QED
  BY <1>1, LoopInvariant, PTL

(* Under the cadence as under any render thread, two nudges with no store  *)
(* between them are a gate apart.                                          *)
THEOREM GateHoldsUnderCadence == LoopSpec => []QuietGate
<1>1. LoopInv => QuietGate
  BY DEF LoopInv, GateInv
<1>2. QED
  BY <1>1, LoopInvariant, PTL
=============================================================================
