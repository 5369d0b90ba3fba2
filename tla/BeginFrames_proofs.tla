------------------------- MODULE BeginFrames_proofs -------------------------
(***************************************************************************)
(* Proofs about the begin-frame backpressure and the pause flag, for every *)
(* set of caps a consumer may request and every bound on the behaviours.   *)
(***************************************************************************)
EXTENDS BeginFrames, TLAPS

-----------------------------------------------------------------------------
(* Type correctness.                                                       *)

LEMMA InitType == Init => TypeOK
<1>1. Init => paused \in BOOLEAN
  BY DEF Init
<1>2. 0 \in Nat /\ InitialCap \in Nat \ {0}
  BY DEF InitialCap
<1> QED BY <1>1, <1>2 DEF Init, TypeOK

LEMMA StepType == TypeOK /\ [Next]_vars => TypeOK'
<1> SUFFICES ASSUME TypeOK, [Next]_vars PROVE TypeOK'
  OBVIOUS
<1> USE BeginFramesAssumption DEF TypeOK, shared, renderVars, controlVars, cef
<1>1. CASE Render
  <2>1. CASE RenderTick
    BY <2>1 DEF RenderTick
  <2>2. CASE RenderLoadSent
    BY <2>2 DEF RenderLoadSent
  <2>3. CASE RenderLoadDone
    BY <2>3 DEF RenderLoadDone
  <2>4. CASE RenderDecide
    BY <2>4 DEF RenderDecide
  <2>5. CASE RenderSend
    BY <2>5 DEF RenderSend, SincePause
  <2>6. CASE RenderCount
    BY <2>6 DEF RenderCount
  <2> QED BY <1>1, <2>1, <2>2, <2>3, <2>4, <2>5, <2>6 DEF Render
<1>2. CASE Nudge
  <2>1. CASE NudgeCheck
    BY <2>1 DEF NudgeCheck
  <2>2. CASE NudgeSend
    BY <2>2 DEF NudgeSend, SincePause
  <2> QED BY <1>2, <2>1, <2>2 DEF Nudge
<1>3. CASE Answer \/ SecondPaintPublished
  BY <1>3 DEF Answer, PaintPublished, SecondPaintPublished, PaintFails, NoDamage
<1>4. CASE SetMaxInFlightBeginFrames
  <2>1. ASSUME NEW requested \in RequestedCaps, StoreCap(requested) PROVE TypeOK'
    <3>1. AppliedCap(requested) \in Nat \ {0}
      BY DEF AppliedCap
    <3> QED BY <2>1, <3>1 DEF StoreCap
  <2>2. CASE LoadSentNow
    BY <2>2 DEF LoadSentNow
  <2>3. CASE StoreDone
    BY <2>3 DEF StoreDone
  <2> QED BY <1>4, <2>1, <2>2, <2>3 DEF SetMaxInFlightBeginFrames
<1>5. ASSUME NEW v \in BOOLEAN, SetPaused(v) PROVE TypeOK'
  BY <1>5 DEF SetPaused
<1>6. CASE UNCHANGED vars
  BY <1>6 DEF vars
<1> QED BY <1>1, <1>2, <1>3, <1>4, <1>5, <1>6 DEF Next

(* Every variable keeps its type; in particular the cap in force is never  *)
(* zero, which would switch the backpressure off.                          *)
THEOREM TypeCorrect == Spec => []TypeOK
BY InitType, StepType, PTL DEF Spec

-----------------------------------------------------------------------------
(* The debt.  Only the render thread adds to the sent count, so its local  *)
(* copy stays exact; the completed count it loaded can only be behind.     *)

RenderHolds ==
    renderPc \in {"loadedSent", "loadedDone", "sending", "counting"} => renderSent = sent

\* The control thread knows how far its sent count has become stale.
ControlHolds ==
    controlPc = "sentLoaded" => sent = controlSent + late

Undisturbed == controlPc = "idle" /\ late = 0

DebtHolds ==
    Undisturbed =>
      /\ sent - done <= cap
      /\ renderPc \in {"sending", "counting"} => sent - done < cap
      /\ renderPc = "loadedDone" => done >= renderDone \/ done >= sent

DebtInv == TypeOK /\ RenderHolds /\ ControlHolds /\ DebtHolds

LEMMA InitDebt == Init => DebtInv
BY InitType DEF Init, DebtInv, RenderHolds, ControlHolds, DebtHolds, InitialCap

LEMMA StepDebt == DebtInv /\ [Next]_vars => DebtInv'
<1> SUFFICES ASSUME DebtInv, [Next]_vars PROVE DebtInv'
  OBVIOUS
<1>0. TypeOK'
  BY StepType DEF DebtInv
<1> USE DEF DebtInv, RenderHolds, ControlHolds, DebtHolds, Undisturbed, TypeOK,
        shared, renderVars, controlVars, cef
<1>1. CASE Render
  <2>1. CASE RenderTick
    BY <1>0, <2>1 DEF RenderTick
  <2>2. CASE RenderLoadSent
    BY <1>0, <2>2 DEF RenderLoadSent
  <2>3. CASE RenderLoadDone
    BY <1>0, <2>3 DEF RenderLoadDone
  <2>4. CASE RenderDecide
    <3>1. renderPc' = "sending" =>
            \/ renderSent <= renderDone
            \/ renderSent - renderDone < cap
      BY <2>4 DEF RenderDecide, Blocked, InFlight
    <3> QED BY <1>0, <2>4, <3>1 DEF RenderDecide
  <2>5. CASE RenderSend
    BY <1>0, <2>5 DEF RenderSend
  <2>6. CASE RenderCount
    BY <1>0, <2>6 DEF RenderCount
  <2> QED BY <1>1, <2>1, <2>2, <2>3, <2>4, <2>5, <2>6 DEF Render
<1>2. CASE Nudge
  BY <1>0, <1>2 DEF Nudge, NudgeCheck, NudgeSend
<1>3. CASE Answer \/ SecondPaintPublished
  <2>1. CASE PaintPublished
    BY <1>0, <2>1 DEF PaintPublished
  <2>2. CASE SecondPaintPublished
    BY <1>0, <2>2 DEF SecondPaintPublished
  <2>3. CASE PaintFails \/ NoDamage
    BY <1>0, <2>3 DEF PaintFails, NoDamage
  <2> QED BY <1>3, <2>1, <2>2, <2>3 DEF Answer
<1>4. CASE SetMaxInFlightBeginFrames
  <2>1. ASSUME NEW requested \in RequestedCaps, StoreCap(requested) PROVE DebtInv'
    BY <1>0, <2>1 DEF StoreCap
  <2>2. CASE LoadSentNow
    BY <1>0, <2>2 DEF LoadSentNow
  <2>3. CASE StoreDone
    BY <1>0, <2>3 DEF StoreDone
  <2> QED BY <1>4, <2>1, <2>2, <2>3 DEF SetMaxInFlightBeginFrames
<1>5. ASSUME NEW v \in BOOLEAN, SetPaused(v) PROVE DebtInv'
  BY <1>0, <1>5 DEF SetPaused
<1>6. CASE UNCHANGED vars
  BY <1>6 DEF vars
<1> QED BY <1>1, <1>2, <1>3, <1>4, <1>5, <1>6 DEF Next

(* The counted debt never exceeds the cap in force outside a reset that    *)
(* raced with the render thread, for every cap.                            *)
THEOREM DebtBounded == Spec => []CountedDebtWithinCap
<1>1. DebtInv => CountedDebtWithinCap
  BY DEF DebtInv, DebtHolds, Undisturbed, TypeOK, CountedDebtWithinCap, InFlight
<1> QED BY <1>1, InitDebt, StepDebt, PTL DEF Spec

-----------------------------------------------------------------------------
(* The pause flag.  Each thread that has passed its check of the flag      *)
(* carries at most one begin frame it will still send.                     *)

RenderCarries == IF renderPc \in {"admitted", "loadedSent", "loadedDone", "sending"} THEN 1 ELSE 0
InputCarries == IF inputPc = "nudging" THEN 1 ELSE 0

PauseInv ==
    /\ TypeOK
    /\ paused => sincePause + RenderCarries + InputCarries <= 2

LEMMA StepPause == PauseInv /\ [Next]_vars => PauseInv'
<1> SUFFICES ASSUME PauseInv, [Next]_vars PROVE PauseInv'
  OBVIOUS
<1>0. TypeOK'
  BY StepType DEF PauseInv
<1> USE DEF PauseInv, RenderCarries, InputCarries, TypeOK, shared, renderVars, controlVars, cef
<1>1. CASE Render
  <2>1. CASE RenderTick \/ RenderLoadSent \/ RenderLoadDone
    BY <1>0, <2>1 DEF RenderTick, RenderLoadSent, RenderLoadDone
  <2>2. CASE RenderDecide
    BY <1>0, <2>2 DEF RenderDecide
  <2>3. CASE RenderSend
    BY <1>0, <2>3 DEF RenderSend, SincePause
  <2>4. CASE RenderCount
    BY <1>0, <2>4 DEF RenderCount
  <2> QED BY <1>1, <2>1, <2>2, <2>3, <2>4 DEF Render
<1>2. CASE Nudge
  <2>1. CASE NudgeCheck
    BY <1>0, <2>1 DEF NudgeCheck
  <2>2. CASE NudgeSend
    BY <1>0, <2>2 DEF NudgeSend, SincePause
  <2> QED BY <1>2, <2>1, <2>2 DEF Nudge
<1>3. CASE Answer \/ SecondPaintPublished
  <2>1. CASE PaintPublished
    BY <1>0, <2>1 DEF PaintPublished
  <2>2. CASE SecondPaintPublished
    BY <1>0, <2>2 DEF SecondPaintPublished
  <2>3. CASE PaintFails \/ NoDamage
    BY <1>0, <2>3 DEF PaintFails, NoDamage
  <2> QED BY <1>3, <2>1, <2>2, <2>3 DEF Answer
<1>4. CASE SetMaxInFlightBeginFrames
  BY <1>0, <1>4 DEF SetMaxInFlightBeginFrames, StoreCap, LoadSentNow, StoreDone
<1>5. ASSUME NEW v \in BOOLEAN, SetPaused(v) PROVE PauseInv'
  BY <1>0, <1>5 DEF SetPaused
<1>6. CASE UNCHANGED vars
  BY <1>6 DEF vars
<1> QED BY <1>1, <1>2, <1>3, <1>4, <1>5, <1>6 DEF Next

(* After SetPaused(true) at most two more begin frames reach CEF, one from *)
(* each of the threads that send them.                                     *)
THEOREM PauseBounded == Spec => []PauseSettles
<1>1. Init => PauseInv
  BY InitType DEF Init, PauseInv
<1>2. PauseInv => PauseSettles
  BY DEF PauseInv, PauseSettles, RenderCarries, InputCarries, TypeOK
<1> QED BY <1>1, <1>2, StepPause, PTL DEF Spec
=============================================================================
