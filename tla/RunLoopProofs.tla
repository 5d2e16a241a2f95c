---------------------------- MODULE RunLoopProofs ----------------------------
(***************************************************************************)
(* Proofs about RunLoop, for every interval and every set of contents: each *)
(* step of the loop is a step of SaveFile or leaves it alone, so that what  *)
(* SaveFileProofs shows of the save file holds of the running program; and  *)
(* the loop's own bound on unsaved progress and its exit status.            *)
(***************************************************************************)
EXTENDS RunLoop, SaveFileProofs

LEMMA FramesFacts ==
  /\ 0 \in Frames /\ \A n \in Frames : Later(n) \in Frames
  /\ 0 \in Ages /\ \A n \in Ages : Later(n) \in Ages
  BY IntervalAssumption DEF Frames, Ages, Later

\* The age of a write never runs ahead of the last flush's, unless the write was made
\* while the frame counter was behind that flush.
AgesOrdered == early \/ waiting = 0 \/ waiting <= elapsed

\* A write whose flush is due is not carried into another round of the loop.
NoneDueAtTop ==
  (at \in {"top", "idle"} /\ dirty) =>
    IF early THEN elapsed \in 0..Interval - 1 ELSE waiting < Interval

WaitingBounded == AgesOrdered /\ NoneDueAtTop

\* A session that returned 0 had a clean chip at its end.
StatusIsCurrent ==
  /\ status = "ok" => at \in {"ending", "down"}
  /\ ExitTellsTheTruth

RunInv == RunTypeOK /\ WaitingBounded /\ StatusIsCurrent

-----------------------------------------------------------------------------
\* The loop drives SaveFile.
LEMMA RunStepIsSaveStep == [RunNext]_runVars => [Next]_vars
<1> SUFFICES ASSUME [RunNext]_runVars PROVE [Next]_vars
  OBVIOUS
<1>1. ASSUME NEW c \in Contents, GuestWrites(c) PROVE [Next]_vars
  BY <1>1 DEF GuestWrites, Next
<1>2. CASE VBlank \/ StepReturns \/ NoWindow \/ Top \/ Check
  BY <1>2 DEF VBlank, StepReturns, NoWindow, Top, Check
<1>3. CASE Pump \/ SlotEnds
  BY <1>3 DEF Pump, Hotkey, SlotEnds, Next
<1>4. CASE FlushInLoop \/ FlushAtExit
  BY <1>4 DEF FlushInLoop, FlushAtExit, Next
<1>5. CASE Return \/ Kill
  BY <1>5 DEF Return, Kill, Ends, Next
<1>6. CASE NextSession
  BY <1>6 DEF NextSession, Next
<1>7. CASE UNCHANGED runVars
  BY <1>7 DEF runVars
<1>8. QED
  BY <1>1, <1>2, <1>3, <1>4, <1>5, <1>6, <1>7 DEF RunNext, LoopStep

\* RunLoop implements SaveFile: flush_save is started, and the chip changed, only
\* where SaveFile allows it.
THEOREM RunImplementsSaveFile == RunSpec => Spec
<1>1. RunInit => Init
  BY DEF RunInit
<1>2. QED
  BY <1>1, RunStepIsSaveStep, PTL DEF RunSpec, Spec

-----------------------------------------------------------------------------
\* The types of the loop's own variables.
LEMMA RunTypeStep == RunTypeOK /\ [RunNext]_runVars => RunTypeOK'
<1> SUFFICES ASSUME RunTypeOK, [RunNext]_runVars PROVE RunTypeOK'
  OBVIOUS
<1>0. TypeOK'
  BY TypeStep, RunStepIsSaveStep DEF RunTypeOK
<1> USE FramesFacts DEF RunTypeOK, Place, Mode, loopVars, ageVars, hostVars
<1>1. ASSUME NEW c \in Contents, GuestWrites(c) PROVE RunTypeOK'
  BY <1>0, <1>1 DEF GuestWrites
<1>2. CASE VBlank
  BY <1>0, <1>2 DEF VBlank
<1>3. CASE StepReturns \/ NoWindow \/ Top \/ Check
  BY <1>0, <1>3 DEF StepReturns, NoWindow, Top, Check
<1>4. CASE Pump
  <2>1. at' \in Place
    BY <1>4 DEF Pump, AfterPump
  <2>2. elapsed' \in Ages /\ waiting' \in Frames /\ early' \in BOOLEAN
    BY <1>4 DEF Pump, Hotkey
  <2>3. paused' \in BOOLEAN /\ quit' \in BOOLEAN
    BY <1>4 DEF Pump
  <2>4. mode' \in Mode /\ status' \in {"none", "ok", "failed"}
    BY <1>4 DEF Pump
  <2>5. QED
    BY <1>0, <2>1, <2>2, <2>3, <2>4
<1>5. CASE SlotEnds
  BY <1>0, <1>5 DEF SlotEnds
<1>6. CASE FlushInLoop \/ FlushAtExit
  BY <1>0, <1>6 DEF FlushInLoop, FlushAtExit
<1>7. CASE Return \/ Kill
  BY <1>0, <1>7 DEF Return, Kill, Ends
<1>8. CASE NextSession
  BY <1>0, <1>8 DEF NextSession, Start, Windowed
<1>9. CASE UNCHANGED runVars
  BY <1>0, <1>9 DEF runVars
<1>10. QED
  BY <1>1, <1>2, <1>3, <1>4, <1>5, <1>6, <1>7, <1>8, <1>9 DEF RunNext, LoopStep

LEMMA RunInitInv == RunInit => RunInv
<1> SUFFICES ASSUME RunInit PROVE RunInv
  OBVIOUS
<1>1. TypeOK
  BY TypeInit DEF RunInit
<1>2. RunTypeOK
  BY <1>1, FramesFacts DEF RunInit, RunTypeOK, Place, Mode, Windowed
<1>3. WaitingBounded
  BY IntervalAssumption DEF RunInit, WaitingBounded, AgesOrdered, NoneDueAtTop
<1>4. StatusIsCurrent
  BY DEF RunInit, StatusIsCurrent, ExitTellsTheTruth
<1>5. QED
  BY <1>2, <1>3, <1>4 DEF RunInv

\* No step lets a change wait past its interval at the top of the loop.
LEMMA WaitingStep ==
  ASSUME RunTypeOK, WaitingBounded, [RunNext]_runVars
  PROVE  WaitingBounded'
<1> USE IntervalAssumption
    DEF RunTypeOK, Frames, Ages, WaitingBounded, AgesOrdered, NoneDueAtTop, Due,
        loopVars, ageVars, hostVars
<1>1. ASSUME NEW c \in Contents, GuestWrites(c) PROVE WaitingBounded'
  BY <1>1 DEF GuestWrites
<1>2. CASE VBlank
  <2>1. AgesOrdered'
    <3>1. CASE early' \/ waiting' = 0
      BY <3>1
    <3>2. CASE ~early' /\ waiting' # 0
      <4>1. dirty /\ ~early /\ ~(elapsed < 0)
        BY <1>2, <3>2 DEF VBlank
      <4>2. elapsed \in 0..Interval /\ waiting \in 0..Interval /\ waiting <= elapsed
        BY <4>1
      <4>3. elapsed' = Later(elapsed) /\ waiting' = Later(waiting)
        BY <1>2, <4>1 DEF VBlank
      <4>4. QED
        BY <4>2, <4>3 DEF Later
    <3>3. QED
      BY <3>1, <3>2
  <2>2. NoneDueAtTop'
    BY <1>2 DEF VBlank
  <2>3. QED
    BY <2>1, <2>2
<1>3. CASE StepReturns \/ NoWindow \/ Top \/ Check
  BY <1>3 DEF StepReturns, NoWindow, Top, Check, vars
<1>4. CASE Pump
  BY <1>4 DEF Pump, Hotkey, AfterPump, vars, SlotOpen, chipVars, LoadState
<1>5. CASE SlotEnds
  BY <1>5 DEF SlotEnds, SlotWritten, chipVars
<1>6. CASE FlushInLoop
  BY <1>6 DEF FlushInLoop
<1>7. CASE FlushAtExit
  BY <1>7 DEF FlushAtExit
<1>8. CASE Return \/ Kill
  BY <1>8 DEF Return, Kill, Ends
<1>9. CASE NextSession
  BY <1>9 DEF NextSession, Start
<1>10. CASE UNCHANGED runVars
  BY <1>10 DEF runVars, vars
<1>11. QED
  BY <1>1, <1>2, <1>3, <1>4, <1>5, <1>6, <1>7, <1>8, <1>9, <1>10
     DEF RunNext, LoopStep

\* A status of 0 is given to a clean chip only, and nothing changes it afterwards.
LEMMA StatusStep ==
  ASSUME SaveInv, SaveInv', StatusIsCurrent, [RunNext]_runVars
  PROVE  StatusIsCurrent'
<1> USE DEF StatusIsCurrent, ExitTellsTheTruth, loopVars, ageVars, hostVars
<1>1. ASSUME NEW c \in Contents, GuestWrites(c) PROVE StatusIsCurrent'
  BY <1>1 DEF GuestWrites
<1>2. CASE VBlank \/ StepReturns \/ NoWindow \/ Top \/ Check
  BY <1>2 DEF VBlank, StepReturns, NoWindow, Top, Check, vars
<1>3. CASE Pump
  BY <1>3 DEF Pump
<1>4. CASE SlotEnds
  BY <1>4 DEF SlotEnds, SlotWritten, chipVars, diskVars, ghostVars
<1>5. CASE FlushInLoop
  BY <1>5 DEF FlushInLoop
<1>6. CASE FlushAtExit
  BY <1>6 DEF FlushAtExit, SaveInv, CleanSaved
<1>7. CASE Return
  BY <1>7 DEF Return, Ends, Crash, chipVars, diskVars, ghostVars
<1>8. CASE Kill
  BY <1>8 DEF Kill
<1>9. CASE NextSession
  BY <1>9 DEF NextSession, Start
<1>10. CASE UNCHANGED runVars
  BY <1>10 DEF runVars, vars
<1>11. QED
  BY <1>1, <1>2, <1>3, <1>4, <1>5, <1>6, <1>7, <1>8, <1>9, <1>10
     DEF RunNext, LoopStep

-----------------------------------------------------------------------------
\* RunTypeOK: the loop's counters stay in their interval and every place is one of
\* run_game's.
THEOREM RunTypeCorrect == RunSpec => []RunTypeOK
<1>1. RunInit => RunTypeOK
  BY RunInitInv DEF RunInv
<1>2. QED
  BY <1>1, RunTypeStep, PTL DEF RunSpec

\* Whenever the loop comes round, no change of the chip has waited a whole interval
\* for a flush to be tried, except one made while the frame counter was behind the
\* last flush: that one waits no interval from where the counter has caught up.
THEOREM AutosaveBound == RunSpec => []AtMostAnIntervalAtRisk
<1>1. RunInit => WaitingBounded
  BY RunInitInv DEF RunInv
<1>2. RunTypeOK /\ WaitingBounded /\ [RunNext]_runVars => WaitingBounded'
  BY WaitingStep
<1>3. WaitingBounded => AtMostAnIntervalAtRisk
  BY DEF WaitingBounded, NoneDueAtTop, AtMostAnIntervalAtRisk
<1>4. QED
  BY <1>1, <1>2, <1>3, RunTypeCorrect, PTL DEF RunSpec

\* An exit status of 0 is true: what the chip held is in the save file.
THEOREM ExitStatusIsTrue ==
  ASSUME FailuresReported PROVE RunSpec => []ExitTellsTheTruth
<1>1. RunSpec => []SaveInv
  BY RunImplementsSaveFile, SaveInvariant, PTL
<1>2. RunInit => StatusIsCurrent
  BY RunInitInv DEF RunInv
<1>3. SaveInv /\ SaveInv' /\ StatusIsCurrent /\ [RunNext]_runVars => StatusIsCurrent'
  BY StatusStep
<1>4. StatusIsCurrent => ExitTellsTheTruth
  BY DEF StatusIsCurrent
<1>5. QED
  BY <1>1, <1>2, <1>3, <1>4, PTL DEF RunSpec

\* The running program keeps the save file whole, and the chip, and the last save.
THEOREM RunKeepsTheSave ==
  ASSUME FailuresReported
  PROVE  RunSpec => [](NeverTorn /\ NoCompletedSaveIsLost /\ CleanIsOnDisk)
  BY RunImplementsSaveFile, SaveInvariant, SaveInvImplies, PTL
=============================================================================
