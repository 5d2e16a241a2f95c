-------------------------- MODULE RunControlProofs --------------------------
(***************************************************************************)
(* Proofs about RunControl: what the answer to a step and the grant of a    *)
(* savestate mean, however the two threads interleave and whichever frames  *)
(* fail or hang.                                                            *)
(***************************************************************************)
EXTENDS RunControl, TLAPS

\* A frame is in progress, or over and not reported yet, for a step command.
StepFrame == gpc \in {"frame", "ran"} /\ st = "step"

\* A step request is stored only while its command waits, and nobody else's
\* request can be stored then; a command granted the parked core keeps it paused.
Requests ==
  /\ state = "step" => spc = "stepping"
  /\ state = "running" => spc \notin {"stepping", "parking", "mutating", "joining", "done"}
  /\ state = "quit" => spc \in {"joining", "done"}
  /\ gpc = "exited" => spc \in {"joining", "done"}

\* The life of a step command: before its frame, in its frame, answered; or its
\* request was overwritten and no frame was run for it.
StepPhases ==
  /\ StepFrame => spc = "stepping" /\ state = "step" /\ stepFrames = 1 /\ ~stepDone
  /\ spc = "stepping" /\ state = "step" /\ ~StepFrame => stepFrames = 0 /\ ~stepDone
  /\ spc = "stepping" /\ stepDone =>
       /\ state = "paused" /\ gpc \in {"top", "waiting"}
       /\ stepFrames = 1 /\ stepOk = frameOk

RunControlInv == TypeOK /\ Requests /\ StepPhases

LEMMA LeaveStep ==
  ASSUME RunControlInv, gpc \in {"top", "waiting"}, Leave,
         UNCHANGED <<state, stepDone, stepOk, frameOk, serverVars>>, parked' \in BOOLEAN
  PROVE  RunControlInv'
<1>1. ~StepFrame
  BY DEF StepFrame
<1>2. CASE state \in {"paused", "quit"}
  <2>1. gpc' \in {"top", "exited"} /\ hung' = hung /\ stepFrames' = stepFrames /\ st' = state
    BY <1>2 DEF Leave
  <2>2. gpc' = "exited" => state = "quit"
    BY <1>2 DEF Leave
  <2>3. TypeOK'
    BY <2>1 DEF RunControlInv, TypeOK, GamePC, serverVars
  <2>4. Requests'
    BY <2>1, <2>2 DEF RunControlInv, Requests, serverVars
  <2>5. StepPhases'
    BY <1>1, <1>2, <2>1, <2>2 DEF RunControlInv, Requests, StepPhases, StepFrame, serverVars
  <2>6. QED
    BY <2>3, <2>4, <2>5 DEF RunControlInv
<1>3. CASE state = "step"
  <2>1. spc = "stepping" /\ stepFrames = 0 /\ ~stepDone
    BY <1>1, <1>3 DEF RunControlInv, Requests, StepPhases
  <2>2. stepFrames' = stepFrames + 1
    BY <1>3 DEF Leave
  <2>3. stepFrames' = 1
    BY <2>1, <2>2
  <2>4. gpc' = "frame" /\ hung' \in BOOLEAN /\ st' = "step"
    BY <1>3 DEF Leave
  <2>5. stepFrames' \in 0..1
    BY <2>3
  <2>6. TypeOK'
    BY <1>3, <2>4, <2>5 DEF RunControlInv, TypeOK, GamePC, RunState, serverVars
  <2>7. Requests'
    BY <2>1, <2>4 DEF RunControlInv, Requests, serverVars
  <2>8. StepPhases'
    BY <1>3, <2>1, <2>3, <2>4 DEF StepPhases, StepFrame, serverVars
  <2>9. QED
    BY <2>6, <2>7, <2>8 DEF RunControlInv
<1>4. CASE state = "running"
  <2>1. gpc' = "frame" /\ hung' \in BOOLEAN /\ st' = "running" /\ stepFrames' = stepFrames
    BY <1>4 DEF Leave
  <2>2. TypeOK'
    BY <1>4, <2>1 DEF RunControlInv, TypeOK, GamePC, RunState, serverVars
  <2>3. Requests'
    BY <2>1 DEF RunControlInv, Requests, serverVars
  <2>4. StepPhases'
    BY <1>4, <2>1 DEF RunControlInv, Requests, StepPhases, StepFrame, serverVars
  <2>5. QED
    BY <2>2, <2>3, <2>4 DEF RunControlInv
<1>5. QED
  BY <1>2, <1>3, <1>4 DEF RunControlInv, TypeOK, RunState

LEMMA GameStep == RunControlInv /\ GameNext => RunControlInv'
<1> SUFFICES ASSUME RunControlInv, GameNext PROVE RunControlInv'
  OBVIOUS
<1>1. CASE LoopTop
  <2>1. parked' \in BOOLEAN
    BY <1>1 DEF LoopTop, ReportParked
  <2>2. CASE state = "paused"
    <3>1. gpc' = "waiting" /\ st' = st /\ hung' = hung /\ stepFrames' = stepFrames
      BY <1>1, <2>2 DEF LoopTop
    <3>2. gpc = "top" /\ UNCHANGED <<state, stepDone, stepOk, frameOk, serverVars>>
      BY <1>1 DEF LoopTop
    <3>3. TypeOK' /\ Requests'
      BY <2>1, <3>1, <3>2 DEF RunControlInv, TypeOK, GamePC, Requests, serverVars
    <3>4. StepPhases'
      BY <2>2, <3>1, <3>2 DEF RunControlInv, StepPhases, StepFrame, serverVars
    <3>5. QED
      BY <3>3, <3>4 DEF RunControlInv
  <2>3. CASE state # "paused"
    BY <1>1, <2>1, <2>3, LeaveStep DEF LoopTop
  <2>4. QED
    BY <2>2, <2>3
<1>2. CASE WaitEnds
  <2>1. parked' \in BOOLEAN
    BY <1>2 DEF WaitEnds, ctlVars, RunControlInv, TypeOK
  <2>2. QED
    BY <1>2, <2>1, LeaveStep DEF WaitEnds, ctlVars
<1>3. CASE FrameReturns
  <2>1. gpc = "frame" /\ gpc' = "ran" /\ frameOk' \in BOOLEAN
        /\ UNCHANGED <<ctlVars, st, hung, serverVars, stepFrames>>
    BY <1>3 DEF FrameReturns
  <2>2. TypeOK' /\ Requests'
    BY <2>1 DEF RunControlInv, TypeOK, GamePC, Requests, serverVars, ctlVars
  <2>3. StepPhases'
    BY <2>1 DEF RunControlInv, StepPhases, StepFrame, serverVars, ctlVars
  <2>4. QED
    BY <2>2, <2>3 DEF RunControlInv
<1>4. CASE Report
  <2>1. gpc = "ran" /\ gpc' = "top" /\ UNCHANGED <<parked, st, frameOk, hung, serverVars, stepFrames>>
    BY <1>4 DEF Report
  <2>2. CASE st = "step"
    <3>1. stepOk' = frameOk /\ stepDone' = TRUE /\ state' = "paused"
      BY <1>4, <2>2 DEF Report
    <3>2. spc = "stepping" /\ stepFrames = 1
      BY <2>1, <2>2 DEF RunControlInv, StepPhases, StepFrame
    <3>3. TypeOK' /\ Requests'
      BY <2>1, <3>1, <3>2 DEF RunControlInv, TypeOK, GamePC, RunState, Requests, serverVars
    <3>4. StepPhases'
      BY <2>1, <3>1, <3>2 DEF StepPhases, StepFrame, serverVars
    <3>5. QED
      BY <3>3, <3>4 DEF RunControlInv
  <2>3. CASE st # "step"
    <3>1. state' \in {state, "paused"} /\ stepOk' = stepOk /\ stepDone' = stepDone
      BY <1>4, <2>3 DEF Report
    <3>2. TypeOK' /\ Requests'
      BY <2>1, <3>1 DEF RunControlInv, TypeOK, GamePC, RunState, Requests, serverVars
    <3>3. StepPhases'
      BY <2>1, <2>3, <3>1 DEF RunControlInv, StepPhases, StepFrame, serverVars
    <3>4. QED
      BY <3>2, <3>3 DEF RunControlInv
  <2>4. QED
    BY <2>2, <2>3
<1>5. QED
  BY <1>1, <1>2, <1>3, <1>4 DEF GameNext

LEMMA ServerStep == RunControlInv /\ ServerNext => RunControlInv'
<1> SUFFICES ASSUME RunControlInv, ServerNext PROVE RunControlInv'
  OBVIOUS
<1>1. CASE Step
  <2>1. /\ state' = "step" /\ spc' = "stepping" /\ stepDone' = FALSE /\ stepFrames' = 0
        /\ spc = "idle" /\ UNCHANGED <<parked, stepOk, gameVars, goal>>
    BY <1>1 DEF Step
  <2>2. stepFrames' \in 0..1
    BY <2>1
  <2>3. TypeOK'
    BY <2>1, <2>2 DEF RunControlInv, TypeOK, RunState, ServerPC, gameVars
  <2>4. Requests' /\ StepPhases'
    BY <2>1 DEF RunControlInv, Requests, StepPhases, StepFrame, gameVars
  <2>5. QED
    BY <2>3, <2>4 DEF RunControlInv
<1> USE DEF RunControlInv, Requests, StepPhases, StepFrame, TypeOK, RunState, ServerPC, Goal,
            ctlVars, gameVars, serverVars
<1>2. CASE StepReturns
  BY <1>2 DEF StepReturns
<1>3. CASE Resume
  BY <1>3 DEF Resume
<1>4. ASSUME NEW g \in Goal, Park(g) PROVE RunControlInv'
  BY <1>4 DEF Park, Granted
<1>5. CASE ParkEnds
  BY <1>5 DEF ParkEnds, Granted
<1>6. CASE MutateEnds \/ StepInst \/ StepInstReturns \/ Join
  BY <1>6 DEF MutateEnds, StepInst, StepInstReturns, Join
<1>7. CASE Quit
  BY <1>7 DEF Quit
<1>8. QED
  BY <1>1, <1>2, <1>3, <1>4, <1>5, <1>6, <1>7 DEF ServerNext

LEMMA RunControlInvariant == Spec => []RunControlInv
<1>1. Init => RunControlInv
  <2> SUFFICES ASSUME Init PROVE RunControlInv
    OBVIOUS
  <2>1. stepFrames \in 0..1
    BY DEF Init
  <2>2. TypeOK
    BY <2>1 DEF Init, TypeOK, RunState, GamePC, ServerPC, Goal
  <2>3. Requests /\ StepPhases
    BY DEF Init, Requests, StepPhases, StepFrame
  <2>4. QED
    BY <2>2, <2>3 DEF RunControlInv
<1>2. RunControlInv /\ [Next]_vars => RunControlInv'
  <2>1. RunControlInv /\ (Spins \/ Ended \/ UNCHANGED vars) => RunControlInv'
    BY DEF Spins, Ended, vars, RunControlInv, TypeOK, Requests, StepPhases, StepFrame
  <2>2. QED
    BY <2>1, GameStep, ServerStep DEF Next
<1>3. QED
  BY <1>1, <1>2, PTL DEF Spec

\* Types, and at most one frame for a step command.
THEOREM TypeCorrect == Spec => []TypeOK
<1>1. RunControlInv => TypeOK
  BY DEF RunControlInv
<1>2. QED
  BY <1>1, RunControlInvariant, PTL

\* A step is answered by the one frame that was run for it.
THEOREM StepAnsweredByItsFrame == Spec => StepAnswered
<1>1. RunControlInv /\ [Next]_vars => AnswersItsFrame
  BY DEF RunControlInv, StepPhases, AnswersItsFrame, StepReturns
<1>2. QED
  BY <1>1, RunControlInvariant, PTL DEF Spec, StepAnswered

\* No frame begins while a savestate is written or applied.
THEOREM MutationExcludesFrames == Spec => MutationBlocksFrames
<1>1. RunControlInv /\ [Next]_vars => NoFrameBegins
  <2> SUFFICES ASSUME RunControlInv, [Next]_vars, gpc # "frame", gpc' = "frame"
               PROVE  spc # "mutating"
    BY DEF NoFrameBegins
  <2>1. state \in {"step", "running"}
    <3>1. LoopTop \/ WaitEnds
      BY DEF Next, GameNext, ServerNext, FrameReturns, Report, Step, StepReturns, Resume, Park,
             ParkEnds, MutateEnds, StepInst, StepInstReturns, Quit, Join, Spins, Ended, vars,
             gameVars
    <3>2. Leave
      BY <3>1 DEF LoopTop, WaitEnds
    <3>3. QED
      BY <3>2 DEF Leave, RunControlInv, TypeOK, RunState
  <2>2. QED
    BY <2>1 DEF RunControlInv, Requests
<1>2. QED
  BY <1>1, RunControlInvariant, PTL DEF Spec, MutationBlocksFrames
=============================================================================
