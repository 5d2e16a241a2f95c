----------------------------- MODULE RunControl -----------------------------
(***************************************************************************)
(* The TCP debug session of runtime/runtime.cpp: the server thread answers  *)
(* one command after the other, the game thread runs frames, and both meet  *)
(* in four words under one mutex: the run state, the parked flag and the    *)
(* answer to a step.  Every wait is a predicate wait on one condition       *)
(* variable that every writer notifies under the mutex, so a wait is a step *)
(* enabled by its predicate.  A frame (step_frame) runs without the mutex;  *)
(* it may fail (no vertical blank within the dispatch cap) and it may hang  *)
(* in guest code that never blanks.                                         *)
(***************************************************************************)
EXTENDS Naturals

VARIABLES
  state,     \* ctl_state: what the server asks of the game thread
  parked,    \* ctl_parked: what the game thread last said of itself
  stepDone,  \* ctl_step_done
  stepOk,    \* ctl_step_ok
  gpc,       \* the game thread's position
  st,        \* the state it read when it left its wait
  frameOk,   \* the result of the last frame
  hung,      \* the frame in progress never returns
  spc,       \* the server thread's position
  goal,      \* what the server parks the core for
  stepFrames \* frames run for the current step command

ctlVars    == <<state, parked, stepDone, stepOk>>
gameVars   == <<gpc, st, frameOk, hung>>
serverVars == <<spc, goal>>
vars == <<state, parked, stepDone, stepOk, gpc, st, frameOk, hung, spc, goal,
          stepFrames>>

RunState == {"paused", "running", "step", "quit"}
GamePC   == {"top", "waiting", "frame", "ran", "exited"}
ServerPC == {"idle", "stepping", "parking", "mutating", "driving", "joining", "done"}
Goal     == {"pause", "savestate"}

Init ==
  /\ state = "paused" /\ parked = TRUE /\ stepDone = FALSE /\ stepOk = TRUE
  /\ gpc = "top" /\ st = "paused" /\ frameOk = TRUE /\ hung = FALSE
  /\ spc = "idle" /\ goal = "pause" /\ stepFrames = 0

-----------------------------------------------------------------------------
\* The game thread

\* Mutant: the loop top reports the core parked only when it was already.
ReportParkedStuck == parked' = (parked /\ state = "paused")

\* The loop top reports whether the core is parked ...
ReportParked == parked' = (state = "paused")

\* Mutant: a game thread told to quit goes back to its wait.
LeaveIgnoresQuit ==
  /\ st' = state
  /\ IF state \in {"paused", "quit"}
       THEN gpc' = "top" /\ UNCHANGED <<hung, stepFrames>>
       ELSE /\ gpc' = "frame" /\ hung' \in BOOLEAN
            /\ stepFrames' = IF state = "step" THEN stepFrames + 1 ELSE stepFrames

\* ... and the thread leaves its wait with the state it then reads.
Leave ==
  /\ st' = state
  /\ IF state \in {"paused", "quit"}
       THEN /\ gpc' = IF state = "quit" THEN "exited" ELSE "top"
            /\ UNCHANGED <<hung, stepFrames>>
       ELSE /\ gpc' = "frame" /\ hung' \in BOOLEAN
            /\ stepFrames' = IF state = "step" THEN stepFrames + 1 ELSE stepFrames

\* The predicate wait does not release the mutex when it already holds.
LoopTop ==
  /\ gpc = "top"
  /\ ReportParked
  /\ IF state = "paused"
       THEN gpc' = "waiting" /\ UNCHANGED <<st, hung, stepFrames>>
       ELSE Leave
  /\ UNCHANGED <<state, stepDone, stepOk, frameOk, serverVars>>

\* Woken by a new state, or timed out after 4 ms with none.
WaitEnds ==
  /\ gpc = "waiting"
  /\ Leave
  /\ UNCHANGED <<ctlVars, frameOk, serverVars>>

FrameReturns ==
  /\ gpc = "frame" /\ ~hung
  /\ gpc' = "ran" /\ frameOk' \in BOOLEAN
  /\ UNCHANGED <<ctlVars, st, hung, serverVars, stepFrames>>

\* Mutant: the answer to a step leaves the request stored.
ReportKeepsRequest ==
  /\ gpc = "ran"
  /\ IF st = "step"
       THEN stepOk' = frameOk /\ stepDone' = TRUE /\ UNCHANGED state
       ELSE /\ state' = IF frameOk THEN state ELSE "paused"
            /\ UNCHANGED <<stepOk, stepDone>>
  /\ gpc' = "top"
  /\ UNCHANGED <<parked, st, frameOk, hung, serverVars, stepFrames>>

\* Mutant: a step whose frame failed parks the core without an answer.
ReportOnlySuccess ==
  /\ gpc = "ran"
  /\ state' = IF st = "step" \/ ~frameOk THEN "paused" ELSE state
  /\ IF st = "step" /\ frameOk THEN stepOk' = TRUE /\ stepDone' = TRUE
                               ELSE UNCHANGED <<stepOk, stepDone>>
  /\ gpc' = "top"
  /\ UNCHANGED <<parked, st, frameOk, hung, serverVars, stepFrames>>

\* A step is answered and the core paused in one critical section; a
\* free-running frame that failed stores "paused" over whatever is there.
Report ==
  /\ gpc = "ran"
  /\ IF st = "step"
       THEN stepOk' = frameOk /\ stepDone' = TRUE /\ state' = "paused"
       ELSE /\ state' = IF frameOk THEN state ELSE "paused"
            /\ UNCHANGED <<stepOk, stepDone>>
  /\ gpc' = "top"
  /\ UNCHANGED <<parked, st, frameOk, hung, serverVars, stepFrames>>

-----------------------------------------------------------------------------
\* The server thread: one command at a time

\* Mutant: ctx.step without the reset of the previous answer.
StepKeepsAnswer ==
  /\ spc = "idle"
  /\ state' = "step" /\ spc' = "stepping" /\ stepFrames' = 0
  /\ UNCHANGED <<parked, stepDone, stepOk, gameVars, goal>>

\* step, step_to_vblank, and each frame of run_frames.
Step ==
  /\ spc = "idle"
  /\ stepDone' = FALSE /\ state' = "step" /\ spc' = "stepping"
  /\ stepFrames' = 0
  /\ UNCHANGED <<parked, stepOk, gameVars, goal>>

StepReturns ==
  /\ spc = "stepping" /\ stepDone
  /\ spc' = "idle"
  /\ UNCHANGED <<ctlVars, gameVars, goal, stepFrames>>

\* continue
Resume ==
  /\ spc = "idle"
  /\ state' = "running"
  /\ UNCHANGED <<parked, stepDone, stepOk, gameVars, serverVars, stepFrames>>

\* What the server does once park_and_wait has returned true.
Granted(g) == IF g = "pause" THEN "idle" ELSE "mutating"

\* Mutant: park_and_wait waits for a parked core without asking it to park.
ParkWithoutAsking(g) ==
  /\ spc = "idle"
  /\ goal' = g
  /\ spc' = IF parked THEN Granted(g) ELSE "parking"
  /\ UNCHANGED <<ctlVars, gameVars, stepFrames>>

\* park_and_wait, for pause and for savestate_save / savestate_load.
Park(g) ==
  /\ spc = "idle"
  /\ state' = IF state = "running" THEN "paused" ELSE state
  /\ goal' = g
  /\ spc' = IF parked THEN Granted(g) ELSE "parking"
  /\ UNCHANGED <<parked, stepDone, stepOk, gameVars, stepFrames>>

ParkEnds ==
  /\ spc = "parking"
  /\ spc' = IF parked THEN Granted(goal) ELSE "idle"      \* parked, or timed out
  /\ UNCHANGED <<ctlVars, gameVars, goal, stepFrames>>

\* The snapshot is written or applied; step_inst drives the core from here.
MutateEnds ==
  /\ spc = "mutating"
  /\ spc' = "idle"
  /\ UNCHANGED <<ctlVars, gameVars, goal, stepFrames>>

StepInst ==
  /\ spc = "idle"
  /\ spc' = "driving"
  /\ UNCHANGED <<ctlVars, gameVars, goal, stepFrames>>

StepInstReturns ==
  /\ spc = "driving"
  /\ spc' = "idle"
  /\ UNCHANGED <<ctlVars, gameVars, goal, stepFrames>>

\* quit: the run state, then the join.
Quit ==
  /\ spc = "idle"
  /\ state' = "quit" /\ spc' = "joining"
  /\ UNCHANGED <<parked, stepDone, stepOk, gameVars, goal, stepFrames>>

Join ==
  /\ spc = "joining" /\ gpc = "exited"
  /\ spc' = "done"
  /\ UNCHANGED <<ctlVars, gameVars, goal, stepFrames>>

Ended == spc = "done" /\ UNCHANGED vars

\* A hung frame spins in guest code.
Spins == hung /\ UNCHANGED vars

GameNext   == LoopTop \/ WaitEnds \/ FrameReturns \/ Report
ServerNext == Step \/ StepReturns \/ Resume \/ (\E g \in Goal : Park(g)) \/ ParkEnds
              \/ MutateEnds \/ StepInst \/ StepInstReturns \/ Quit \/ Join

Next == GameNext \/ ServerNext \/ Spins \/ Ended

\* Both threads are scheduled, and a command in progress is carried out; no
\* client has to send one, and a hung frame stays hung.
Fairness == /\ WF_vars(GameNext)
            /\ WF_vars(StepReturns) /\ WF_vars(ParkEnds) /\ WF_vars(MutateEnds)
            /\ WF_vars(StepInstReturns) /\ WF_vars(Join)

Spec == Init /\ [][Next]_vars
FairSpec == Spec /\ Fairness
-----------------------------------------------------------------------------
\* Properties

\* The control words, the threads' positions, and at most one frame per step
\* command (runtime.cpp:2019-2056).
TypeOK ==
  /\ state \in RunState /\ parked \in BOOLEAN
  /\ stepDone \in BOOLEAN /\ stepOk \in BOOLEAN
  /\ gpc \in GamePC /\ st \in RunState /\ frameOk \in BOOLEAN /\ hung \in BOOLEAN
  /\ spc \in ServerPC /\ goal \in Goal
  /\ stepFrames \in 0..1

\* The answer the server takes is that of the one frame run for its command.
AnswersItsFrame ==
  StepReturns => /\ stepFrames = 1 /\ stepOk = frameOk
                 /\ gpc \notin {"frame", "ran"}

\* A step is answered by its own frame: when the server leaves its wait exactly
\* one frame was run for the command, it is over, and the answer is that frame's
\* result, whatever the session was doing when the command came (ctx.step: never
\* an answer left over from an earlier step).
StepAnswered == [][AnswersItsFrame]_vars

\* A free-running frame is in progress or about to be reported.
FreeFrame == gpc \in {"frame", "ran"} /\ st = "running"

\* A frame that begins does not begin under a savestate command.
NoFrameBegins == gpc # "frame" /\ gpc' = "frame" => spc # "mutating"

\* Once a savestate is granted no frame begins until it is done: the state
\* stays "paused" from park_and_wait to the end of the command.
MutationBlocksFrames == [][NoFrameBegins]_vars

\* A core that is asked to pause parks at a frame boundary and says so, unless
\* the frame hangs or the client asks for something else.
PauseParks ==
  state = "paused" ~> \/ parked /\ gpc \in {"top", "waiting"}
                      \/ hung \/ state # "paused"

\* A step whose request no free-running frame can overwrite any more is
\* answered, unless its own frame hangs (oracle lockstep: step after step).
LockstepAnswered ==
  (spc = "stepping" /\ state = "step" /\ ~FreeFrame) ~> (spc # "stepping" \/ hung)

\* runtime.cpp:2157 "a clean quit is always issued while parked, so join()
\* returns": a quit with no free-running frame in progress ends the session.
QuitJoins ==
  (spc = "joining" /\ state = "quit" /\ ~FreeFrame) ~> (spc = "done" \/ hung)

\* runtime.cpp:2017 "Mutating ops (savestate/load) require the game PARKED at a
\* frame boundary": no snapshot is taken or applied while a frame is running.
SnapshotAtBoundary == spc = "mutating" => gpc \notin {"frame", "ran"}

\* runtime.cpp:2080 "Synchronous step: drive ONE frame on the game thread and
\* wait for it": every step is answered unless a frame hangs.
EveryStepAnswered == spc = "stepping" ~> (spc # "stepping" \/ hung)
=============================================================================
