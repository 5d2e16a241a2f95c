------------------------------ MODULE RunLoop ------------------------------
(***************************************************************************)
(* The interactive and the headless loop of run_game (runtime/runtime.cpp): *)
(* when the guest runs, when the host's input is pumped, when the battery    *)
(* save is flushed during play, and how a session ends.  It drives SaveFile: *)
(* every step is a step of SaveFile or leaves its variables alone.           *)
(*                                                                         *)
(* With the present hook installed a frame is presented, and input pumped,   *)
(* from inside step_once; only a guest that halts, returns or is asked to    *)
(* quit comes back to the loop, where the autosave is.                      *)
(***************************************************************************)
EXTENDS SaveFile, Integers

CONSTANTS Interval,  \* kSaveFlushIntervalFrames
          Behind     \* bound: how far a load can bring the counter behind the last flush
ASSUME IntervalAssumption == Interval \in Nat \ {0} /\ Behind \in Nat

VARIABLES
  at,        \* where the game thread is in run_game
  mode,      \* a window with the present hook, a window without, or no window
  elapsed,   \* frame_count - save_last_flush_frame, up to Interval
  waiting,   \* frames since the oldest write no flush was tried for, up to Interval
  early,     \* that write was made while the counter was behind the last flush
  paused,    \* host_paused
  quit,      \* host_quit
  status     \* the exit status, when the session returned one

hostVars == <<mode, paused, quit, status>>
ageVars  == <<elapsed, waiting, early>>
loopVars == <<at, ageVars, hostVars>>
runVars  == <<vars, loopVars>>

Mode == {"hook", "window", "headless"}
Windowed == mode # "headless"
Place == {"top", "idle", "guest", "hook", "frame", "check", "flush", "exit", "ending", "down"}
Frames == 0..Interval
Ages   == -Behind..Interval
Later(n) == IF n = Interval THEN n ELSE n + 1   \* a frame later, bounded

\* What a session's options and environment select; the loop pumps once before
\* its first iteration when there is a window.
Start ==
  /\ mode' \in Mode
  /\ at' = IF Windowed' THEN "idle" ELSE "top"
  /\ elapsed' = 0 /\ waiting' = 0 /\ early' = FALSE
  /\ paused' = FALSE /\ quit' = FALSE /\ status' = "none"

RunInit ==
  /\ Init
  /\ mode \in Mode
  /\ at = IF Windowed THEN "idle" ELSE "top"
  /\ elapsed = 0 /\ waiting = 0 /\ early = FALSE
  /\ paused = FALSE /\ quit = FALSE /\ status = "none"

-----------------------------------------------------------------------------
\* The guest, inside step_once

GuestWrites(c) ==
  /\ at = "guest" /\ Write(c)
  /\ UNCHANGED loopVars

\* A VBlank.  With the hook the yield presents in place; without, it returns to the
\* loop, or, headless, only at the last frame of a passive run.  An exception
\* handler holds the yield off; a halted guest passes its frame in the loop's own
\* pump whatever the hook.
VBlank ==
  /\ at = "guest" /\ ppc = "play"
  /\ elapsed' = Later(elapsed)
  /\ waiting' = IF dirty THEN Later(waiting) ELSE 0
  /\ early' = (dirty /\ (early \/ elapsed < 0))
  /\ at' \in {"guest", "frame"} \cup ({mode} \cap {"hook"})
  /\ UNCHANGED <<vars, hostVars>>

\* The guest halts, or its dispatch returns.
StepReturns ==
  /\ at = "guest" /\ ppc = "play"
  /\ at' = "frame"
  /\ UNCHANGED <<vars, ageVars, hostVars>>

-----------------------------------------------------------------------------
\* The host's input

\* The hook returns to the guest, or unwinds it when a quit was asked.
AfterPump ==
  IF at = "hook" /\ ~quit' THEN "guest"
  ELSE [idle |-> "top", frame |-> "check", hook |-> "frame"][at]

\* A load brings the frame counter of another time, later or earlier than the last
\* flush; the age of the last flush is not brought along.
Hotkey ==
  \/ UNCHANGED <<vars, ageVars>>
  \/ SlotOpen /\ UNCHANGED ageVars
  \/ LoadState /\ elapsed' \in Ages /\ waiting' = 0 /\ early' = FALSE

\* pump_host_input: the window may be closed, the pause key toggled, a slot saved
\* or loaded.  Reaching --frames sets host_quit too.
Pump ==
  /\ at \in {"idle", "hook", "frame"} /\ Windowed /\ ppc = "play"
  /\ quit' \in {quit, TRUE} /\ paused' \in BOOLEAN
  /\ Hotkey
  /\ at' = AfterPump
  /\ UNCHANGED <<mode, status>>

NoWindow ==
  /\ at = "frame" /\ ~Windowed
  /\ at' = "check"
  /\ UNCHANGED <<vars, ageVars, hostVars>>

SlotEnds == SlotWritten /\ UNCHANGED loopVars

-----------------------------------------------------------------------------
\* The loop

\* Mutant: the pause loop does not look at host_quit.
TopPausedFirst ==
  /\ at = "top" /\ ppc = "play"
  /\ at' \in IF Windowed /\ paused THEN {"idle"}
             ELSE IF quit THEN {"exit"} ELSE {"guest", "exit"}
  /\ UNCHANGED <<vars, ageVars, hostVars>>

\* The loop's tests: a quit, the pause loop, the step budget and --frames.
Top ==
  /\ at = "top" /\ ppc = "play"
  /\ at' \in IF quit THEN {"exit"}
             ELSE IF Windowed /\ paused THEN {"idle"} ELSE {"guest", "exit"}
  /\ UNCHANGED <<vars, ageVars, hostVars>>

\* The test subtracts unsigned 64-bit counters: of a counter behind the last flush it
\* makes a number near 2^64, which is due until the counter has caught up and it
\* wraps to 0.
Due == elapsed \notin 0..Interval - 1

\* Mutant: the last flush's frame is noted whether or not there is one to do.
CheckResets ==
  /\ at = "check" /\ ppc = "play"
  /\ at' = IF dirty /\ Due THEN "flush" ELSE "top"
  /\ elapsed' = 0
  /\ UNCHANGED <<vars, waiting, early, hostVars>>

\* Mutant: after both renames failed the autosave is left to the exit.
CheckNotAfterFailure ==
  /\ at = "check" /\ ppc = "play"
  /\ at' = IF dirty /\ Due /\ loss # "refused" THEN "flush" ELSE "top"
  /\ UNCHANGED <<vars, ageVars, hostVars>>

\* The autosave: gated by the dirty flag, debounced by the frame counter.
Check ==
  /\ at = "check" /\ ppc = "play"
  /\ at' = IF dirty /\ Due THEN "flush" ELSE "top"
  /\ UNCHANGED <<vars, ageVars, hostVars>>

\* A flush from the loop notes its frame whether or not it succeeded.
FlushInLoop ==
  /\ at = "flush" /\ Flush
  /\ IF ppc' = "play" THEN at' = "top" /\ elapsed' = 0 /\ waiting' = 0 /\ early' = FALSE
                      ELSE UNCHANGED <<at, ageVars>>
  /\ UNCHANGED hostVars

\* Mutant: the result of the last flush is not returned.
FlushAtExitIgnored ==
  /\ at = "exit"
  /\ \/ Flush
     \/ ~dirty /\ ppc = "play" /\ UNCHANGED vars
  /\ IF ppc' = "play" THEN at' = "ending" /\ status' = "ok"
                      ELSE UNCHANGED <<at, status>>
  /\ UNCHANGED <<ageVars, mode, paused, quit>>

\* The last flush: at once done for a clean chip; its result is the exit status.
FlushAtExit ==
  /\ at = "exit"
  /\ \/ Flush
     \/ ~dirty /\ ppc = "play" /\ UNCHANGED vars
  /\ IF ppc' = "play"
     THEN at' = "ending" /\ status' = IF dirty' THEN "failed" ELSE "ok"
     ELSE UNCHANGED <<at, status>>
  /\ UNCHANGED <<ageVars, mode, paused, quit>>

\* The process is gone, and what it counted with it.
Ends ==
  /\ Crash
  /\ at' = "down" /\ elapsed' = 0 /\ waiting' = 0 /\ early' = FALSE
  /\ mode' = "headless" /\ paused' = FALSE /\ quit' = FALSE

Return == at = "ending" /\ Ends /\ UNCHANGED status

\* The process is killed, anywhere.
Kill == at # "down" /\ Ends /\ status' = "none"

NextSession == Boot /\ Start

-----------------------------------------------------------------------------
LoopStep == Pump \/ NoWindow \/ SlotEnds \/ Top \/ Check \/ FlushInLoop
            \/ FlushAtExit \/ Return

RunNext == \/ \E c \in Contents : GuestWrites(c)
           \/ VBlank \/ StepReturns \/ LoopStep \/ Kill \/ NextSession

\* The host keeps running its own code; a guest that is stepped again and again
\* reaches its next VBlank, the devices' clock advancing with every instruction;
\* and the disk does not refuse forever what it is asked again and again.
RenameDone == (Rename \/ Rename2) /\ ppc' = "clear"

Fairness ==
  /\ WF_runVars(LoopStep)
  /\ SF_runVars(VBlank)
  /\ SF_runVars(FlushInLoop /\ Open)
  /\ SF_runVars(FlushInLoop /\ Written /\ tmp' = mem)
  /\ SF_runVars(FlushInLoop /\ RenameDone)

RunSpec == RunInit /\ [][RunNext]_runVars /\ Fairness
-----------------------------------------------------------------------------
\* Properties

RunTypeOK ==
  /\ TypeOK
  /\ at \in Place /\ mode \in Mode
  /\ elapsed \in Ages /\ waiting \in Frames /\ early \in BOOLEAN
  /\ paused \in BOOLEAN /\ quit \in BOOLEAN
  /\ status \in {"none", "ok", "failed"}

\* Whenever the loop comes round, no write has waited a whole interval for a flush to
\* be tried: "at most ~1 s of save activity is at risk" (runtime.cpp:3147) for a guest
\* that keeps returning.  The exception is a write made after the load of an earlier
\* frame's savestate, while the counter was behind the last flush.  Every check tries to
\* flush it, but if none comes before the counter has caught up it is an interval from
\* there, whatever it has waited already (3155).
AtMostAnIntervalAtRisk ==
  (at = "top" /\ dirty) =>
    IF early THEN elapsed \in 0..Interval - 1 ELSE waiting < Interval

\* An exit status of 0 says that the save file holds what the chip held, whatever
\* was refused during play, except after a savestate load (runtime.cpp:3214, 3287).
ExitTellsTheTruth ==
  (status = "ok" /\ ~restored) => (file = mem \/ (file = Absent /\ mem = Blank))

\* A guest that keeps coming back to the loop has its progress written, also after
\* flushes that failed: each is tried again (runtime.cpp:3153-3159).  A savestate load
\* takes the place of the progress, and a kill ends it.
ProgressIsSaved ==
  []<>(at = "check") => ((dirty /\ at # "down") ~> (~dirty \/ restored \/ at = "down"))

\* A quit ends the session, from the pause loop and from inside the hook too
\* (runtime.cpp:3028-3033, 2753-2768).
QuitEnds == quit ~> at = "down"
=============================================================================
