# TLA+ models of KHRecomp / gbarecomp

KHRecomp is a static recompilation of a Game Boy Advance game. An offline
recompiler (`gbarecomp/tools/gba_recompile`, `src/recompile`, `src/armv4t`)
turns the ROM's ARM and Thumb functions into C++ functions; a runtime
(`gbarecomp/src/runtime`, `src/armv4t/runtime_arm.cpp`, `src/gba`) runs them
against a model of the console. These modules specify the parts of the runtime
whose correctness depends on the order of events: two threads, an unwinding
host stack, a serial protocol, a disk that can fail, devices that are ticked late.

Paths below are relative to `src/gbarecomp/src/` unless they say otherwise.

## 1. Inventory

| component | state it keeps | operations | talks to |
|---|---|---|---|
| Self-heal overlay loader (`runtime/overlay_loader.cpp`, `overlay_compile.cpp`, `runtime_arm_default_aborts.cpp`) | healed table, in-flight and failed sets (game thread); work queue, ready queue, pending counter, stop flag (shared with a worker thread) | init + warm load, miss, enqueue, worker compile, drain, native dispatch, shutdown | called from `runtime_dispatch` on a miss and once per step; file cache on disk |
| TCP run control (`runtime/runtime.cpp` 2008-2170, `debug/tcp_debug_server.cpp`) | run state, parked flag, step answer, under one mutex | step, run_frames, continue, pause, savestate save/load, step_inst, quit | server thread and game thread |
| Cartridge save chips (`gba/gba_save.cpp`) | chip contents, dirty flag, flash command state, bank, ID mode, EEPROM bit stream | bus reads and writes, configure, load, serialize | guest bus accesses; `flush_save` |
| Battery save file (`runtime/runtime.cpp` 594-621, 1586-1716) | save file, its `.tmp` sibling, the chip's dirty flag | load at start-up, `flush_save` | disk |
| Cartridge pins (`gba/gba_gpio.cpp`, `gba_rtc.cpp`, `gba_gyro.cpp`, `gba_solar.cpp`) | direction, data and held levels; serial transaction, latched register and time offset of the clock; sample of the gyroscope | guest writes and reads of three halfwords in ROM, the host's time and pointer | guest bus accesses, host input |
| Guest calls in native code (`armv4t/runtime_arm.cpp`, code emitted by `arm_codegen.cpp`) | R15, call-return stack and depth, its floor, IRQ nesting and return depth, the host C stack | dispatch, call, return, cancel, SWI, IRQ, exception return, yield | everything that runs guest code |
| Savestates (`debug/snapshot.cpp`) | a file of seven sections | save, load | CPU, bus, I/O, audio, save chip, PPU |
| Lazy device clock (`runtime/runtime_bus_bridge.cpp`, `gba/gba_io.cpp`) | pending cycles, event budget, DMA steal; timers, SIO, PPU line, IF/IE/IME | tick, catch-up on access, flush at an event, idle elision | every memory access of I/O, IRQ delivery |
| Outer run loop and present hook (`runtime/runtime.cpp` 1853-1905, 2320-3290, `host_window.cpp`) | frame counters, hotkeys, autosave timer | step, present, pump input, autosave, pause | all of the above |
| Heal gate (`runtime/heal_gate.cpp`) | write journal, observer | arm, record, trap, roll back, diff | the bus |
| Miss log and clustering (`runtime_arm_default_aborts.cpp`, `self_heal_cluster.cpp`) | miss counts | record, cluster, report | loader |
| DMA, timers, SIO, interrupt registers (`gba/gba_io.cpp`, ...) | device registers | register writes, ticks | clock |
| PPU, audio, memory bus | device state | per-cycle and per-access functions | clock, bus |
| Recompiler, function finder, decoders, interpreter, BIOS HLE | - | offline translation, instruction semantics | - |
| Mod runtime, window, accessibility, launcher, co-simulation, oracle tools, generated corpus | - | input/output and diagnostics | - |

What is hard here, and what would make it correct:

* **Two threads and a condition variable** (loader): every request settles
  exactly once; no wake-up is lost; shutdown ends; native code is current.
* **Commands that cross a running frame** (run control): a step is answered by
  its own frame; a savestate meets a parked core; nobody waits for ever.
* **Unwinding through frames that did not ask for it** (calls): native code runs
  where R15 points, whatever returns early; an IRQ leaves no trace; the
  fixed-size call-return stack does not leak.
* **Protocols on a bus** (save chips, clock, gyroscope and solar sensor): only a complete
  command changes memory or the clock; a clean flag means saved; a value that is
  clocked out bit by bit is one value, whatever changes meanwhile and whatever
  transaction was broken off before.
* **Crashes and partial failures** (save file, savestate slot): the file is never
  torn, nothing torn is loaded, a completed save survives, or is lost only in the ways named.
* **Work done between the guest's steps** (run loop): unsaved progress is written
  in time and tried again after a failure; a quit is seen wherever it is asked;
  the exit status is true.
* **Laziness** (clock): batching ticks is invisible to the guest.

The full list, line by line, is `hazards` in `PROJECT.json`.

## 2. Modules

| module | models | checked by |
|---|---|---|
| `HealLifecycle` | what the loader promises of one function: cold, pending, native or refused; settled once | refinement target |
| `OverlayLoader` | the loader: game thread, worker, queues | `overlay_loader`, `overlay_shutdown`, `overlay_ram_stale` |
| `RunControl` | the TCP session | `run_control`, `run_savestate`, `run_lost_step` |
| `GbaSave` | flash, EEPROM and SRAM chips | `gba_save` |
| `CartGpio` | the GPIO pins with the clock, the gyroscope and the solar sensor | `gba_save` |
| `SaveFile` | flush_save, kills, disk errors, start-up, the chip in a savestate slot | `save_file_close`, and within `RunLoop` |
| `RunLoop` | `run_game`'s loop and the present hook, in a window or without one; extends `SaveFile` | `save_file` |
| `CallReturn` | calls, returns, yields, IRQs, savestates | `call_return`, `savestate_in_hook` |
| `DeviceClock` | the devices of the master clock: picture unit, timer, serial port, DMA, interrupt flags | used by the next two |
| `EagerClock` | what the clock promises the guest: every cycle lived before anything looks | refinement target |
| `LazyClock` | `runtime_tick` and the catch-up, re-arming and idle-skip around it | `lazy_clock` |
| `OverlayLoaderProofs`, `RunControlProofs`, `GbaSaveProofs`, `CartGpioProofs`, `SaveFileProofs`, `RunLoopProofs`, `CallReturnProofs`, `LazyClockProofs` | the theorems about the module they are named for | TLAPS |
| `MC*` | small instances; `MCCartridge` puts the save chip and the pins behind one bus | |

Operators named in a "Mutant:" comment are plausible bugs: each property of a
passing run has one, and is violated when it takes the place of the operator it
is a variant of. They are no part of the specification.

### OverlayLoader

`healed`, `inflight`, `failed`, `work`, `ready`, `pending`, `stop`, `active`
are the file-level variables of `overlay_loader.cpp` (109-123) under their own
names. `gpc` and `wpc` are the positions of the two threads between steps that
another thread can tell apart: a push under `s_work_mtx` and the notification
after it are two steps (`MissEnqueue`, `NotifyOne`), so are the lock-free test
of the counter and the swap (`DrainTest`, `DrainSwap`), and the three parts of
shutdown (`StoreStop`, `NotifyAll`, `JoinAndDrain`). The worker's predicate wait
is `WorkerTestFails` (mutex held, predicate tested) and `WorkerBlock` (mutex
released and asleep, atomically, as a condition variable promises); a push needs
the mutex and is disabled in between, the store of the stop flag does not and is
not. Strict mode, opt-out, synchronous heal and RAM heal are chosen once, in
`env`. A compile succeeds or fails (an exception counts as failure). `image` is
the guest's code as data: it changes only for RAM functions.

Liveness (`RequestsResolve`, `ShutdownCompletes`) assumes that the worker is
scheduled and that the game thread finishes an operation it began and drains
(`WF` on `DrainTest`). The drain is the first statement of `step_once`
(`runtime.cpp` 1858), so this is fair as long as the guest's code returns to the
step loop; in windowed play with the present hook a guest that never halts may
not (see `RunLoop`). No fairness is assumed of misses, guest
writes, shutdown or spurious wake-ups.

### RunControl

`state`, `parked`, `stepDone`, `stepOk` are `ctl_*`. A wait with a predicate is
an action with the predicate as its guard: every writer of the four words
notifies under the same mutex. A frame runs without the mutex: it starts
(`Leave`), returns with any result (`FrameReturns`) unless it hangs, and is
reported in one critical section (`Report`). `Park` is `park_and_wait`, which
returns at once if the flag is set and else waits until it is or the time-out
expires (`ParkEnds`). Both threads are weakly fair; no client has to send a
command. The model is finite and unbounded by constants: every command sequence
is explored.

### GbaSave

One action per bus access. The flash decoder is `FlashState` and `Decode`; bytes
and offsets are the real numbers, of which the instance has those the decoder
can tell apart, three cells in different sectors (two of them programmed), and
some misplaced commands. EEPROM blocks have two bits in place of sixty-four, with one address bit more
than the chip decodes (like the 8 KB part's fourteen). `typed` and `out` are
history variables: what the game wrote since the controller was idle, what a
read has shifted out. Reads of the flash window change nothing and are left out.

### CartGpio

`WriteData`, `WriteDirection`, `WriteControl` and `Reads` are `GpioPort::write` and
`read`; a write reaches the chips first (`ClockWrite`, `GyroWrite`, `SolarWrite`) and then the
levels that the chip drives are held in `driven` (`Latch`, `latch_driven`), where
the guest reads them until its next write. On the pins are the clock, the gyroscope,
or the clock and the solar sensor, which share pin 0.

The clock's variables are `GbaRtc`'s. On a rising SCK the phase decides what a bit
is: part of the command (`CommandBit`), of a register written (`WriteBit`) or read
(`ReadBit`), or beyond the register (`NoBit`). CS low ends any transaction. Data
are abstract: a command byte may select any register and order, a committed date
gives any offset, and a bit that the guest reads is written down as the register
it came from, the byte and the place, so that a bit of the wrong value, byte or
order is another bit. A time is a number of seconds modulo `Wrap`; `Tick` is the
host's clock and may come between any two accesses. In the gyroscope a sample is
the pair of the position and the number of bits already lost.

The solar sensor counts rising edges of pin 0 while the clock is not selected, and
its comparator trips at the threshold that its last reset sampled; `light` is what
the host's light source would answer, and `Shine` changes it at any time.

`asked` and `edges` are history variables: what the guest asked for and how many
bits it has clocked since; `lit` and `pulses` are the same for a light reading. They
are what `ReadsOneInstant` and `ReadsOneSample` compare the chip's own counters with.
A light reading survives a talk with the clock between two pulses if the guest leaves
pin 0 as it found it (`Reading`); the level of the comparator does not survive it:
`latch_driven` holds 0 on a pin that nobody drives, so `ReadsOneSample` speaks of
reads with the chip select low, although `gba_gpio.h` 79-82 says that the level
persists.

### SaveFile

Each file operation of `flush_save` is a step, each can fail if its fault is in
`Faults`, and `Crash` is enabled between any two. `safe` is the last completed save:
the last contents reported as written, or found by a later start-up. A start-up that
finds no save file leaves `safe` as it was, so a save that is gone stays missed. `loss`
is a history variable that says how a completed save can come to be gone, which is in
two ways: both renames were refused (`"refused"`), or a kill fell between the fallback's
remove and its second rename (`"killed"`). In the second case the newer contents are
whole in the temporary file, but `run_game` never looks there: the next session starts
with a blank chip and its first flush truncates the file (`"truncated"`), and then both
saves are gone. `NoCompletedSaveIsLost` says where the saves are in each case.
A savestate slot is a second file, truncated (`SlotOpen`) and
then written whole or not (`SlotWritten`), so a kill in between leaves it torn;
`LoadState` takes only a whole one and brings back the chip with its dirty flag.
After a load the flag speaks of another time, so `CleanIsOnDisk` and
`ExitTellsTheTruth` exclude it (`restored`); the next write of the game sets it.
The passing run has every fault that the code gets to see; `save_file_close` has
the one it does not.

### RunLoop

`at` is the place in `run_game`: the top of the loop with its tests, the pause
loop, the guest inside `step_once`, the present hook inside the guest, the pump
after a frame, the autosave check, the flush, the last flush and the end.
`mode` is the session: a window with the present hook, a window without, or none.
Every step is a step of `SaveFile` or leaves its variables alone; `flush_save` is
entered where the loop enters it, and its steps are those of `SaveFile`.

With the hook a VBlank presents and pumps input from inside the guest's code
(`VBlank` to `"hook"`), and only a guest that halts, returns, or was asked to quit
comes back to the loop, where the autosave is. A pause toggled in the hook takes
effect there too. `elapsed` is `frame_count - save_last_flush_frame`, which a
savestate load makes any number from `-Behind`, because the counter is restored and
the variable is not. The code subtracts unsigned numbers, so a negative `elapsed` is
near 2^64 there: a flush is due (`Due`), until the counter catches up and the
difference wraps to 0. `waiting` is a history variable, the age of the oldest write
that no flush was tried for, and `early` says that this write was made while the
counter was behind: if the guest stays in the hook until the wrap, such a write is due
an interval after the wrap, however long it has waited. `elapsed` and `waiting` stop
counting at `Interval`.

Fairness: the loop's own code runs on (`WF` on `LoopStep`); a guest that is
stepped again and again has VBlanks (`SF` on `VBlank`: the devices' clock moves
with every instruction); the disk does not refuse for ever what it is asked again
and again (`SF` on opening, on a complete write, on one of the two renames).
Nothing is assumed of the guest coming back to the loop: `ProgressIsSaved` has it
as a premise (`[]<>(at = "check")`), since windowed code with the hook that never
halts does not, and its save then waits for the quit (hazard at `runtime.cpp`
3153). Kills are never fair and never forbidden.

### CallReturn

`crs`, `floor`, `nest`, `iret` are `g_call_return_stack`, `g_call_return_floor`,
`g_irq_nest_depth`, `g_irq_iret_depth`. `host` is the host C stack, of which only
the frames that look at R15 after their callee returned are kept: a BL site and
`runtime_irq`. `guest` is the guest's own stack of return addresses, one per
context; it is the guest, not the runtime, and says where a proper program
returns to. `native` is the guest address that the running C code stands for, so
`NativeFollowsGuest` is the claim of the whole scheme. `mode` says whether native
code runs, the host stack unwinds, or the outer loop is reached.

The guest nests properly. It may recurse to any depth. In the contexts of
`CrossRecursion` (the mainline, the IRQ handlers, both or none) other calls may be
between two activations of one call site; elsewhere one is directly on top of the
other. Across sites the stack of return addresses is not enough.
`runtime_call_should_return` goes on below the top (844-863), although
`runtime_arm.h` 184-187 says that only the top is compared, and an address that is
not on top, because its own call was not a recognised one or its entry was
cancelled, matches an older activation of the same site, from three calls in
progress on. The entries above are dropped while their BL sites still wait. When
such a site is unwound later, `runtime_call_cancel_return` compares values only and
can take the equal entry of a deeper site; with six calls, through two sites, and
one yield at a prologue, a site that waits has lost its entry. Its return is then
dispatched on top of it.

In the mainline that costs host stack, and nothing else: the theorems below hold for
any recursion of the mainline, so native code still runs where R15 points, the
entries are still those of calls in progress, and an IRQ still leaves none. In a
handler it is not harmless, because `runtime_irq` counts on the handler's sites
having returned when the handler has: a site that lost its entry is still on the host
stack, and native code can go on away from R15 (`NativeFollowsGuest` fails). So
`ReturnsTakeTheTop` and `WaitingSitesKnown` speak of the contexts
without recursion across sites, and the run keeps `CrossRecursion = {}`, where
they speak of all. With the comparison limited to the top TLC finds none of this at
the same bounds. The test `tests/codegen/test_main.cpp` 301-309 asks for the older
match, so the code does what its test says and not what its header says; the
hazard at `runtime_arm.cpp` 844 says so.

### LazyClock

`DeviceClock` is the machine that both specifications share: `left[d]` is the distance
to device `d`'s next event, `steal` is `dma_steal_cycles_`, `flags` the enabled
bits of IF, and `Written` what a register write does. IE and IME are constant
(`Irqs`): clearing them and setting the CPSR's I bit have the same effect on
delivery, and the I bit is `masked`. The picture unit's line and frame events are
one periodic event, of the timers and the timed DMA channels there is one each,
and the audio sample clock, which requests nothing, is left out.

In `LazyClock`, `clk` holds the devices as last ticked with `g_pending_cycles`,
`g_event_budget` and the disturbance counter; `Flush`, `CatchUp`, `Drain`,
`Resync` and `TickDevices` are the functions of `runtime_bus_bridge.cpp`, pure
operators on that record. An instruction is some register accesses (`Read`,
`Write`) and a `Tick`. Of `g_idle_disturb_epoch` the model keeps how often it was
bumped since the last back-edge (0, 1 for one poll of VCOUNT, 2 for anything
else), which is all that the prover in `runtime_idle_backedge` compares; one loop
site is kept, and forgotten once disturbed, when the code can no longer confirm
it. A poll of VCOUNT with cycles pending bumps the counter twice (the catch-up
ticks the devices), so the exception for VCOUNT polls confirms a loop only when
the devices happen to be current. That costs speed, not correctness.

`EagerClock` computes what the same number of cycles does in closed form: how
often each event came, what it cost, where the next one is. The refinement maps
its `hw` to `Now(clk)`, the devices with the pending cycles lived; since
`BudgetExact` keeps the pending cycles short of the next event, that only
shortens distances. A skip at a back-edge maps to `Loop`: further iterations that
reach no event and during which no interrupt could have been taken. A halted CPU
is pumped in chunks that `EagerClock` leaves open up to a picture period, because
`pump_idle` computes its chunk without the pending cycles and without the serial
port; `MaxCycles` bounds an instruction.

The guest is native code, or the forced interpreter, whose accesses also go
through the bridge. The interpreter that runs after a dispatch miss accesses the
bus directly and is a hazard without a property.

## 3. Runs

| run | shows | bounds |
|---|---|---|
| `overlay_loader` | `InflightOwnedOnce`, `FatesExclusive`, `PendingCountsReady`, `SleeperIsNotified`, refinement `ImplementsLifecycle`, liveness `RequestsResolve` | two ROM functions (queue of length two and competition), one RAM function, one uncompilable; 67,890 states |
| `overlay_shutdown` (violation) | `overlay_loader_shutdown` can wait for ever: the stop flag is stored without the mutex | one ROM, one RAM function |
| `overlay_ram_stale` (violation) | RAM code is snapshotted, compiled, installed by address, and dispatched after the guest rewrote it | same |
| `run_control` | `StepAnswered`, `MutationBlocksFrames`, `PauseParks`, `LockstepAnswered`, `QuitJoins` | none; 1,124 states |
| `run_savestate` (violation) | a savestate can be granted while a frame runs, right after `continue` | none |
| `run_lost_step` (violation) | a step sent during a failing free-running frame is never answered | none |
| `gba_save` | flash and EEPROM: `ArmedByUnlock`, `FlashChangesAsCommanded`, `CleanIsSaved`, `ReadsOneBlock`; pins: `ReadsOneInstant`, `SetOnlyByWholeWrite`, `ReadsOneSample` | save chips: two banks, three offsets of which two are programmed, two EEPROM blocks of two bits; clock: bytes of two bits, registers of one, two and two bytes, two times; samples of three bits, two positions; a light counter of four values, two brightnesses, and beside it a clock that is asked for one bit; 1,874,645 states |
| `save_file` | `NeverTorn`, `NoCompletedSaveIsLost`, `CleanIsOnDisk`, `AtMostAnIntervalAtRisk`, `ExitTellsTheTruth`, liveness `ProgressIsSaved`, `QuitEnds` | a blank chip and one other contents, an autosave interval of two frames, a frame counter at most one frame behind the last flush, every mode, fault, hotkey and kill; 292,070 states |
| `save_file_close` (violation) | a close that fails goes unseen and a torn file replaces the save | three contents, that fault only |
| `call_return` | `NativeFollowsGuest`, `StackFollowsGuest`, `WaitingSitesKnown`, `ReturnsTakeTheTop`, `InterruptedFramesKept`, `IrqLeavesNoFrames` | two BL sites, one jump call, one SWI; either two calls in progress over all contexts, an IRQ in an IRQ and savestates, or five calls and one IRQ; no recursion across sites; 2,224,757 states |
| `lazy_clock` | `BudgetExact`, refinement `ImplementsEager` | picture event every 5 cycles, timer of 2 or 4, serial transfer of 3, DMA of 1, wake-up delay of 2, instructions of 1 or 2 cycles, interrupts of picture unit and serial port enabled; 62,947 states |
| `savestate_in_hook` (violation) | a savestate loaded from the present hook leaves native code away from R15 | one call, no IRQ |

Why the bounds are enough. Loader: the worker holds at most one item, each queue
at most one entry per function, and the interleavings that matter are of two
requests and one notification; the safety properties are proved for any number
of functions. Save chips: the decoder looks at one access and one state, and
memory cells are told apart by bank and sector only, of which there are two and
three. Pins: a transaction differs by whether it ends before, at or after a byte and
the register, and two bits to a byte and two bytes have each case, in both bit
orders; the clock or the position changing once is enough to tell one instant
from another; the theorems hold for any lengths. The solar sensor looks at no more
of the clock than its chip select and pin 0, so a clock asked for one bit beside it is
enough; its counter passes both thresholds and wraps. Run loop: an interval of two
frames has a check before, at and after it, and a counter one frame behind wraps with
a write waiting, which is then at the loop after a whole interval without a flush
(without the `early` case `AtMostAnIntervalAtRisk` fails); the contents are only compared for
equality with each other, and the game alternates between two without bound.
Calls: an address in progress can be on top, be hidden under others, below the
floor, or have no entry, and its site can wait or have been unwound; two calls
with a nested IRQ reach each once, five with one IRQ put several in a row, which
is what it takes for one lost entry to mislead a second return (six calls with an
IRQ held as well). Clock: what
matters is whether an event falls before, at or after an instruction's end and
whether DMA or the wake-up delay reaches a further event; with these periods each
of the three devices meets each case, several events coincide, and one flush sees
up to three. DMA and timer interrupts are not enabled in the instance: they set
a flag as the other two do, at moments the distances already tell apart.

Deadlock is checked in every run. `Ended` and `Spins` are stuttering steps that
name where the system may really stop: the process has ended, a frame hangs.

`PROJECT.json` lists the six disagreements between a comment and the code that
these runs show, each with the comment.

## 4. Proofs

`OverlayLoaderProofs` proves, for all sets of functions and of contents
(assumed: the three kinds of function are disjoint, and `None` is no code):

* `TypeCorrect`: `Spec => []TypeOK`.
* `Invariance`: `Spec => []Inv`, where `Inv` is `TypeOK`, the four safety
  invariants and two strengthenings:
  * `BlockingSeesEmpty`: while the worker holds the mutex between its test and
    its sleep, the queue is empty. This is what makes `SleeperIsNotified`
    inductive: the only way to a sleeping worker with work is a push after it
    slept, and that push is followed by its notification.
  * `StopEndsService`: once the stop flag is stored the game thread runs no guest
    code. The refinement needs it: the abstract loader is closed by then.
  `InflightOwnedOnce` is inductive only with `FatesExclusive` and vice versa: a
  push moves a key, and a drain settles it, only if it was in one place.
* `RequestsOwned`, `ExclusiveFates`, `CounterExact`, `NoSleepOverWork`: the
  invariants one by one.
* `LoaderImplementsLifecycle`: `Spec => Lifecycle!Spec`, by one step per action:
  a miss maps to `Ask`, a drain to `Settle` of the keys in the ready queue, the
  stored stop flag to `Close`, everything else to a stutter.
* `SettledIsFinal`: what the loader inherits from the life cycle: a settled
  function stays settled, a request in flight is not forgotten, and none is taken
  once the loader is stopped.

Lemmas say what appending to and taking from a queue does to its set of keys,
and what a drain does to the three tables.

`RunControlProofs`: `TypeCorrect`, `StepAnsweredByItsFrame` (`StepAnswered`) and
`MutationExcludesFrames` (`MutationBlocksFrames`). The invariant says which of the
server's positions a stored request belongs to (`Requests`: nobody but the waiting
command can have stored `step`, and a granted savestate keeps `paused`) and where
in its life a step command is (`StepPhases`).

`GbaSaveProofs`, for every chip size, every set of bytes and of commands:
`TypeCorrect`, `CleanChipIsSaved`, `OnlyUnlockArms`, `FlashChangesAsTold` and
`ReadIsOneBlock` (the properties `CleanIsSaved`, `ArmedByUnlock`,
`FlashChangesAsCommanded`, `ReadsOneBlock`). `ArmedByUnlock` becomes inductive with
the writes that lead to each state of the decoder (`Armed`). Since they differ from
state to state, the history of writes is that of a command exactly when the decoder is in
that command's state (`ArmedExactly`), and the memory after each write is what
`Commanded` computes from that history and the write alone, without the decoder
(`WriteIsCommanded`). The EEPROM read needs the types only. The address of a
block is a number read from its bits by a recursive function: that it is a block
of the chip is the theorem `AddressIsABlock`, by induction on the least length at
which it would fail.

`CartGpioProofs`, for bytes, registers and samples of any length and any period of
the time: `TypeCorrect`, `ReadIsOneInstant`, `OnlyAWholeWriteSets` and
`ReadIsOneSample`. The inductive invariant ties the chip's counters to the
guest's edges (`Counted`: `edges = Bits + Bits * byteIdx + nbits` until the
register is through), the buffer to what was asked (`KeepsLatch`), the line to the
bit clocked last (`LastBitOut`), the held levels to the line (`Held`) and the solar
sensor's edge detector to pin 0 as the sensor last saw it (`LightOut`). The
bits of a command that is broken off are the reason for `Counted`: without it a
later command could start in the middle of a byte.

`SaveFileProofs`, for all contents and, but for `TypeCorrect`, for every set of
faults that the code gets to see (assumed: no failing close, which
`save_file_close` shows to be needed): `NothingIsTorn`,
`NoSaveIsLost`, `CleanOnDisk`. The invariant `WhereSaved` says for each position in
`flush_save` which of the two files holds which save: the temporary file is whole
before the old file is removed, and unless the older save was lost before (`loss`) it is
there until then. `OrphanKept` says that after a kill in the window the temporary file
is whole until a flush begins.

`RunLoopProofs`, for every interval: `RunImplementsSaveFile` (`RunSpec => Spec` of
SaveFile), from which `RunKeepsTheSave` carries those three over to the running program;
`RunTypeCorrect`; `AutosaveBound` (`AtMostAnIntervalAtRisk`), for a counter any number
of frames behind the last flush, inductive with `AgesOrdered` (a write that is not `early`
has not waited longer than the last flush is old); and, with no failing close, `ExitStatusIsTrue`.

`LazyClockProofs`, for every period, every instruction length and every set of
enabled interrupts: `LazyImplementsEager` (`Spec => ImplementsEager`: no read,
interrupt or skip of the batched clock differs from the one that lives every
cycle), `BudgetIsExact`, `NoInterruptWaits` (between two instructions nothing
requested and enabled waits unmasked) and `TypeCorrect`. The invariant `LazyInv` has the types
and the distance that the budget has to keep (`Exact`), and what the refinement
needs of a state: that the picture unit is never masked out of the budget
(`PictureIn`), that a requested IRQ has been answered (`Answered`) and that no
cycle is owed between instructions (`NothingOwed`).
`tick_devices` is a loop, here a recursive function of the rounds, and
`EagerClock`'s `Live` a closed form that divides. They meet in `TickDevicesLives`:
a round lives what it ticks (`RoundIsLived`), to live a round and then the rest is
to live all of it (`LiveAfterRound`, from `OnePeriodLess` on quotient and
remainder), and the rounds use up all their cycles, by induction on the least
round that would break it. The pending cycles stay short of the next event
(`NowIsLive`), so catching up, draining and charging an instruction leave `Now(clk)`
where living the cycles does, and each action of `LazyClock` maps to one of
`EagerClock` (`TickMaps`, `ReadMaps`, `WriteMaps`, `BackEdgeMaps`). At a back-edge, whole
iterations of `period` that fit in `budget - 1` leave a cycle over, for any two
numbers (`IdleCyclesFit`), so no event lies in what is skipped (`BackEdgeSkips`).

`CallReturnProofs`, for all return addresses, depths of calls and of IRQs. Whatever
the guest calls: `FramesUnderTheFloorStay` (`InterruptedFramesKept`): no return, cancel, unwinding or
nested IRQ touches the call-return entries of the code that an IRQ interrupted.
The saved floors and depths in the host frames of `runtime_irq` form a stack of
their own with one frame per depth and rising floors (`Nested`), which is what makes the floor
that an IRQ restores the right one.

The module's other properties are proved for any recursion of the mainline, from two
assumptions: no IRQ handler recurses across sites
(`"handler" \notin CrossRecursion`) and savestates are taken at the outer loop only
(`~PresentInPlace`; `savestate_in_hook` shows the second to be needed, the
`CallReturn` paragraph above the first). They are `NativeCodeFollows`,
`StackFollows`, `SitesAreKnown`, `TopOnlyReturns`, `FinishedIrqLeavesNoFrames` and
`TypeCorrect`. None of them is inductive alone. The invariant `CallInv` says of each
entry of the call-return stack which call of the guest it belongs to, in the context
between whose floors it lies (`Own`), and of each BL site that waits in a context
without recursion across sites which entry is its own (`Known`: every such site has
one, or, on the way out of a C return, every one but the one returned to). `Shape`
adds one guest context per IRQ in progress, with `runtime_irq`'s frame on top when
its handler has returned; `SlotShape` the same of a savestate. Three arguments carry
it. `OwnReturn`: whatever entry a return matches, those below it belong to older
calls than the one that ends, and all above are dropped, so `Own` needs no
restriction on the guest. `MatchIsTop`: without recursion across sites an entry below
the top that matches would belong to an older call of the returning site with a call
of another site between, so the scan (844-863) stops at the top and no other site
loses its entry. `HandlerReturns`: a handler's context has ended when it
returns, so no entry lies above the floor and, its sites being known, none of them
waits, and the frame that `iret` names is the last one.

Induction over numbers is done by least counterexample, with `WFMin` and
`NatLessThanWellFounded` of the library, whose induction theorems take an operator
as a parameter and are out of the installed provers' reach.

Only model-checked: the liveness properties (fairness and `ENABLED` are out of the
prover's reach): `RequestsResolve`, `PauseParks`, `LockstepAnswered`, `QuitJoins`,
`ProgressIsSaved`, `QuitEnds`. Every safety property, action property and
refinement that a run checks is also a theorem.

## 5. Not modelled, and why

Instruction semantics, decoders, the interpreter, the function finder and code
generation other than the code around calls: data, tested against reference ROMs
and emulators. PPU and audio pixels and samples: data. Window, accessibility,
launcher, mods: input and output. Oracle and co-simulation tools: observers.
The heal gate (`heal_gate.cpp`) has a journal and a roll-back worth a model, but no
production path calls it, so there is no caller to take its guards from. The
overlay cache on disk with several producers on one temporary name is a hazard
without a property; a compile is one step here.

Within the modelled parts: compile commands and their files are one step that
succeeds or fails; `step_inst` has no effect on the guest (it races with the game
thread, a hazard without a property); tail frames and the interpreter that
bridges a miss behave like their callee; `runtime_irq`'s give-up after 4,000,000
dispatches and the overflow of the 16,384-entry stack are not reached, since a
guest that nests properly reaches neither. On the pins: the
clock's boot time, BCD and calendar conversions, the rumble motor, and the pins in a
savestate. In the run loop: pixels, pacing, audio, input replay, the widescreen
switch, start-up before the loop, and the TCP session, which flushes only at its
exit. In a savestate: the sections of all devices but the save chip and, in
`CallReturn`, the call-return stack. In the clock: prescaled and cascaded
timers, the VCOUNT comparison, shadow runs of the heal gate (which do not touch
the clock), the 64-bit counters' width (never reached).

## 6. Plan

In this order, the most important behaviour first:

1. `LazyClock` extended by the raw bus accesses of the bridge interpreter and by
   savestates, which keep neither the pending cycles nor a running transfer.
2. `CallReturn` with recursion across sites in an IRQ handler: which comparison keeps
   the sites known there, and the same invariant for it.
3. `OverlayCache`: two producers that share a cache directory and its temporary
   names.
4. `HealGate`, once a production path calls it: journal, trap, roll-back in reverse
   order.
5. Pure algorithms: miss clustering, mod dependency order.
