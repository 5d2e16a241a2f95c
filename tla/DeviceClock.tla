---------------------------- MODULE DeviceClock ----------------------------
(***************************************************************************)
(* The devices that live by the guest's master clock: the picture unit, a   *)
(* timer and the serial port (gba/gba_ppu.cpp, gba/gba_io.cpp), with the    *)
(* DMA they trigger and the interrupts they request.                        *)
(*                                                                         *)
(* Of a device only the distance to its next event is kept, 0 when it does  *)
(* not run.  The picture unit's line and frame events are one periodic      *)
(* event; the audio sample clock, which requests nothing, is left out.  An  *)
(* interrupt source is enabled throughout (in Irqs) or not at all, and IME  *)
(* is set: what masks interrupts is the CPU's I bit.                        *)
(***************************************************************************)
EXTENDS Naturals, FiniteSets, FiniteSetsExt

CONSTANTS PpuPeriod,    \* cycles between two picture events
          TimerReloads, \* cycles from a timer's reload to its overflow
          SioCycles,    \* length of a serial transfer
          DmaCost,      \* bus cycles one DMA transfer steals
          WakeDelay,    \* kIrqWakeDelayCycles
          MaxCycles,    \* bound: the cycles of one instruction
          Irqs,         \* enabled sources, of "ppu", "timer", "sio", "dma"
          None          \* no register has just been read

Devices == {"ppu", "timer", "sio"}

ASSUME CyclesAssumption ==
  /\ {PpuPeriod, SioCycles, DmaCost, WakeDelay, MaxCycles} \subseteq Nat \ {0}
  /\ TimerReloads \subseteq Nat \ {0} /\ TimerReloads # {}
ASSUME IrqsAssumption == Irqs \subseteq Devices \cup {"dma"}

Machines == [left : [Devices -> Nat], reload : TimerReloads,
             dma : {"off", "once", "repeat"}, fifo : BOOLEAN, steal : Nat,
             flags : SUBSET Irqs, halted : BOOLEAN]

PowerOn == [left |-> [d \in Devices |-> IF d = "ppu" THEN PpuPeriod ELSE 0],
            reload |-> CHOOSE r \in TimerReloads : TRUE,
            dma |-> "off", fifo |-> FALSE, steal |-> 0,
            flags |-> {}, halted |-> FALSE]

Running(h) == {d \in Devices : h.left[d] # 0}

\* The nearest of some devices' events; one cycle when none of them runs.
NextEvent(h, devices) ==
  LET ahead == {h.left[d] : d \in Running(h) \cap devices}
  IN  IF ahead = {} THEN 1 ELSE Min(ahead)

\* Mutant of Requested: an event requests its interrupt, enabled or not.
RequestedAlways(sources) == sources

\* The interrupts that some events request.
Requested(sources) == sources \cap Irqs

\* k cycles that reach no event before the last of them.  A timer's overflow
\* feeds the sound FIFO by DMA, a picture event runs the DMA armed for it.
Elapse(h, k) ==
  LET events  == {d \in Running(h) : h.left[d] <= k}
      dmaRuns == {d \in events : \/ d = "ppu" /\ h.dma # "off"
                                 \/ d = "timer" /\ h.fifo}
      restart == [ppu |-> PpuPeriod, timer |-> h.reload, sio |-> 0]
      raised  == events \cup (IF dmaRuns # {} THEN {"dma"} ELSE {})
  IN [h EXCEPT !.left  = [d \in Devices |->
                            IF d \in events THEN restart[d]
                            ELSE IF d \in Running(h) THEN @[d] - k ELSE 0],
               !.flags = @ \cup Requested(raised),
               !.steal = @ + DmaCost * Cardinality(dmaRuns),
               !.dma   = IF "ppu" \in events /\ @ = "once" THEN "off" ELSE @]

IrqPending(h) == h.flags # {}

\* What the device registers show.
Visible(h) == [left |-> h.left, flags |-> h.flags]

Writes == [reg : {"timer"}, reload : TimerReloads, on : BOOLEAN]
     \cup [reg : {"fifo"}, on : BOOLEAN]
     \cup [reg : {"dma"}, mode : {"off", "once", "repeat"}]
     \cup [reg : {"if"}, ack : Irqs]
     \cup [reg : {"sio", "dmanow", "halt"}]

\* A timer counts from its reload value only when it is switched on; one that
\* runs takes it at its next overflow.
WrittenTimer(h, w) ==
  [h EXCEPT !.reload = w.reload,
            !.left["timer"] = IF ~w.on THEN 0
                              ELSE IF @ = 0 THEN w.reload ELSE @]

\* The machine after a write to a device register.
Written(h, w) ==
  CASE w.reg = "timer"  -> WrittenTimer(h, w)
    [] w.reg = "sio"    -> [h EXCEPT !.left["sio"] = IF @ = 0 THEN SioCycles ELSE @]
    [] w.reg = "fifo"   -> [h EXCEPT !.fifo = w.on]
    [] w.reg = "dma"    -> [h EXCEPT !.dma = w.mode]
    [] w.reg = "dmanow" -> [h EXCEPT !.steal = @ + DmaCost,
                                     !.flags = @ \cup Requested({"dma"})]
    [] w.reg = "if"     -> [h EXCEPT !.flags = @ \ {w.ack}]
    [] w.reg = "halt"   -> [h EXCEPT !.halted = TRUE]
=============================================================================
