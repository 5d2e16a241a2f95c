----------------------------- MODULE EagerClock -----------------------------
(***************************************************************************)
(* What the device clock promises the guest: every cycle an instruction     *)
(* takes is lived by the devices, one after the other, before anything      *)
(* looks at them; the cycles DMA stole are paid at the end of the           *)
(* instruction or register write that caused them; and an interrupt is      *)
(* taken at the end of the first instruction that finds it requested and    *)
(* unmasked, after the wake-up delay if it ends a halt.                     *)
(***************************************************************************)
EXTENDS DeviceClock

VARIABLES
  hw,     \* the devices
  masked, \* the CPSR's I bit
  mid,    \* the current instruction has accessed a device register
  seen,   \* what the last step's register read returned
  took    \* the last step ended in an interrupt

vars == <<hw, masked, mid, seen, took>>

Init == hw = PowerOn /\ masked = FALSE /\ mid = FALSE /\ seen = None /\ took = FALSE

\* The machine some cycles later: how often each device's event came, and how
\* far the next one is.
Live(h, cycles) ==
  LET period   == [ppu |-> PpuPeriod, timer |-> h.reload]
      came     == {d \in Running(h) : h.left[d] <= cycles}
      past(d)  == cycles - h.left[d]
      times(d) == IF d \in came THEN 1 + past(d) \div period[d] ELSE 0
      dmaRuns  == (CASE h.dma = "off"    -> 0
                     [] h.dma = "once"   -> Min({1, times("ppu")})
                     [] h.dma = "repeat" -> times("ppu"))
                  + (IF h.fifo THEN times("timer") ELSE 0)
      next(d)  == IF d \notin came THEN h.left[d] - cycles
                  ELSE IF d = "sio" THEN 0 ELSE period[d] - (past(d) % period[d])
  IN [h EXCEPT !.left  = [d \in Devices |-> IF d \in Running(h) THEN next(d) ELSE 0],
               !.flags = @ \cup Requested(came)
                           \cup (IF dmaRuns > 0 THEN Requested({"dma"}) ELSE {}),
               !.steal = @ + DmaCost * dmaRuns,
               !.dma   = IF "ppu" \in came /\ @ = "once" THEN "off" ELSE @]

PaySteal(h) == Live([h EXCEPT !.steal = 0], h.steal)

\* An instruction ends, or a halted CPU idles for some cycles.
Step(cycles, mask) ==
  /\ mid' = FALSE /\ seen' = None
  /\ LET h     == PaySteal(Live(hw, cycles))
         takes == IrqPending(h) /\ ~mask
     IN /\ took' = takes
        /\ masked' = (mask \/ takes)
        /\ hw' = IF takes /\ h.halted
                 THEN Live([h EXCEPT !.halted = FALSE], WakeDelay) ELSE h

Read ==
  /\ mid' = TRUE /\ took' = FALSE
  /\ UNCHANGED <<hw, masked>>
  /\ seen' = Visible(hw)

Write(w) ==
  /\ mid' = TRUE /\ took' = FALSE /\ seen' = None
  /\ UNCHANGED masked
  /\ hw' = PaySteal(Written(hw, w))

\* Further iterations of an idle loop, if any.  None of them reaches a device
\* event, pays for DMA or could have been interrupted.
Loop(cycles) ==
  /\ ~mid /\ ~hw.halted
  /\ cycles > 0 => hw.steal = 0 /\ (IrqPending(hw) => masked)
  /\ seen' = None /\ took' = FALSE
  /\ UNCHANGED <<masked, mid>>
  /\ hw' = Live(hw, cycles)

\* MaxCycles bounds an instruction, the picture period a halted CPU's idling.
Next ==
  \/ \E cycles \in 1 .. Max({MaxCycles, PpuPeriod}), mask \in BOOLEAN : Step(cycles, mask)
  \/ Read
  \/ \E w \in Writes : Write(w)
  \/ \E cycles \in 0 .. NextEvent(hw, Devices) - 1 : Loop(cycles)

Spec == Init /\ [][Next]_vars
=============================================================================
