----------------------------- MODULE LazyClock -----------------------------
(***************************************************************************)
(* How the runtime keeps the device clock (runtime/runtime_bus_bridge.cpp). *)
(* An instruction only adds its cycles to g_pending_cycles and takes them   *)
(* from g_event_budget, the distance to the next device event; the devices  *)
(* are ticked when the budget is used up, before a device register is       *)
(* accessed, and when DMA has stolen cycles.  The budget is computed again  *)
(* after each of these but the second.  At the back-edge of a loop that has *)
(* shown itself idle, whole iterations are added to the pending cycles.     *)
(*                                                                         *)
(* EagerClock is what the guest may rely on.  The guest's code is native:   *)
(* the interpreter that bridges a missing function accesses the bus without *)
(* catching up and re-arming, and keeps no such promise.                    *)
(***************************************************************************)
EXTENDS DeviceClock, Integers

VARIABLES
  clk,    \* [hw, pending, budget, epoch]: the devices as last ticked,
          \* g_pending_cycles, g_event_budget, and what g_idle_disturb_epoch
          \* counted since the last back-edge: 0 nothing, 1 one poll of VCOUNT,
          \* 2 anything else, or there was no back-edge yet
  masked, \* the CPSR's I bit
  mid,    \* the current instruction has accessed a device register
  seen,   \* what the last step's register read returned
  took,   \* the last step ended in an interrupt
  site    \* g_idle_sites[] of the loop: the period, 0 if unknown, and the
          \* cycles since its back-edge; both forgotten when disturbed

vars == <<clk, masked, mid, seen, took, site>>

NoSite == [period |-> 0, since |-> 0]

Init ==
  /\ clk = [hw |-> PowerOn, pending |-> 0, budget |-> 0, epoch |-> 2]
  /\ masked = FALSE /\ mid = FALSE /\ seen = None /\ took = FALSE
  /\ site = NoSite

----------------------------------------------------------------------------
\* The clock's own operations.

Disturb(c) == [c EXCEPT !.epoch = 2]

Horizon(h) == NextEvent(h, Devices)

\* One round of tick_devices' loop.
Chunk(h, remaining) == Min({remaining, Horizon(h)})

Round(s) ==
  LET k == Chunk(s.hw, s.remaining)
  IN IF s.remaining = 0 THEN s
     ELSE [hw |-> Elapse(s.hw, k), remaining |-> s.remaining - k]

\* tick_devices: up to the next event, again and again.
TickDevices(c, cycles) ==
  LET after[i \in 0 .. cycles] ==
        IF i = 0 THEN [hw |-> c.hw, remaining |-> cycles] ELSE Round(after[i - 1])
  IN  Disturb([c EXCEPT !.hw = after[cycles].hw])

Rearm(c) == [c EXCEPT !.budget = Horizon(c.hw)]

Flush(c) == [TickDevices(c, c.pending) EXCEPT !.pending = 0]

\* runtime_mmio_catch_up
CatchUp(c) == IF c.pending = 0 THEN c ELSE Flush(c)

\* drain_dma_steal
Drain(c) ==
  IF c.hw.steal = 0 THEN c
  ELSE Rearm(TickDevices(CatchUp([c EXCEPT !.hw.steal = 0]), c.hw.steal))

\* Mutant of Resync: the write charges its DMA, the horizon stays as it was.
ResyncNoRearm(c) == Drain(c)

\* runtime_resync_horizon
Resync(c) == Rearm(Drain(c))

\* runtime_tick, up to its interrupt check.
Ticked(c, cycles) ==
  LET later == [c EXCEPT !.pending = @ + cycles, !.budget = @ - cycles]
  IN  Drain(IF later.budget <= 0 THEN Rearm(Flush(later)) ELSE later)

\* The wake-up delay of an interrupt that ends a halt.
Wake(c) ==
  IF c.hw.halted
  THEN Rearm(TickDevices(CatchUp([c EXCEPT !.hw.halted = FALSE]), WakeDelay))
  ELSE c

\* What the loop's site is still good for.
Kept(c, s) == IF c.epoch = 2 THEN NoSite ELSE s

----------------------------------------------------------------------------
\* What the guest does.

\* The end of an instruction: runtime_tick.
Tick(cycles, mask, stores) ==
  LET c     == Ticked(IF stores THEN Disturb(clk) ELSE clk, cycles)
      takes == IrqPending(c.hw) /\ ~mask
      next  == IF takes THEN Wake(c) ELSE c
  IN /\ clk' = next
     /\ masked' = (mask \/ takes)
     /\ took' = takes
     /\ mid' = FALSE /\ seen' = None
     /\ site' = Kept(next, [site EXCEPT !.since = @ + cycles])

\* An instruction that has accessed a device register leaves the I bit alone.
Execute(cycles, mask, stores) ==
  /\ ~clk.hw.halted \/ mid
  /\ mid => mask = masked /\ ~stores
  /\ Tick(cycles, mask, stores)

\* bus_read_*: of a device register, VCOUNT or another.
Read(vcount) ==
  LET c    == CatchUp(clk)
      next == IF vcount /\ c.epoch = 0 THEN [c EXCEPT !.epoch = 1] ELSE Disturb(c)
  IN /\ ~clk.hw.halted
     /\ clk' = next
     /\ seen' = Visible(c.hw)
     /\ site' = Kept(next, site)
     /\ mid' = TRUE /\ took' = FALSE
     /\ UNCHANGED masked

\* bus_write_*: of a device register.
Write(w) ==
  LET c == CatchUp(clk)
  IN /\ ~clk.hw.halted
     /\ clk' = Resync(Disturb([c EXCEPT !.hw = Written(@, w)]))
     /\ site' = NoSite
     /\ mid' = TRUE /\ took' = FALSE /\ seen' = None
     /\ UNCHANGED masked

\* The outer loop's pump_idle, which asks the devices as last ticked and does
\* not ask the serial port.
PumpChunk == NextEvent(clk.hw, {"ppu", "timer"})
PumpIdle == clk.hw.halted /\ ~mid /\ Tick(PumpChunk, masked, FALSE)

\* Mutant of IdleCycles: the last iteration may end on the event.
IdleCyclesToEvent(period) == (clk.budget \div period) * period

\* Whole iterations that end before the next event.
IdleCycles(period) == ((clk.budget - 1) \div period) * period

\* runtime_idle_backedge.  same: the registers are those of the last back-edge;
\* poll: the last register read was VCOUNT, by the loop's header.
BackEdge(same, poll) ==
  LET proof     == same /\ (clk.epoch = 0 \/ (clk.epoch = 1 /\ poll))
      confirmed == proof /\ site.since # 0 /\ site.since = site.period
      skipped   == IF confirmed /\ clk.budget > site.period
                   THEN IdleCycles(site.period) ELSE 0
  IN /\ ~mid /\ ~clk.hw.halted
     /\ clk' = [clk EXCEPT !.pending = @ + skipped, !.budget = @ - skipped, !.epoch = 0]
     /\ site' = [period |-> IF proof THEN site.since ELSE 0, since |-> 0]
     /\ seen' = None /\ took' = FALSE
     /\ UNCHANGED <<masked, mid>>

Next ==
  \/ \E n \in 1 .. MaxCycles, mask, stores \in BOOLEAN : Execute(n, mask, stores)
  \/ \E vcount \in BOOLEAN : Read(vcount)
  \/ \E w \in Writes : Write(w)
  \/ PumpIdle
  \/ \E same, poll \in BOOLEAN : BackEdge(same, poll)

Spec == Init /\ [][Next]_vars

----------------------------------------------------------------------------
\* Properties.

\* The clock and what it remembers of an idle loop; the devices request enabled
\* interrupts only (runtime_bus_bridge.cpp:485-553).
TypeOK ==
  /\ clk \in [hw : Machines, pending : Nat, budget : Int, epoch : 0 .. 2]
  /\ masked \in BOOLEAN /\ mid \in BOOLEAN /\ took \in BOOLEAN
  /\ site \in [period : Nat, since : Nat]

\* The pending cycles never reach the next event, so a catch-up fires none, and
\* the budget is exactly what is left before it (runtime_bus_bridge.cpp:624-629);
\* before the first instruction nothing is pending and the budget is empty.
BudgetExact ==
  \/ clk.pending < Horizon(clk.hw) /\ clk.budget = Horizon(clk.hw) - clk.pending
  \/ clk.pending = 0 /\ clk.budget = 0

\* The devices with the pending cycles lived.
Now(c) == [c.hw EXCEPT !.left = [d \in Devices |-> IF @[d] = 0 THEN 0 ELSE @[d] - c.pending]]

\* Ticking in batches cannot be told from ticking every cycle
\* (runtime_bus_bridge.cpp:577-583): every register read returns the same and
\* every interrupt is taken at the same instruction.
Eager == INSTANCE EagerClock WITH hw <- Now(clk)
ImplementsEager == Eager!Init /\ [][Eager!Next]_(Eager!vars)
=============================================================================
