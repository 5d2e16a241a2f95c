CONSTANTS
  PpuPeriod = 5
  TimerReloads = {2, 4}
  SioCycles = 3
  DmaCost = 1
  WakeDelay = 2
  MaxCycles = 2
  Irqs = {"ppu", "sio"}
  None = None
SPECIFICATION Spec
INVARIANTS TypeOK BudgetExact
PROPERTIES ImplementsEager
