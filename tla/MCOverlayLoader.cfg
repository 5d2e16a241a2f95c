CONSTANTS
  rom1 = rom1
  rom2 = rom2
  ram = ram
  void = void
  old = old
  new = new
  None = None
  RomKeys = {rom1, rom2}
  RamKeys = {ram}
  VoidKeys = {void}
  Codes = {old, new}
SPECIFICATION MCSpec
INVARIANTS TypeOK InflightOwnedOnce FatesExclusive PendingCountsReady SleeperIsNotified
PROPERTIES ImplementsLifecycle RequestsResolve
