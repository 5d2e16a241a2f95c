CONSTANTS
  rom1 = rom1
  rom2 = rom2
  ram = ram
  void = void
  old = old
  new = new
  None = None
  RomKeys = {rom1}
  RamKeys = {ram}
  VoidKeys = {}
  Codes = {old, new}
SPECIFICATION MCSpec
INVARIANT NativeCodeIsCurrent
