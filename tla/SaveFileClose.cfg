CONSTANTS
  blank = blank
  one = one
  two = two
  Contents = {blank, one, two}
  Blank = blank
  Absent = Absent
  Torn = Torn
  Faults = {"close"}
SPECIFICATION Spec
INVARIANT SaveFileComplete
