CONSTANTS
  blank = blank
  one = one
  Contents = {blank, one}
  Blank = blank
  Absent = Absent
  Torn = Torn
  Faults = {"open", "write", "rename", "remove", "rename2"}
  Interval = 2
  Behind = 1
SPECIFICATION RunSpec
INVARIANTS RunTypeOK NeverTorn NoCompletedSaveIsLost CleanIsOnDisk AtMostAnIntervalAtRisk ExitTellsTheTruth
PROPERTIES ProgressIsSaved QuitEnds
