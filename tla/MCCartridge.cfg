CONSTANTS
  Kinds <- MCKinds
  Banks = 2
  Offsets <- MCOffsets
  Bytes <- MCBytes
  CommandWrites <- MCCommandWrites
  ProgramWrites <- MCProgramWrites
  Blocks = 2
  AddrBits = 2
  DataBits = 2
  Bits = 2
  RegBytes <- MCRegBytes
  Wrap = 2
  SampleBits = 3
  Samples = {0, 1}
  Counts = 4
  Darkest = 2
  Lights = {0, 1}
  GuestPins <- MCGuestPins
  Directions <- MCDirections
SPECIFICATION MCSpec
INVARIANTS TypeOK ArmedByUnlock CleanIsSaved ReadsOneBlock
  GpioTypeOK ReadsOneInstant ReadsOneSample
PROPERTIES FlashChangesAsCommanded SetOnlyByWholeWrite
