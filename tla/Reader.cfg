SPECIFICATION Spec
CONSTANTS
  None = None
  Other = Other
  Junk = Junk
  Shapes <- MCShapes
  Count = 3
INVARIANTS
  ReadsOnlyMessages
  FramingKept
CHECK_DEADLOCK FALSE
