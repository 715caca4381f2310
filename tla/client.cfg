SPECIFICATION Spec
CONSTANTS
  SizeOctets = 2
  TagOctets = 2
  Block = 8
  LengthOctets = 2
  DigestOctets = 2
  InitialState = 1
  Compress <- MCCompress
  Password <- MCPassword
  Salt <- MCSalt
  Iterations = 3
  Headers <- MCHeaders
  Bodies <- MCBodies
  Capacity = 27
  Reserved = 5
  Responses <- MCResponses
  RespSize = 139
INVARIANTS
  MacCoversMessage
  MacVerifies
  ReportsTheAnswer
PROPERTIES
  ClientEnds
CHECK_DEADLOCK FALSE
