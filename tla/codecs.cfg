SPECIFICATION Spec
CONSTANTS
  SizeOctets = 2
  TagOctets = 2
  IntOctets = 2
  Septets = 2
  ComponentMod <- ComponentWord
  MaxComponents = 4
  OidBuffer = 4
  TextSizes = {0, 1, 2, 3, 5, 8, 13}
  Nodes <- MCNodes
  Values <- MCValues
INVARIANTS
  RoundTrip
  ReadsTheNumber
  Canonical
  BitsAgree
  TextFits
CHECK_DEADLOCK FALSE
