SPECIFICATION Spec
CONSTANTS
  Alphabet = {0, 1, 31, 48, 128, 129, 130}
  MaxLength = 4
  Inputs <- AllInputs
  Again <- ShortInputs
  Rules = {"BER", "DER"}
  Capacities = {1, 2, 3, 6}
  MaxDepth = 3
  SizeOctets = 2
  SizeMod <- Word
  TagOctets = 2
  TagMod <- TagWord
  MaxCalls = 2
INVARIANTS
  TypeOK
  AgreesWithGrammar
  BytesTiled
  SubtreeExact
  ChildrenComplete
PROPERTIES
  FinishedStable
  ParseReturns
