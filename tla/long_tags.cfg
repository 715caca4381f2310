SPECIFICATION Spec
CONSTANTS
  Alphabet = {}
  MaxLength = 0
  Inputs <- LongTags
  Again = {}
  Rules = {"BER", "DER"}
  Capacities = {2}
  MaxDepth = 2
  SizeOctets = 2
  SizeMod <- Word
  TagOctets = 2
  TagMod <- TagWord
  MaxCalls = 1
INVARIANTS
  DerCanonical
