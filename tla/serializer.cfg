SPECIFICATION Spec
CONSTANTS
  SizeOctets = 3
  TagOctets = 3
  Primitives <- SmallPrimitives
  Containers <- SmallContainers
  Raws <- SmallRaws
  Capacities = {20, 150, 300, 600}
  Reserved = 2
  MaxCalls = 5
INVARIANTS
  TypeOK
  Placeholders
PROPERTIES
  PrefixStable
  ImplementsDocument
  ImplementsBuilder
  FailsOnlyWhenFull
