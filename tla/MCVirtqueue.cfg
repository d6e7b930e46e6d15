SPECIFICATION Spec
CONSTANTS
  NEntries = 2
  IndexMod = 4
  Cookie = {a, b}
  None = None
  MaxChain = 2
  HasNext = {FALSE}
SYMMETRY Buffers
INVARIANTS
  TypeOK
  IInv
  DescriptorsConserved
  AssertionsHold
  NoLostInterrupt
  NoLostKick
PROPERTIES
  ExchangeSpec
