CONSTANTS
  Types = {"u16"}
  BinOps = {"Add"}
  MaxVRegs = 6
  MaxBlocks = 2
  NumSlots = 4
  MaxFunctions = 1
SPECIFICATION Spec
INVARIANT VisitsOnlyTerminated
