CONSTANTS
  Types = {"bool", "u16"}
  BinOps = {"Add", "CmpEq"}
  MaxVRegs = 8
  MaxBlocks = 3
  NumSlots = 3
  MaxFunctions = 2
SPECIFICATION Spec
INVARIANTS TypeOK WellFormed OperandsLoaded IInv StoresInFrame ReturnsResult
PROPERTY ImplementsIr
