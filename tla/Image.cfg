CONSTANTS
  main = main
  helper = helper
  other = other
  Functions = {main, helper}
  BodySizes = {1, 300, 600, 1007}
  FlushSizes = {0, 15}
  FrameSizes = {16, 2032}
SPECIFICATION Spec
INVARIANTS TypeOK WrongOnlyWhenFar FrameKept
PROPERTY ProgramEnds
