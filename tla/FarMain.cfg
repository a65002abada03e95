CONSTANTS
  main = main
  helper = helper
  other = other
  Functions = {main, helper, other}
  BodySizes = {1, 600}
  FlushSizes = {0}
  FrameSizes = {16}
SPECIFICATION Spec
INVARIANT ExitsWithMain
