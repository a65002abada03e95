CONSTANTS
  plain = plain
  rejected = rejected
  printing = printing
  Tests = {plain, rejected, printing}
  Workers = {w1, w2}
  ExpectedBuild <- MCExpectedBuild
  ExpectedExit <- MCExpectedExit
  ChecksOutput = {printing}
  ExitCodes = {0, 3}
  MaxFaults = 2
  w1 = w1
  w2 = w2
SPECIFICATION Spec
INVARIANTS TypeOK CountersAgree GreenMeansPassed RunnerInv
PROPERTIES CompletedIsFinal RunEnds
\* A worker that raised has dropped its test, and the runner waits for ever.
CHECK_DEADLOCK FALSE
