CONSTANTS
  Args <- MainArgs
  Old <- OldValue
  CommandLines <- Lines
SPECIFICATION Spec
INVARIANTS TypeOK OutcomeIsRight ResultsAreRight
