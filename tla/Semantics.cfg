CONSTANT Programs <- MCPrograms
SPECIFICATION Spec
INVARIANTS TypeOK OutcomeIsRight SymbolsBound WriterAssumptionsHold
