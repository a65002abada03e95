CONSTANTS
  foo_cdr = foo_cdr
  foo_ast = foo_ast
  foo_ir = foo_ir
  foo_s = foo_s
  foo = foo
  out = out
  Paths = {foo_cdr, foo_ast, foo_ir, foo_s, foo, out}
  Input = foo_cdr
  OutPath = out
  DefaultPath <- MCDefaultPath
  Requests <- MCRequests
  Locked = {foo_ast, out}
  MaxRequests = 3
  MaxFaults = 1
SPECIFICATION Spec
INVARIANTS TypeOK SuccessDelivers FailureKeepsExecutable
