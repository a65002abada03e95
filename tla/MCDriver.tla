------------------------------ MODULE MCDriver ------------------------------
(* The input foo.cdr, the files that the artifacts go to by default, and   *)
(* command lines on which paths meet.                                      *)
EXTENDS Driver

CONSTANTS foo_cdr, foo_ast, foo_ir, foo_s, foo, out

MCDefaultPath == [ast |-> foo_ast, ir |-> foo_ir, asm |-> foo_s, exe |-> foo]

Values(kind, paths) == {[kind |-> kind, path |-> p] : p \in paths}

MCRequests ==
  Values("ast", {"derived", "stdout", "empty", foo_cdr, out})
    \cup Values("ir", {"derived", "stdout", foo_ast})
    \cup Values("exe", {"derived", "stdout", foo_ast})
    \cup Values("asm", {"derived"}) \cup Values("obj", {"derived"})
=============================================================================
