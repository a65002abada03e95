---------------------------- MODULE MCTestRunner ----------------------------
(* Three kinds of tests: one that has to build and exit with 0, one that   *)
(* must not build, one that names an output to compare with.               *)
EXTENDS TestRunner

CONSTANTS plain, rejected, printing

MCExpectedBuild == [t \in Tests |-> IF t = rejected THEN 3 ELSE 0]
MCExpectedExit == [t \in Tests |-> 0]
=============================================================================
