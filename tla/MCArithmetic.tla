---------------------------- MODULE MCArithmetic ----------------------------
(* Bytes of four bits, immediates of six, words of sixteen.                *)
EXTENDS Arithmetic
=============================================================================
