----------------------------- MODULE MCCodeGen -----------------------------
(* Instances of CodeGen for TLC; the .cfg files choose the bounds.         *)
EXTENDS CodeGenInv
=============================================================================
