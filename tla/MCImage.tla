------------------------------ MODULE MCImage ------------------------------
(* Instances of Image for TLC; the .cfg files choose the sizes.            *)
EXTENDS Image

CONSTANTS helper, other
=============================================================================
