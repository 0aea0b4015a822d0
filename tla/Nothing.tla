------------------------------ MODULE Nothing -------------------------------
(* The value of an optional field that is not set, shared by the modules that *)
(* are checked together.                                                      *)
CONSTANT None
=============================================================================
