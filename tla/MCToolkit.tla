------------------------------ MODULE MCToolkit ------------------------------
(* Toolkit for TLC: the committed loop, whose ticker is not made, and the  *)
(* loop it is meant to be.                                                 *)
EXTENDS Toolkit

BothTickers == BOOLEAN
=============================================================================
