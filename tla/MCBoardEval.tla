------------------------------ MODULE MCBoardEval ------------------------------
(***************************************************************************)
(* A small instance of the board's evaluation for TLC.                     *)
(***************************************************************************)
EXTENDS BoardEval

CONSTANTS fraud, policy, lead
=============================================================================
