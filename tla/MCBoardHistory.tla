---------------------------- MODULE MCBoardHistory ----------------------------
(***************************************************************************)
(* Small instances of the observed board for TLC.                          *)
(***************************************************************************)
EXTENDS MCBoard, BoardHistory
=============================================================================
