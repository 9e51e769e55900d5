--------------------------- MODULE MCServiceHistory ---------------------------
(***************************************************************************)
(* Small instances of the observed service for TLC.                        *)
(***************************************************************************)
EXTENDS MCReturnsService, ServiceHistory
=============================================================================
