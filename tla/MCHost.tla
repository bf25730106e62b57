------------------------------- MODULE MCHost -------------------------------
(***************************************************************************)
(* An instance of Host for TLC.                                            *)
(***************************************************************************)
EXTENDS Host
=============================================================================
