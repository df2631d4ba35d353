------------------------------- MODULE MCRunner -------------------------------
(***************************************************************************)
(* An instance of Runner for TLC.                                          *)
(***************************************************************************)
EXTENDS Runner
==============================================================================
