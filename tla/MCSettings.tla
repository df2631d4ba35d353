------------------------------ MODULE MCSettings ------------------------------
(***************************************************************************)
(* An instance of Settings for TLC.                                        *)
(***************************************************************************)
EXTENDS Settings, TLC

Initial == [max |-> 2, budget |-> 3, paused |-> FALSE]
Symmetry == Permutations(Clients) \cup Permutations(Slots)
==============================================================================
