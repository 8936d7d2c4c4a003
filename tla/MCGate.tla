------------------------------- MODULE MCGate -------------------------------
(* An instance of the gate small enough for TLC.                           *)
EXTENDS Gate, TLC

Symmetry == Permutations(Client)
=============================================================================
