------------------------------ MODULE MCAccess ------------------------------
(* An instance of the access model small enough for TLC.                   *)
EXTENDS Access, TLC

Symmetry == Permutations(Person) \cup Permutations(Session) \cup Permutations(Setup)
              \cup Permutations(Link) \cup Permutations(Request)
=============================================================================
