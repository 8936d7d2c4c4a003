------------------------------- MODULE MCFeed -------------------------------
(* An instance of the feed small enough for TLC.                           *)
EXTENDS Feed, TLC

Symmetry == Permutations(Event) \cup Permutations(Text) \cup Permutations(Editor)
=============================================================================
