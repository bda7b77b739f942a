---------------------------- MODULE MCContentView ----------------------------
(***************************************************************************)
(* ContentView with model values for sessions, which are interchangeable.  *)
(***************************************************************************)
EXTENDS ContentView, TLC

CONSTANTS s1, s2

MCSymmetry == Permutations(Session)

=============================================================================
