----------------------------- MODULE MCBreakpoints -----------------------------
(* Small instances of Breakpoints for TLC. *)
EXTENDS Breakpoints, TLC

Symmetry == Permutations(Conns) \cup Permutations(Users) \cup Permutations(Epochs)
================================================================================
