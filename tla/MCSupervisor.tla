----------------------------- MODULE MCSupervisor -----------------------------
(* Small instances of Supervisor for TLC. *)
EXTENDS Supervisor, TLC

Symmetry ==
  Permutations(Ops) \cup Permutations(Epochs) \cup Permutations(Channels)
================================================================================
