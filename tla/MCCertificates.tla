--------------------------- MODULE MCCertificates ---------------------------
(* Instances of the certificate store for TLC. *)
EXTENDS Certificates, TLC

Symmetry == Permutations(Procs) \cup Permutations(Addresses)
==============================================================================
