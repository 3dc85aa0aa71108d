------------------------------ MODULE MCExchange ------------------------------
(* One connection with every list of at most two fault actions, for TLC. *)
EXTENDS Exchange
===============================================================================
