------------------------------- MODULE Optional -------------------------------
(***************************************************************************)
(* What an Option of the code holds: a value or None.  The modules of the   *)
(* certificates, the settings, the status page and the wire share it.       *)
(***************************************************************************)
CONSTANT Null      (* the absent value of every Option                        *)
===============================================================================
