------------------------------- MODULE Lifecycle -------------------------------
(***************************************************************************)
(* What the proxy promises an observer of its lifecycle: the state graph   *)
(* of the domain layer (ProxyState::transition) together with the runtime  *)
(* epoch a snapshot shows.  A snapshot names an epoch from the moment the  *)
(* proxy is Running until it is Stopped or its cleanup has run, and an     *)
(* epoch that has been withdrawn is never published again.                 *)
(***************************************************************************)
EXTENDS Naturals

CONSTANTS Epochs,   (* the runtime epochs (UUIDs) that can be drawn *)
          None      (* the absent value of every Option             *)

VARIABLES state,    (* ProxyState                                   *)
          epoch,    (* the epoch a snapshot shows, or None          *)
          spent     (* the epochs that have been published          *)

lvars == <<state, epoch, spent>>

States == {"Stopped", "Starting", "Running", "Stopping", "Faulted"}

\* The edges ProxyState::transition accepts.
Edges ==
  {<<"Stopped", "Starting">>, <<"Faulted", "Starting">>,
   <<"Starting", "Running">>, <<"Starting", "Faulted">>, <<"Starting", "Stopping">>,
   <<"Running", "Stopping">>, <<"Running", "Faulted">>,
   <<"Stopping", "Stopped">>, <<"Stopping", "Faulted">>,
   <<"Faulted", "Stopping">>, <<"Faulted", "Stopped">>}

Init == state = "Stopped" /\ epoch = None /\ spent = {}

\* Starting becomes Running together with an epoch nobody has seen before.
Publish ==
  /\ <<state, "Running">> \in Edges
  /\ state' = "Running"
  /\ \E e \in Epochs \ spent : epoch' = e /\ spent' = spent \cup {e}

\* The proxy leaves Running, or fails: the epoch may stay visible for diagnosis.
Leave ==
  /\ \E s \in {"Stopping", "Faulted"} : <<state, s>> \in Edges /\ state' = s
  /\ UNCHANGED <<epoch, spent>>

\* The epoch is withdrawn: the proxy is stopped, failed, or about to start again.
Withdraw ==
  /\ \E s \in {"Stopped", "Starting", "Faulted"} :
        (s = state \/ <<state, s>> \in Edges) /\ state' = s
  /\ state # "Running"
  /\ epoch' = None
  /\ UNCHANGED spent

Next == Publish \/ Leave \/ Withdraw

Spec == Init /\ [][Next]_lvars
================================================================================
