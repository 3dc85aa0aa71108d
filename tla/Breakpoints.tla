----------------------------- MODULE Breakpoints -----------------------------
(***************************************************************************)
(* A paused message and the three parties that can end its wait: the user  *)
(* who decides, the connection that goes away and the proxy that stops.    *)
(*                                                                         *)
(* BreakpointCoordinator (crates/application/src/breakpoints.rs) keeps the *)
(* pending entries and a bounded list of tombstones; every method holds    *)
(* its lock once, but proxy_stopped, which takes it anew for each entry.   *)
(* RuntimePipelineAdapter::pause (crates/infrastructure/src/adapters/      *)
(* pipeline.rs) registers and waits inside the connection's task; the      *)
(* facade (crates/application/src/facade.rs, facade/traffic.rs) checks the *)
(* lifecycle, resolves, and sweeps again after a stop.  The supervisor is  *)
(* reduced to what breakpoints see of it: Supervisor is its full model.    *)
(*                                                                         *)
(* A connection's own list of pending ids is read and written by its task  *)
(* alone and is left out; so are revisions (a pending entry never changes  *)
(* its own), the content of a decision and the events.                     *)
(***************************************************************************)
EXTENDS Naturals, FiniteSets, SequencesExt

CONSTANTS Conns,          (* downstream connections, one request each         *)
          Epochs,         (* runtime epochs                                   *)
          Users,          (* pending breakpoint_resolve commands              *)
          None,           (* the absent value of every Option                 *)
          MaxTombstones   (* MAX_TERMINAL_TOMBSTONES                          *)

ASSUME BreakpointsAssumption ==
  /\ None \notin Epochs
  /\ MaxTombstones \in Nat

Stages == {"request", "response"}

\* A message can pause once in each stage: this is its BreakpointId, fresh by construction.
Ids == Conns \X Stages

VARIABLES
  \* BreakpointCoordinator
  pending,    (* the ids in `pending`                                         *)
  terminal,   (* `terminal`: the remembered end of an id, or "none"           *)
  order,      (* `terminal_order`                                             *)
  outcome,    (* what was sent into the oneshot channel of an id, or "none"   *)
  \* the connection tasks
  of,         (* ConnectionContext.runtime_epoch                              *)
  pc, stage,  (* where the task is                                            *)
  why,        (* the result connection_closed is called with                  *)
  doomed,     (* the tasks whose abort has been requested                     *)
  \* breakpoint_resolve
  asked,      (* the id it goes for once the lifecycle has been checked       *)
  told,       (* its answer                                                   *)
  \* the lifecycle
  proxy,      (* ProxyState                                                   *)
  current,    (* the published epoch                                          *)
  phase,      (* what has happened to each epoch                              *)
  failed,     (* a listener of the current epoch has failed                   *)
  op,         (* the facade call that holds mutation_gate                     *)
  swept,      (* the epoch its second sweep is for                            *)
  todo        (* the ids proxy_stopped has collected and not yet terminated   *)

coordinator == <<pending, terminal, order, outcome>>
conns       == <<of, pc, stage, why, doomed>>
users       == <<asked, told>>
lifecycle   == <<proxy, current, phase, failed, op, swept, todo>>
vars        == <<coordinator, conns, users, lifecycle>>

Outcomes  == {"Resolved", "ClientDisconnected", "ProxyStopped"}
ConnPcs   == {"new", "open", "evaluating", "updating", "paused", "closing", "closed", "aborted"}
Reasons   == {"none", "done", "failed", "gone", "stopped"}
Phases    == {"fresh", "serving", "sweeping", "cancelled"}
FacadeOps == {"none", "start", "stop", "shutdown", "undo", "sweep", "sweeping"}

TypeOK ==
  /\ pending \subseteq Ids
  /\ terminal \in [Ids -> Outcomes \cup {"none"}]
  /\ order \in Seq(Ids)
  /\ outcome \in [Ids -> Outcomes \cup {"none"}]
  /\ of \in [Conns -> Epochs \cup {None}]
  /\ pc \in [Conns -> ConnPcs]
  /\ stage \in [Conns -> Stages]
  /\ why \in [Conns -> Reasons]
  /\ doomed \subseteq Conns
  /\ asked \in [Users -> Ids \cup {None}]
  /\ told \in [Users -> {"none", "ok", "error"}]
  /\ proxy \in {"Stopped", "Running", "Stopping", "Faulted"}
  /\ current \in Epochs \cup {None}
  /\ phase \in [Epochs -> Phases]
  /\ failed \in BOOLEAN
  /\ op \in FacadeOps
  /\ swept \in Epochs \cup {None}
  /\ todo \subseteq Ids

Init ==
  /\ pending = {} /\ order = <<>> /\ todo = {} /\ doomed = {}
  /\ terminal = [id \in Ids |-> "none"]
  /\ outcome = [id \in Ids |-> "none"]
  /\ of = [c \in Conns |-> None]
  /\ pc = [c \in Conns |-> "new"]
  /\ stage = [c \in Conns |-> "request"]
  /\ why = [c \in Conns |-> "none"]
  /\ asked = [u \in Users |-> None]
  /\ told = [u \in Users |-> "none"]
  /\ proxy = "Stopped" /\ current = None /\ op = "none" /\ swept = None
  /\ phase = [e \in Epochs |-> "fresh"]
  /\ failed = FALSE
-------------------------------------------------------------------------------
(***************************************************************************)
(* BreakpointCoordinator.                                                  *)
(***************************************************************************)
Owner(id) == id[1]
IdOf(c) == <<c, stage[c]>>
EpochOf(id) == of[Owner(id)]

\* The waiting side holds its Receiver while pause runs for this very message.
Receiving(id) ==
  pc[Owner(id)] \in {"updating", "paused"} /\ IdOf(Owner(id)) = id
-------------------------------------------------------------------------------
(***************************************************************************)
(* Seeded faults: what the definition each is named after would be with a  *)
(* bug.  The properties are checked to tell them apart; no specification   *)
(* uses them.                                                              *)
(***************************************************************************)
\* The entry is removed and nothing is sent.
FinishFault(id, end) ==
  /\ pending' = pending \ {id}
  /\ order' = Append(order, id)
  /\ terminal' = [terminal EXCEPT ![id] = end]
  /\ UNCHANGED outcome

\* An end is recorded also for an id that has ended already.
TerminateFault(id, end) ==
  /\ pending' = pending \ {id}
  /\ order' = Append(SelectSeq(order, LAMBDA i : i # id), id)
  /\ terminal' = [terminal EXCEPT ![id] = end]
  /\ outcome' = [outcome EXCEPT ![id] = IF Receiving(id) /\ @ = "none" THEN end ELSE @]

\* The cancellation is watched while the message is read, not while it is paused.
SeeCancellationFault(c) ==
  /\ pc[c] = "open" /\ c \notin doomed
  /\ phase[of[c]] = "cancelled"
  /\ pc' = [pc EXCEPT ![c] = "closing"]
  /\ why' = [why EXCEPT ![c] = "stopped"]
  /\ UNCHANGED <<coordinator, of, stage, doomed, users, lifecycle>>

\* remember_terminal: the oldest tombstones make room for the new one.
RememberTerminal(id, end) ==
  LET longer  == Append(order, id)
      excess  == IF Len(longer) > MaxTombstones THEN Len(longer) - MaxTombstones ELSE 0
      expired == ToSet(SubSeq(longer, 1, excess))
  IN  /\ order' = SubSeq(longer, excess + 1, Len(longer))
      /\ terminal' = [i \in Ids |-> IF i \in expired THEN "none"
                                    ELSE IF i = id THEN end ELSE terminal[i]]

\* The entry goes, its channel is used up, its end is remembered.
Finish(id, end) ==
  /\ pending' = pending \ {id}
  /\ outcome' = [outcome EXCEPT ![id] = IF Receiving(id) THEN end ELSE @]
  /\ RememberTerminal(id, end)

\* terminate: nothing happens to an id that is no longer pending.
Terminate(id, end) ==
  \/ id \in pending /\ Finish(id, end)
  \/ id \notin pending /\ UNCHANGED coordinator
-------------------------------------------------------------------------------
(***************************************************************************)
(* A connection task (ConnectionService::run_connection and the pipeline   *)
(* callbacks it awaits).  "open" and "paused" are its await points: there  *)
(* it can be cancelled or aborted; from "evaluating" to the next of them   *)
(* it runs without a break, other tasks beside it.                         *)
(***************************************************************************)
Go(c, to) == pc' = [pc EXCEPT ![c] = to]

EndsWith(c, reason) ==
  /\ Go(c, "closing")
  /\ why' = [why EXCEPT ![c] = reason]

Accept(c) ==
  /\ pc[c] = "new"
  /\ current # None
  /\ phase[current] \in {"serving", "sweeping"}
  /\ of' = [of EXCEPT ![c] = current]
  /\ Go(c, "open")
  /\ UNCHANGED <<coordinator, stage, why, doomed, users, lifecycle>>

\* The message of this stage is complete: the rules are evaluated.
Evaluate(c) ==
  /\ pc[c] = "open" /\ c \notin doomed
  /\ Go(c, "evaluating")
  /\ UNCHANGED <<coordinator, of, stage, why, doomed, users, lifecycle>>

\* The stage is done: the request goes upstream, the response goes back.
Forward(c) ==
  \/ /\ stage[c] = "request"
     /\ stage' = [stage EXCEPT ![c] = "response"]
     /\ Go(c, "open")
     /\ UNCHANGED why
  \/ /\ stage[c] = "response"
     /\ EndsWith(c, "done")
     /\ UNCHANGED stage

\* No rule pauses the message, or a rule or the session store fails it.
PassThrough(c) ==
  /\ pc[c] = "evaluating"
  /\ Forward(c) \/ (EndsWith(c, "failed") /\ UNCHANGED stage)
  /\ UNCHANGED <<coordinator, of, doomed, users, lifecycle>>

\* pause: register the breakpoint.
Register(c) ==
  /\ pc[c] = "evaluating"
  /\ pending' = pending \cup {IdOf(c)}
  /\ Go(c, "updating")
  /\ UNCHANGED <<terminal, order, outcome, of, stage, why, doomed, users, lifecycle>>

\* pause: mark the session.  When that fails the receiver is dropped with the error.
UpdateSession(c) ==
  /\ pc[c] = "updating"
  /\ \/ Go(c, "paused") /\ UNCHANGED why
     \/ EndsWith(c, "failed")
  /\ UNCHANGED <<coordinator, of, stage, doomed, users, lifecycle>>

\* pause: the outcome is there; a decision is applied and may turn out impossible.
Resume(c) ==
  /\ pc[c] = "paused" /\ c \notin doomed
  /\ outcome[IdOf(c)] # "none"
  /\ \/ outcome[IdOf(c)] = "Resolved" /\ Forward(c)
     \/ outcome[IdOf(c)] = "Resolved" /\ EndsWith(c, "failed") /\ UNCHANGED stage
     \/ outcome[IdOf(c)] = "ClientDisconnected" /\ EndsWith(c, "gone") /\ UNCHANGED stage
     \/ outcome[IdOf(c)] = "ProxyStopped" /\ EndsWith(c, "stopped") /\ UNCHANGED stage
  /\ UNCHANGED <<coordinator, of, doomed, users, lifecycle>>

\* The client closes its side, or a read, a write or the upstream fails.
Disconnect(c) ==
  /\ pc[c] \in {"open", "paused"} /\ c \notin doomed
  /\ EndsWith(c, "gone")
  /\ UNCHANGED <<coordinator, of, stage, doomed, users, lifecycle>>

\* run_connection_inner sees the cancellation; pause is dropped with its receiver.
SeeCancellation(c) ==
  /\ pc[c] \in {"open", "paused"} /\ c \notin doomed
  /\ phase[of[c]] = "cancelled"
  /\ EndsWith(c, "stopped")
  /\ UNCHANGED <<coordinator, of, stage, doomed, users, lifecycle>>

\* The JoinSet of a failed or aborted listener was dropped: connection_closed never runs.
Abort(c) ==
  /\ pc[c] \in {"open", "paused"} /\ c \in doomed
  /\ Go(c, "aborted")
  /\ UNCHANGED <<coordinator, of, stage, why, doomed, users, lifecycle>>

\* connection_closed: the breakpoint of this connection that is still pending.
Close(c) ==
  /\ pc[c] = "closing"
  /\ Terminate(IdOf(c), "ClientDisconnected")
  /\ Go(c, "closed")
  /\ why' = [why EXCEPT ![c] = "none"]
  /\ UNCHANGED <<of, stage, doomed, users, lifecycle>>
-------------------------------------------------------------------------------
(***************************************************************************)
(* breakpoint_resolve: it holds no lock between the check and the call.    *)
(***************************************************************************)
\* The proxy runs, in the epoch of the breakpoint, and the breakpoint is there.
Ask(u, id) ==
  /\ asked[u] = None
  /\ proxy = "Running" /\ current = EpochOf(id)
  /\ id \in pending
  /\ asked' = [asked EXCEPT ![u] = id]
  /\ UNCHANGED <<coordinator, conns, told, lifecycle>>

\* BreakpointCoordinator::resolve.
Resolve(u) ==
  LET id == asked[u] IN
  /\ id # None /\ told[u] = "none"
  /\ \/ /\ id \notin pending
        /\ told' = [told EXCEPT ![u] = "error"]
        /\ UNCHANGED coordinator
     \/ /\ id \in pending /\ Receiving(id)
        /\ told' = [told EXCEPT ![u] = "ok"]
        /\ Finish(id, "Resolved")
     \/ /\ id \in pending /\ ~Receiving(id)
        /\ told' = [told EXCEPT ![u] = "error"]
        /\ Finish(id, "ClientDisconnected")
  /\ UNCHANGED <<conns, asked, lifecycle>>
-------------------------------------------------------------------------------
(***************************************************************************)
(* The lifecycle, as far as breakpoints see it.                            *)
(***************************************************************************)
PendingOf(e) == {id \in pending : EpochOf(id) = e}
ConnsOf(e) == {c \in Conns : of[c] = e}
Ended(c) == pc[c] \in {"closed", "aborted"}

Publish(e) ==
  /\ phase[e] = "fresh"
  /\ phase' = [phase EXCEPT ![e] = "serving"]
  /\ proxy' = "Running" /\ current' = e /\ failed' = FALSE

\* A bound of the model: the epochs it has not used up.
FreshLeft == \E e \in Epochs : phase[e] = "fresh"

\* proxy_start on a proxy without a runtime.
Start ==
  /\ op = "none" /\ proxy \in {"Stopped", "Faulted"} /\ current = None
  /\ \E e \in Epochs : Publish(e)
  /\ UNCHANGED <<coordinator, conns, users, op, swept, todo>>

\* proxy_start on a faulted runtime, which the supervisor takes down first; proxy_stop;
\* app_shutdown; or cleanup_failed_start, when the effective settings cannot be stored.
Begin(k) ==
  /\ op = "none" /\ current # None
  /\ \/ k = "start" /\ proxy = "Faulted" /\ FreshLeft /\ UNCHANGED proxy
     \/ k = "undo" /\ proxy = "Running" /\ proxy' = "Stopping"
     \/ k \in {"stop", "shutdown"} /\ proxy' = "Stopping"
  /\ op' = k
  /\ UNCHANGED <<coordinator, conns, users, current, phase, failed, swept, todo>>

\* run_listener fails: the connections it had accepted are aborted.
ListenerFails ==
  /\ current # None /\ phase[current] = "serving" /\ ~failed
  /\ failed' = TRUE
  /\ \E S \in SUBSET ConnsOf(current) : doomed' = doomed \cup {c \in S : ~Ended(c)}
  /\ UNCHANGED <<coordinator, of, pc, stage, why, users,
                 proxy, current, phase, op, swept, todo>>

\* runtime_stopping, on behalf of the call or of the watchdog: proxy_stopped collects.
Collect ==
  /\ current # None /\ phase[current] = "serving"
  /\ op # "none" \/ failed
  /\ phase' = [phase EXCEPT ![current] = "sweeping"]
  /\ todo' = PendingOf(current)
  /\ UNCHANGED <<coordinator, conns, users, proxy, current, failed, op, swept>>

\* proxy_stopped terminates one of the ids it has collected.
SweepOne ==
  /\ \E id \in todo :
       /\ Terminate(id, "ProxyStopped")
       /\ todo' = todo \ {id}
  /\ UNCHANGED <<conns, users, proxy, current, phase, failed, op, swept>>

\* The callback has returned: the epoch is cancelled.
Cancel ==
  /\ current # None /\ phase[current] = "sweeping" /\ todo = {}
  /\ phase' = [phase EXCEPT ![current] = "cancelled"]
  /\ UNCHANGED <<coordinator, conns, users, proxy, current, failed, op, swept, todo>>

MarkFaulted ==
  /\ current # None /\ phase[current] = "cancelled" /\ failed
  /\ proxy = "Running"
  /\ proxy' = "Faulted"
  /\ UNCHANGED <<coordinator, conns, users, current, phase, failed, op, swept, todo>>

\* Every task the listeners still own has ended.  A stop and a shutdown sweep again.
Joined ==
  /\ op \in {"start", "stop", "shutdown", "undo"} /\ phase[current] = "cancelled"
  /\ \A c \in ConnsOf(current) : Ended(c) \/ c \in doomed
  /\ \/ /\ op = "start"
        /\ \E e \in Epochs : Publish(e)
        /\ op' = "none" /\ UNCHANGED swept
     \/ /\ op # "start"
        /\ proxy' = "Stopped" /\ current' = None
        /\ \/ op = "undo" /\ op' = "none" /\ UNCHANGED swept
           \/ op # "undo" /\ op' = "sweep" /\ swept' = current
        /\ UNCHANGED <<phase, failed>>
  /\ UNCHANGED <<coordinator, conns, users, todo>>

\* The grace period ends first: the call fails, and only a shutdown goes on to its sweep.
JoinTimesOut ==
  /\ op \in {"start", "stop", "shutdown", "undo"} /\ phase[current] = "cancelled"
  /\ \E c \in ConnsOf(current) : ~Ended(c) /\ c \notin doomed
  /\ doomed' = doomed \cup {c \in ConnsOf(current) : ~Ended(c)}
  /\ proxy' = "Faulted" /\ current' = None
  /\ \/ op = "shutdown" /\ op' = "sweep" /\ swept' = current
     \/ op # "shutdown" /\ op' = "none" /\ UNCHANGED swept
  /\ UNCHANGED <<coordinator, of, pc, stage, why, users, phase, failed, todo>>

SweepAgain ==
  /\ op = "sweep"
  /\ op' = "sweeping"
  /\ todo' = PendingOf(swept)
  /\ UNCHANGED <<coordinator, conns, users, proxy, current, phase, failed, swept>>

FacadeReturns ==
  /\ op = "sweeping" /\ todo = {}
  /\ op' = "none" /\ swept' = None
  /\ UNCHANGED <<coordinator, conns, users, proxy, current, phase, failed, todo>>
-------------------------------------------------------------------------------
ConnStep(c) ==
  \/ PassThrough(c) \/ UpdateSession(c) \/ Resume(c)
  \/ SeeCancellation(c) \/ Abort(c) \/ Close(c)

LifecycleStep ==
  \/ Collect \/ SweepOne \/ Cancel \/ MarkFaulted \/ Joined \/ JoinTimesOut
  \/ SweepAgain \/ FacadeReturns

\* The epochs are used up and every task has come to its end.
AllOver ==
  /\ ~FreshLeft /\ op = "none" /\ current = None
  /\ \A c \in Conns : pc[c] = "new" \/ Ended(c)
  /\ UNCHANGED vars

Next ==
  \/ \E c \in Conns : Accept(c) \/ Evaluate(c) \/ Register(c) \/ Disconnect(c) \/ ConnStep(c)
  \/ \E u \in Users : (\E id \in Ids : Ask(u, id)) \/ Resolve(u)
  \/ Start \/ \E k \in FacadeOps : Begin(k)
  \/ ListenerFails
  \/ LifecycleStep
  \/ AllOver

Spec == Init /\ [][Next]_vars

(***************************************************************************)
(* Tasks that can go on are polled, and a lifecycle call runs to its end.  *)
(* No client has to send, no user has to decide, no listener has to fail.  *)
(***************************************************************************)
Fairness ==
  /\ \A c \in Conns : WF_vars(ConnStep(c))
  /\ WF_vars(LifecycleStep)

FairSpec == Spec /\ Fairness
-------------------------------------------------------------------------------
(***************************************************************************)
(* Properties.                                                             *)
(***************************************************************************)
\* A task that waits can be woken: its entry is still pending or its outcome is there.
NoLostWakeup ==
  \A c \in Conns : pc[c] = "paused" => IdOf(c) \in pending \/ outcome[IdOf(c)] # "none"

\* Of the commands that race for one breakpoint at most one is told that it succeeded.
OneDecision ==
  \A u, v \in Users :
    told[u] = "ok" /\ told[v] = "ok" /\ asked[u] = asked[v] => u = v

\* The coordinator, the waiting task and the user agree about how a breakpoint ended.
Agreement ==
  /\ \A id \in Ids :
       /\ id \in pending => outcome[id] = "none" /\ terminal[id] = "none"
       /\ outcome[id] # "none" => terminal[id] \in {outcome[id], "none"}
  /\ \A u \in Users : told[u] = "ok" => outcome[asked[u]] = "Resolved"

\* An entry stays pending only as long as its connection can still end it, or when that
\* connection was aborted without connection_closed.
PendingHasOwner ==
  \A id \in pending :
    \/ IdOf(Owner(id)) = id /\ pc[Owner(id)] \in {"updating", "paused", "closing"}
    \/ Owner(id) \in doomed

\* The tombstones and their order list the same ids, each once, within the bound.
TombstonesAgree ==
  /\ Len(order) <= MaxTombstones
  /\ Cardinality(ToSet(order)) = Len(order)
  /\ \A id \in Ids : terminal[id] # "none" <=> id \in ToSet(order)

\* The coordinator, the connections and the users agree, and what the coordinator keeps
\* of a breakpoint is bounded and belongs to somebody.
EveryoneAgrees == OneDecision /\ Agreement /\ PendingHasOwner /\ TombstonesAgree

\* A stop or a fault ends every pause of its epoch, whatever the user does.
StopEndsPauses ==
  \A c \in Conns :
    (pc[c] = "paused" /\ phase[of[c]] # "serving") ~> (pc[c] \in {"closed", "aborted"})

\* A connection that ends because the proxy stops leaves no breakpoint behind as
\* ClientDisconnected (requirements CONSOLE-010 and BREAKPOINT-015).
StopMarksProxyStopped ==
  [][\A c \in Conns :
       pc[c] = "closing" /\ pc'[c] = "closed" /\ why[c] = "stopped" =>
         (IdOf(c) \notin pending)]_vars
================================================================================
