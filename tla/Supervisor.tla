------------------------------ MODULE Supervisor ------------------------------
(***************************************************************************)
(* ProxySupervisor (crates/proxy/src/supervisor.rs): the owner of every    *)
(* listener task.  start, stop and restart each run in a task of their     *)
(* own, serialised by the `operation` mutex; one watchdog per runtime      *)
(* epoch waits for the first listener that fails; the runtime_stopping     *)
(* callback must reach the pipeline exactly once per epoch, is retried     *)
(* when it fails and must precede the cancellation of the epoch.           *)
(*                                                                         *)
(* An action is what runs between two awaits that another task can         *)
(* observe.  Addresses, services and fault texts are left out: listeners   *)
(* and fault are always assigned together with state and epoch.            *)
(***************************************************************************)
EXTENDS Naturals, FiniteSets

CONSTANTS Ops,       (* lifecycle calls; each is made at most once           *)
          Epochs,    (* runtime epochs (UUIDs) that can be drawn             *)
          Channels,  (* the enabled channels, one listener each              *)
          None,      (* the absent value of every Option                     *)
          Gated,     (* callers hold the facade's mutation_gate for the call *)
          MayPanic   (* ListenerBinder or RuntimeServiceFactory may panic    *)

ASSUME SupervisorAssumption ==
  /\ None \notin Ops \cup Epochs
  /\ Ops \cap Epochs = {}
  /\ Gated \in BOOLEAN /\ MayPanic \in BOOLEAN

VARIABLES
  state, epoch,      (* Lifecycle.state, Lifecycle.epoch                     *)
  opLock,            (* the holder of `operation`                            *)
  runtime,           (* the epoch of `runtime`                               *)
  pending,           (* the epoch of `pending_cleanup`                       *)
  active,            (* the epoch of the token in `active_cancellation`      *)
  \* one of each per runtime epoch
  cancelled,         (* its CancellationToken                                *)
  completed,         (* StoppingNotification.completed                       *)
  notifier,          (* the holder of StoppingNotification.operation         *)
  gate,              (* the listeners_ready watch value                      *)
  listener,          (* the listener task of each channel                    *)
  fatal,             (* a listener error waits in fatal_tx                   *)
  watchdog,          (* where the watchdog task is                           *)
  \* one of each per call
  kind, phase, pc,   (* start | stop | restart, the inner call, the await    *)
  target, retry,     (* the epoch it dismantles, found in pending_cleanup?   *)
  ok                 (* the Result of cleanup_runtime so far                 *)

lifecycle == <<state, epoch>>
owned     == <<runtime, pending, active>>
tasks     == <<gate, listener, fatal, watchdog>>
calls     == <<kind, phase, pc, target, retry, ok>>
vars == <<lifecycle, opLock, owned, cancelled, completed, notifier, tasks, calls>>

Kinds == {"start", "stop", "restart"}

OpPcs == {"idle", "queue", "clean", "check", "lock", "call", "take", "cancel",
          "join", "release", "settle", "prepare", "store", "publish", "open", "done"}

WatchdogPcs == {"none", "watch", "check", "lock", "call", "cancel", "mark",
                "report", "done"}

ListenerPcs == {"none", "gate", "serving", "done"}

Option(S) == S \cup {None}

TypeOK ==
  /\ state \in {"Stopped", "Starting", "Running", "Stopping", "Faulted"}
  /\ epoch \in Option(Epochs)
  /\ opLock \in Option(Ops)
  /\ runtime \in Option(Epochs)
  /\ pending \in Option(Epochs)
  /\ active \in Option(Epochs)
  /\ cancelled \in [Epochs -> BOOLEAN]
  /\ completed \in [Epochs -> BOOLEAN]
  /\ notifier \in [Epochs -> Option(Ops \cup Epochs)]
  /\ gate \in [Epochs -> BOOLEAN]
  /\ listener \in [Epochs -> [Channels -> ListenerPcs]]
  /\ fatal \in [Epochs -> BOOLEAN]
  /\ watchdog \in [Epochs -> WatchdogPcs]
  /\ kind \in [Ops -> Kinds]
  /\ phase \in [Ops -> {"start", "stop", "unwind"}]
  /\ pc \in [Ops -> OpPcs]
  /\ target \in [Ops -> Option(Epochs)]
  /\ retry \in [Ops -> BOOLEAN]
  /\ ok \in [Ops -> BOOLEAN]

Init ==
  /\ state = "Stopped" /\ epoch = None
  /\ opLock = None
  /\ runtime = None /\ pending = None /\ active = None
  /\ cancelled = [e \in Epochs |-> FALSE]
  /\ completed = [e \in Epochs |-> FALSE]
  /\ notifier = [e \in Epochs |-> None]
  /\ gate = [e \in Epochs |-> FALSE]
  /\ listener = [e \in Epochs |-> [c \in Channels |-> "none"]]
  /\ fatal = [e \in Epochs |-> FALSE]
  /\ watchdog = [e \in Epochs |-> "none"]
  /\ kind = [o \in Ops |-> "start"]
  /\ phase = [o \in Ops |-> "start"]
  /\ pc = [o \in Ops |-> "idle"]
  /\ target = [o \in Ops |-> None]
  /\ retry = [o \in Ops |-> FALSE]
  /\ ok = [o \in Ops |-> TRUE]
-------------------------------------------------------------------------------
(***************************************************************************)
(* Helpers.                                                                *)
(***************************************************************************)
Goto(o, to) == pc' = [pc EXCEPT ![o] = to]

Spawned(e) == watchdog[e] # "none"

Unlock(o) == opLock' = IF phase[o] = "unwind" THEN opLock ELSE None

\* The inner call fails, or an error leaves the epoch without an owner.
Fault(o) ==
  /\ state' = "Faulted" /\ epoch' = None
  /\ Unlock(o)
  /\ Goto(o, "done")

\* stop_inner returned Ok: a restart goes on with start_inner, the lock released.
StopReturned(o) ==
  \/ kind[o] = "restart" /\ phase' = [phase EXCEPT ![o] = "start"] /\ Goto(o, "queue")
  \/ kind[o] # "restart" /\ Goto(o, "done") /\ UNCHANGED phase

\* What the call does with the outcome of notify_runtime_stopping.
Notified(o, success) ==
  /\ ok' = [ok EXCEPT ![o] = success]
  /\ \/ retry[o] /\ success /\ Goto(o, "take") /\ UNCHANGED pending
     \/ retry[o] /\ ~success /\ Goto(o, "settle") /\ pending' = target[o]
     \/ ~retry[o] /\ Goto(o, "cancel") /\ UNCHANGED pending

\* The watchdog of e goes on.
Step(e, from, to) == watchdog[e] = from /\ watchdog' = [watchdog EXCEPT ![e] = to]

TasksEnded(e) ==
  /\ \A c \in Channels : listener[e][c] = "done"
  /\ watchdog[e] = "done"
-------------------------------------------------------------------------------
(***************************************************************************)
(* Seeded faults: what the definition each is named after would be with a  *)
(* bug.  The properties are checked to tell them apart; no specification   *)
(* uses them.                                                              *)
(***************************************************************************)
\* A failed callback is not kept for the next cleanup.
KeepForRetryFault(e, succeeded) == UNCHANGED pending

\* A stopped proxy is stopped once more.
BeginStopFault(o) ==
  /\ pc[o] = "queue" /\ phase[o] = "stop" /\ opLock = None
  /\ opLock' = o
  /\ state' = "Stopping"
  /\ Goto(o, "clean")
  /\ UNCHANGED <<epoch, owned, cancelled, completed, notifier, tasks,
                 kind, phase, target, retry, ok>>

\* A running proxy is started once more.
BeginStartFault(o) ==
  /\ pc[o] = "queue" /\ phase[o] = "start" /\ opLock = None
  /\ opLock' = o
  /\ Goto(o, "clean")
  /\ UNCHANGED <<lifecycle, owned, cancelled, completed, notifier, tasks,
                 kind, phase, target, retry, ok>>

\* The watchdog keeps the notification lock when its callback fails.
WatchdogNotifiedFault(e) ==
  /\ Step(e, "call", "cancel")
  /\ \E success \in BOOLEAN :
       /\ notifier' = [notifier EXCEPT ![e] = IF success THEN None ELSE @]
       /\ completed' = [completed EXCEPT ![e] = @ \/ success]
  /\ UNCHANGED <<lifecycle, opLock, owned, cancelled, gate, listener, fatal, calls>>

\* The tasks that outlive the grace period are left to themselves.
JoinTimesOutFault(o) ==
  /\ pc[o] = "join"
  /\ ~TasksEnded(target[o])
  /\ ok' = [ok EXCEPT ![o] = FALSE]
  /\ pending' = IF ~completed[target[o]] THEN target[o] ELSE pending
  /\ Goto(o, "release")
  /\ UNCHANGED <<lifecycle, opLock, runtime, active, cancelled, completed, notifier,
                 tasks, kind, phase, target, retry>>

\* The gate opens with the runtime stored, before Running is published.
StoreRuntimeFault(o) ==
  /\ pc[o] = "store"
  /\ runtime' = target[o]
  /\ gate' = [gate EXCEPT ![target[o]] = TRUE]
  /\ Goto(o, "publish")
  /\ UNCHANGED <<lifecycle, opLock, pending, active, cancelled, completed, notifier,
                 listener, fatal, watchdog, kind, phase, target, retry, ok>>

\* The operation lock ends with Running, before the gate is opened.
PublishRunningFault(o) ==
  /\ pc[o] = "publish"
  /\ state' = "Running" /\ epoch' = target[o]
  /\ opLock' = None
  /\ Goto(o, "open")
  /\ UNCHANGED <<owned, cancelled, completed, notifier,
                 tasks, kind, phase, target, retry, ok>>

\* The fault of the published epoch is dropped as if it were an old one's.
MarkFaultedFault(e) ==
  /\ Step(e, "mark", "report")
  /\ state' = IF epoch # e THEN "Faulted" ELSE state
  /\ UNCHANGED <<epoch, opLock, owned, cancelled, completed, notifier,
                 gate, listener, fatal, calls>>
-------------------------------------------------------------------------------
\* cleanup_runtime keeps what it needs to retry a callback that did not complete.
KeepForRetry(e, succeeded) ==
  pending' = IF ~succeeded /\ ~completed[e] THEN e ELSE pending
-------------------------------------------------------------------------------
(***************************************************************************)
(* A call: tokio::spawn detaches it from its caller, so it always runs to  *)
(* its end.                                                                *)
(***************************************************************************)
Call(o, k) ==
  /\ pc[o] = "idle"
  /\ Gated => \A p \in Ops : pc[p] \in {"idle", "done"}
  /\ kind' = [kind EXCEPT ![o] = k]
  /\ phase' = [phase EXCEPT ![o] = IF k = "start" THEN "start" ELSE "stop"]
  /\ Goto(o, "queue")
  /\ UNCHANGED <<lifecycle, opLock, owned, cancelled, completed, notifier, tasks,
                 target, retry, ok>>

\* stop_inner on a stopped proxy returns at once.
StopStopped(o) ==
  /\ pc[o] = "queue" /\ phase[o] = "stop" /\ opLock = None
  /\ state = "Stopped"
  /\ StopReturned(o)
  /\ UNCHANGED <<lifecycle, opLock, owned, cancelled, completed, notifier, tasks,
                 kind, target, retry, ok>>

BeginStop(o) ==
  /\ pc[o] = "queue" /\ phase[o] = "stop" /\ opLock = None
  /\ state # "Stopped"
  /\ opLock' = o
  /\ state' = "Stopping"
  /\ Goto(o, "clean")
  /\ UNCHANGED <<epoch, owned, cancelled, completed, notifier, tasks,
                 kind, phase, target, retry, ok>>

\* config.validate() fails, or the proxy is already running.
RejectStart(o) ==
  /\ pc[o] = "queue" /\ phase[o] = "start" /\ opLock = None
  /\ Goto(o, "done")
  /\ UNCHANGED <<lifecycle, opLock, owned, cancelled, completed, notifier, tasks,
                 kind, phase, target, retry, ok>>

BeginStart(o) ==
  /\ pc[o] = "queue" /\ phase[o] = "start" /\ opLock = None
  /\ state # "Running"
  /\ opLock' = o
  /\ Goto(o, "clean")
  /\ UNCHANGED <<lifecycle, owned, cancelled, completed, notifier, tasks,
                 kind, phase, target, retry, ok>>
-------------------------------------------------------------------------------
(***************************************************************************)
(* cleanup_runtime: first the callback that is still owed to an epoch that *)
(* is gone, then the runtime.                                              *)
(***************************************************************************)
TakePending(o) ==
  /\ pc[o] = "clean"
  /\ \/ /\ pending = None
        /\ Goto(o, "take")
        /\ UNCHANGED <<pending, target, retry>>
     \/ /\ pending # None
        /\ Goto(o, "check")
        /\ target' = [target EXCEPT ![o] = pending]
        /\ retry' = [retry EXCEPT ![o] = TRUE]
        /\ pending' = None
  /\ UNCHANGED <<lifecycle, opLock, runtime, active, cancelled, completed, notifier,
                 tasks, kind, phase, ok>>

TakeRuntime(o) ==
  /\ pc[o] = "take"
  /\ \/ /\ runtime = None
        /\ Goto(o, "release")
        /\ ok' = [ok EXCEPT ![o] = TRUE]
        /\ UNCHANGED <<runtime, target, retry>>
     \/ /\ runtime # None
        /\ Goto(o, "check")
        /\ target' = [target EXCEPT ![o] = runtime]
        /\ retry' = [retry EXCEPT ![o] = FALSE]
        /\ runtime' = None
        /\ UNCHANGED ok
  /\ UNCHANGED <<lifecycle, opLock, pending, active, cancelled, completed, notifier,
                 tasks, kind, phase>>

\* notify_runtime_stopping, the check before the notification lock.
CheckNotified(o) ==
  /\ pc[o] = "check"
  /\ \/ completed[target[o]] /\ Notified(o, TRUE)
     \/ ~completed[target[o]] /\ Goto(o, "lock") /\ UNCHANGED <<pending, ok>>
  /\ UNCHANGED <<lifecycle, opLock, runtime, active, cancelled, completed, notifier,
                 tasks, kind, phase, target, retry>>

\* The lock is granted and the flag read again: the watchdog may have notified meanwhile.
LockNotification(o) ==
  /\ pc[o] = "lock"
  /\ notifier[target[o]] = None
  /\ \/ /\ completed[target[o]]
        /\ Notified(o, TRUE)
        /\ UNCHANGED notifier
     \/ /\ ~completed[target[o]]
        /\ notifier' = [notifier EXCEPT ![target[o]] = o]
        /\ Goto(o, "call")
        /\ UNCHANGED <<pending, ok>>
  /\ UNCHANGED <<lifecycle, opLock, runtime, active, cancelled, completed,
                 tasks, kind, phase, target, retry>>

\* runtime_stopping returns; or it panics or exceeds SHUTDOWN_GRACE_PERIOD.
NotificationReturns(o) ==
  /\ pc[o] = "call"
  /\ notifier' = [notifier EXCEPT ![target[o]] = None]
  /\ \E success \in BOOLEAN :
       /\ completed' = [completed EXCEPT ![target[o]] = @ \/ success]
       /\ Notified(o, success)
  /\ UNCHANGED <<lifecycle, opLock, runtime, active, cancelled,
                 tasks, kind, phase, target, retry>>
-------------------------------------------------------------------------------
(***************************************************************************)
(* shutdown_runtime after the notification, and the end of                 *)
(* cleanup_runtime.                                                        *)
(***************************************************************************)
CancelRuntime(o) ==
  /\ pc[o] = "cancel"
  /\ cancelled' = [cancelled EXCEPT ![target[o]] = TRUE]
  /\ Goto(o, "join")
  /\ UNCHANGED <<lifecycle, opLock, owned, completed, notifier, tasks,
                 kind, phase, target, retry, ok>>

Joined(o) ==
  /\ pc[o] = "join"
  /\ TasksEnded(target[o])
  /\ KeepForRetry(target[o], ok[o])
  /\ Goto(o, "release")
  /\ UNCHANGED <<lifecycle, opLock, runtime, active, cancelled, completed, notifier,
                 tasks, kind, phase, target, retry, ok>>

\* The grace period ends first: the tasks are aborted and joined, and a callback the
\* watchdog was in is dropped with the lock it held.
JoinTimesOut(o) ==
  LET e == target[o] IN
  /\ pc[o] = "join"
  /\ ~TasksEnded(e)
  /\ listener' = [listener EXCEPT ![e] = [c \in Channels |-> "done"]]
  /\ watchdog' = [watchdog EXCEPT ![e] = "done"]
  /\ notifier' = [notifier EXCEPT ![e] = IF @ = e THEN None ELSE @]
  /\ ok' = [ok EXCEPT ![o] = FALSE]
  /\ KeepForRetry(e, FALSE)
  /\ Goto(o, "release")
  /\ UNCHANGED <<lifecycle, opLock, runtime, active, cancelled, completed, gate, fatal,
                 kind, phase, target, retry>>

ReleaseToken(o) ==
  /\ pc[o] = "release"
  /\ cancelled' = IF active = None THEN cancelled
                  ELSE [cancelled EXCEPT ![active] = TRUE]
  /\ active' = None
  /\ Goto(o, "settle")
  /\ UNCHANGED <<lifecycle, opLock, runtime, pending, completed, notifier, tasks,
                 kind, phase, target, retry, ok>>
-------------------------------------------------------------------------------
(***************************************************************************)
(* What each caller of cleanup_runtime does with its result.               *)
(***************************************************************************)
StopSettles(o) ==
  /\ pc[o] = "settle" /\ phase[o] = "stop"
  /\ \/ /\ ok[o]
        /\ state' = "Stopped" /\ epoch' = None
        /\ Unlock(o)
        /\ StopReturned(o)
     \/ ~ok[o] /\ Fault(o) /\ UNCHANGED phase
  /\ UNCHANGED <<owned, cancelled, completed, notifier, tasks, kind, target, retry, ok>>

StartSettles(o) ==
  /\ pc[o] = "settle" /\ phase[o] = "start"
  /\ \/ /\ ok[o]
        /\ state' = "Starting" /\ epoch' = None
        /\ Goto(o, "prepare")
        /\ UNCHANGED opLock
     \/ ~ok[o] /\ Fault(o)
  /\ UNCHANGED <<owned, cancelled, completed, notifier, tasks,
                 kind, phase, target, retry, ok>>

\* run_guarded after a panic; unwinding has released the operation lock already.
UnwindSettles(o) ==
  /\ pc[o] = "settle" /\ phase[o] = "unwind"
  /\ Fault(o)
  /\ UNCHANGED <<owned, cancelled, completed, notifier, tasks,
                 kind, phase, target, retry, ok>>
-------------------------------------------------------------------------------
(***************************************************************************)
(* start_inner after its cleanup.                                          *)
(***************************************************************************)
\* A port is taken, or a certificate or upstream is unusable: earlier binds are dropped.
PrepareFails(o) ==
  /\ pc[o] = "prepare"
  /\ Fault(o)
  /\ UNCHANGED <<owned, cancelled, completed, notifier, tasks,
                 kind, phase, target, retry, ok>>

\* The binder or the factory panics: the guard of `operation` goes with the stack, and
\* catch_unwind hands over to run_guarded, which cleans up without the lock.
PreparePanics(o) ==
  /\ MayPanic
  /\ pc[o] = "prepare"
  /\ opLock' = None
  /\ phase' = [phase EXCEPT ![o] = "unwind"]
  /\ Goto(o, "clean")
  /\ UNCHANGED <<lifecycle, owned, cancelled, completed, notifier, tasks,
                 kind, target, retry, ok>>

\* Everything is bound and built: a fresh epoch, its token and its tasks.
SpawnTasks(o) ==
  /\ pc[o] = "prepare"
  /\ \E e \in Epochs :
       /\ ~Spawned(e)
       /\ target' = [target EXCEPT ![o] = e]
       /\ active' = e
       /\ listener' = [listener EXCEPT ![e] = [c \in Channels |-> "gate"]]
       /\ watchdog' = [watchdog EXCEPT ![e] = "watch"]
  /\ Goto(o, "store")
  /\ UNCHANGED <<lifecycle, opLock, runtime, pending, cancelled, completed, notifier,
                 gate, fatal, kind, phase, retry, ok>>

StoreRuntime(o) ==
  /\ pc[o] = "store"
  /\ runtime' = target[o]
  /\ Goto(o, "publish")
  /\ UNCHANGED <<lifecycle, opLock, pending, active, cancelled, completed, notifier,
                 tasks, kind, phase, target, retry, ok>>

PublishRunning(o) ==
  /\ pc[o] = "publish"
  /\ state' = "Running" /\ epoch' = target[o]
  /\ Goto(o, "open")
  /\ UNCHANGED <<opLock, owned, cancelled, completed, notifier,
                 tasks, kind, phase, target, retry, ok>>

OpenGate(o) ==
  /\ pc[o] = "open"
  /\ gate' = [gate EXCEPT ![target[o]] = TRUE]
  /\ Unlock(o)
  /\ Goto(o, "done")
  /\ UNCHANGED <<lifecycle, owned, cancelled, completed, notifier, listener, fatal,
                 watchdog, kind, phase, target, retry, ok>>
-------------------------------------------------------------------------------
(***************************************************************************)
(* The listener tasks of an epoch (spawn_listener_task).                   *)
(***************************************************************************)
PassGate(e, c) ==
  /\ listener[e][c] = "gate" /\ gate[e]
  /\ listener' = [listener EXCEPT ![e][c] = IF cancelled[e] THEN "done" ELSE "serving"]
  /\ UNCHANGED <<lifecycle, opLock, owned, cancelled, completed, notifier,
                 gate, fatal, watchdog, calls>>

\* run_listener saw the cancellation and joined its connections.
ListenerEnds(e, c) ==
  /\ listener[e][c] = "serving" /\ cancelled[e]
  /\ listener' = [listener EXCEPT ![e][c] = "done"]
  /\ UNCHANGED <<lifecycle, opLock, owned, cancelled, completed, notifier,
                 gate, fatal, watchdog, calls>>

\* It returned an error, returned early or panicked, and nobody had cancelled it.
ListenerFails(e, c) ==
  /\ listener[e][c] = "serving" /\ ~cancelled[e]
  /\ listener' = [listener EXCEPT ![e][c] = "done"]
  /\ fatal' = [fatal EXCEPT ![e] = TRUE]
  /\ UNCHANGED <<lifecycle, opLock, owned, cancelled, completed, notifier,
                 gate, watchdog, calls>>
-------------------------------------------------------------------------------
(***************************************************************************)
(* The watchdog of an epoch (spawn_watchdog).                              *)
(***************************************************************************)
WatchCancelled(e) ==
  /\ cancelled[e] /\ Step(e, "watch", "done")
  /\ UNCHANGED <<lifecycle, opLock, owned, cancelled, completed, notifier,
                 gate, listener, fatal, calls>>

WatchFatal(e) ==
  /\ fatal[e] /\ Step(e, "watch", "check")
  /\ UNCHANGED <<lifecycle, opLock, owned, cancelled, completed, notifier,
                 gate, listener, fatal, calls>>

WatchdogChecks(e) ==
  /\ Step(e, "check", IF completed[e] THEN "cancel" ELSE "lock")
  /\ UNCHANGED <<lifecycle, opLock, owned, cancelled, completed, notifier,
                 gate, listener, fatal, calls>>

WatchdogLocks(e) ==
  /\ notifier[e] = None
  /\ Step(e, "lock", IF completed[e] THEN "cancel" ELSE "call")
  /\ notifier' = IF completed[e] THEN notifier ELSE [notifier EXCEPT ![e] = e]
  /\ UNCHANGED <<lifecycle, opLock, owned, cancelled, completed,
                 gate, listener, fatal, calls>>

\* A failed callback is only logged here; the next cleanup retries it.
WatchdogNotified(e) ==
  /\ Step(e, "call", "cancel")
  /\ notifier' = [notifier EXCEPT ![e] = None]
  /\ \E success \in BOOLEAN : completed' = [completed EXCEPT ![e] = @ \/ success]
  /\ UNCHANGED <<lifecycle, opLock, owned, cancelled, gate, listener, fatal, calls>>

WatchdogCancels(e) ==
  /\ Step(e, "cancel", "mark")
  /\ cancelled' = [cancelled EXCEPT ![e] = TRUE]
  /\ UNCHANGED <<lifecycle, opLock, owned, completed, notifier,
                 gate, listener, fatal, calls>>

\* Only the epoch that is still published may fault the proxy.
MarkFaulted(e) ==
  /\ Step(e, "mark", "report")
  /\ state' = IF epoch = e THEN "Faulted" ELSE state
  /\ UNCHANGED <<epoch, opLock, owned, cancelled, completed, notifier,
                 gate, listener, fatal, calls>>

\* runtime_fault returned, panicked or ran out of time.
ReportFault(e) ==
  /\ Step(e, "report", "done")
  /\ UNCHANGED <<lifecycle, opLock, owned, cancelled, completed, notifier,
                 gate, listener, fatal, calls>>
-------------------------------------------------------------------------------
OpStep(o) ==
  \/ StopStopped(o) \/ BeginStop(o) \/ RejectStart(o) \/ BeginStart(o)
  \/ TakePending(o) \/ TakeRuntime(o)
  \/ CheckNotified(o) \/ LockNotification(o) \/ NotificationReturns(o)
  \/ CancelRuntime(o) \/ Joined(o) \/ JoinTimesOut(o) \/ ReleaseToken(o)
  \/ StopSettles(o) \/ StartSettles(o) \/ UnwindSettles(o)
  \/ PrepareFails(o) \/ PreparePanics(o) \/ SpawnTasks(o)
  \/ StoreRuntime(o) \/ PublishRunning(o) \/ OpenGate(o)

WatchdogStep(e) ==
  \/ WatchCancelled(e) \/ WatchFatal(e)
  \/ WatchdogChecks(e) \/ WatchdogLocks(e) \/ WatchdogNotified(e)
  \/ WatchdogCancels(e) \/ MarkFaulted(e) \/ ReportFault(e)

ListenerStep(e, c) == PassGate(e, c) \/ ListenerEnds(e, c) \/ ListenerFails(e, c)

\* Every call has returned: the proxy waits for the next one.
AllReturned == (\A o \in Ops : pc[o] = "done") /\ UNCHANGED vars

Next ==
  \/ \E o \in Ops, k \in Kinds : Call(o, k)
  \/ \E o \in Ops : OpStep(o)
  \/ \E e \in Epochs : WatchdogStep(e)
  \/ \E e \in Epochs, c \in Channels : ListenerStep(e, c)
  \/ AllReturned

Spec == Init /\ [][Next]_vars

(***************************************************************************)
(* The runtime polls every task that can go on.  A listener's own failure  *)
(* is not owed to anyone, and a listener that ignores its cancellation     *)
(* holds up a join only until the grace period ends.                       *)
(***************************************************************************)
Fairness ==
  /\ \A o \in Ops : WF_vars(OpStep(o))
  /\ \A e \in Epochs : WF_vars(WatchdogStep(e))

FairSpec == Spec /\ Fairness
-------------------------------------------------------------------------------
(***************************************************************************)
(* Properties.                                                             *)
(***************************************************************************)
\* A call that is past its lock: it may touch runtime, pending_cleanup and the token.
Busy(o) == pc[o] \notin {"idle", "queue", "done"}

Alive(e) ==
  \/ \E c \in Channels : listener[e][c] \in {"gate", "serving"}
  \/ watchdog[e] \notin {"none", "done"}

\* Start, stop and restart never handle the tasks of the same epoch at the same time: the
\* operation lock covers the whole lifecycle transaction (supervisor.rs:449).
Handles(o, e) ==
  /\ target[o] = e
  /\ pc[o] \in {"check", "lock", "call", "cancel", "join", "store", "publish", "open"}

TransactionsApart ==
  \A o, p \in Ops, e \in Epochs : Handles(o, e) /\ Handles(p, e) => o = p

\* A stopped proxy, or a faulted one that shows no epoch, has no task left: no listener
\* accepts, no watchdog can still write the lifecycle.
NoStrayTasks ==
  state = "Stopped" \/ (state = "Faulted" /\ epoch = None) =>
    \A e \in Epochs : ~Alive(e)

\* Running is shown only for a runtime that is really held, whose gate opens or is open,
\* and that nobody has cancelled but its own watchdog, about to mark it Faulted.
RunningIsBacked ==
  state = "Running" =>
    /\ runtime = epoch /\ active = epoch /\ epoch # None
    /\ gate[epoch] \/ \E o \in Ops : pc[o] = "open" /\ target[o] = epoch
    /\ cancelled[epoch] => watchdog[epoch] = "mark"

\* The tasks of two runtimes are never alive together, and while a start binds its ports
\* no earlier listener can still hold one.
OneRuntimeAtATime ==
  /\ \A e, f \in Epochs : Alive(e) /\ Alive(f) => e = f
  /\ \A o \in Ops : pc[o] = "prepare" => \A e \in Epochs : ~Alive(e)

\* Both: a runtime's tasks end before the proxy says it stopped, and before the next
\* runtime binds its ports.
NoTaskOutlives == NoStrayTasks /\ OneRuntimeAtATime

\* runtime_stopping is owed to every epoch until it completes: an epoch whose callback
\* has not completed is held by the supervisor or by the call that is dismantling it.
NoEpochForgotten ==
  \A e \in Epochs : Spawned(e) /\ ~completed[e] =>
    \/ runtime = e
    \/ pending = e
    \/ \E o \in Ops : target[o] = e /\
         pc[o] \in {"check", "lock", "call", "cancel", "join", "store"}

\* The callback of one epoch runs in at most one task, and never again once it completed.
NotifiedOnce ==
  \A e \in Epochs :
    LET inCall == {o \in Ops : pc[o] = "call" /\ target[o] = e} \cup
                  {f \in {e} : watchdog[f] = "call"}
    IN  /\ \A x, y \in inCall : x = y
        /\ completed[e] => inCall = {}

\* Both: runtime_stopping completes once for every epoch, whichever call or watchdog
\* dismantles it.
CalledOnce == NoEpochForgotten /\ NotifiedOnce

\* A listener starts to accept only for the epoch the lifecycle shows at that moment, in
\* a proxy that is Running or just about to stop.
AcceptsOnlyWhenPublished ==
  [][\A e \in Epochs, c \in Channels :
       listener[e][c] # "serving" /\ listener'[e][c] = "serving" =>
         epoch = e /\ state \in {"Running", "Stopping"}]_vars

\* The lifecycle follows the state graph of the domain layer and shows fresh epochs only.
spentEpochs == {e \in Epochs : gate[e]} \cup (IF epoch = None THEN {} ELSE {epoch})

L == INSTANCE Lifecycle WITH spent <- spentEpochs
ImplementsLifecycle == L!Spec

\* Every call returns, whatever the callbacks, the listeners and the binder do.
CallsReturn == \A o \in Ops : (pc[o] = "queue") ~> (pc[o] = "done")

\* A listener that died is noticed: the proxy does not stay Running on that epoch.
FailureSurfaces ==
  \A e \in Epochs : fatal[e] ~> ~(state = "Running" /\ epoch = e)
-------------------------------------------------------------------------------
(***************************************************************************)
(* The inductive invariant behind these properties (SupervisorProofs).     *)
(* It holds when the calls are serialised by their callers or nothing      *)
(* panics: SerialCalls is the assumption under which `operation` really    *)
(* covers a whole lifecycle transaction.                                   *)
(***************************************************************************)
SerialCalls == Gated \/ ~MayPanic

Outstanding(o) == pc[o] \notin {"idle", "done"}

\* o takes e apart (not: retries the callback of an epoch that is gone).
Dismantles(o, e) ==
  /\ target[o] = e
  /\ pc[o] \in {"check", "lock", "call", "cancel", "join"}
  /\ ~retry[o]

Launching(o) == pc[o] \in {"store", "publish", "open"}

\* The lock belongs to the busy call, unless that call is unwinding.
LockInv ==
  /\ \A o \in Ops : opLock = o <=> Busy(o) /\ phase[o] # "unwind"
  /\ \A o \in Ops : phase[o] = "unwind" => MayPanic /\ pc[o] \notin {"idle", "queue"}
  /\ Gated => \A o, p \in Ops : Outstanding(o) /\ Outstanding(p) => o = p

\* At most one call is past its lock, the one that unwinds included.
Exclusive == \A o, p \in Ops : Busy(o) /\ Busy(p) => o = p

\* The epoch a call works on exists.  Once it is past its callback, what the call reports
\* and whether the epoch is cancelled agree with the epoch.
TargetInv ==
  \A o \in Ops :
    /\ pc[o] \in {"check", "lock", "call", "cancel", "join"} \/ Launching(o) =>
         target[o] \in Epochs /\ Spawned(target[o])
    /\ pc[o] \in {"cancel", "join"} => ~retry[o] /\ (ok[o] => completed[target[o]])
    /\ pc[o] = "join" => cancelled[target[o]]

\* A call that launches an epoch: its gate is closed, its token is the active one, and
\* nothing is owed to an earlier epoch.
LaunchInv ==
  \A o \in Ops :
    /\ pc[o] = "prepare" \/ Launching(o) => phase[o] = "start" /\ pending = None
    /\ Launching(o) => ~gate[target[o]] /\ ~cancelled[target[o]] /\ active = target[o]
    /\ pc[o] \in {"publish", "open"} => runtime = target[o]

\* What an epoch that was never drawn, or whose gate is closed, looks like.
FreshInv ==
  \A e \in Epochs :
    /\ ~Spawned(e) => /\ ~cancelled[e] /\ ~gate[e]
                      /\ \A c \in Channels : listener[e][c] = "none"
    /\ ~gate[e] => /\ ~fatal[e] /\ watchdog[e] \in {"none", "watch", "done"}
                   /\ \A c \in Channels : listener[e][c] # "serving"
    /\ watchdog[e] \in {"mark", "report"} => cancelled[e]

\* A stored runtime is the only one, and nothing is owed to an earlier one.
RuntimeInv ==
  /\ runtime # None =>
       /\ Spawned(runtime) /\ pending = None /\ active = runtime
       /\ \A o \in Ops : Busy(o) => pc[o] \in {"clean", "take", "publish", "open"}
  /\ active # None => Spawned(active)

\* A callback that is still owed leaves no call but the one about to retry it, or to fail.
PendingInv ==
  pending # None =>
    /\ Spawned(pending)
    /\ \A o \in Ops : Busy(o) =>
         pc[o] = "clean" \/ (pc[o] \in {"release", "settle"} /\ ~ok[o])

\* Every live task belongs to the runtime or to the call that launches or dismantles it.
CustodyInv ==
  \A e \in Epochs : Alive(e) =>
    runtime = e \/ \E o \in Ops : Dismantles(o, e) \/ (pc[o] = "store" /\ target[o] = e)

\* An epoch that accepts connections is the published one.
OpenInv ==
  \A e \in Epochs : gate[e] /\ ~cancelled[e] =>
    /\ epoch = e /\ state \in {"Running", "Stopping"}
    /\ runtime = e \/ \E o \in Ops : Dismantles(o, e)

\* A running proxy holds its runtime, and no call touches it but the one that opens it.
RunningInv ==
  state = "Running" =>
    /\ epoch # None /\ runtime = epoch
    /\ cancelled[epoch] => watchdog[epoch] = "mark"
    /\ \A o \in Ops : Busy(o) => pc[o] = "open"

\* Without a visible epoch there is no runtime to take apart.
IdleInv ==
  state = "Stopped" \/ (state = "Faulted" /\ epoch = None) =>
    /\ runtime = None
    /\ \A o \in Ops : Busy(o) => pc[o] \in {"clean", "take", "release", "settle"}
         \/ (pc[o] \in {"check", "lock", "call"} /\ retry[o])

\* A stopped proxy owes nothing: the cleanup before a start has nothing to do.
StoppedInv ==
  state = "Stopped" =>
    /\ epoch = None /\ pending = None
    /\ \A o \in Ops : Busy(o) =>
         pc[o] \in {"clean", "take"} \/ (pc[o] \in {"release", "settle"} /\ ok[o])

\* A visible epoch exists, and its gate is open or about to open.
EpochInv ==
  epoch # None =>
    /\ state \in {"Running", "Stopping", "Faulted"} /\ Spawned(epoch)
    /\ gate[epoch] \/ \E o \in Ops : pc[o] = "open" /\ target[o] = epoch

\* What the published state says about the call that is busy.
PhaseInv ==
  /\ state \in {"Starting", "Stopping"} => \E o \in Ops : Busy(o)
  /\ \A o \in Ops : Busy(o) =>
       /\ phase[o] = "stop" => state \in {"Stopping", "Faulted"}
       /\ phase[o] = "unwind" => state = "Starting"
       /\ phase[o] = "start" =>
            \/ pc[o] \in {"prepare", "store", "publish"} /\ state = "Starting"
            \/ pc[o] = "open" /\ epoch = target[o] /\ state = "Running"
            \/ pc[o] \notin {"prepare", "store", "publish", "open"}
                 /\ state \in {"Stopped", "Faulted"}

\* Who is in the callback holds the notification lock, and the flag is still down.
NotifierInv ==
  /\ \A o \in Ops : pc[o] = "call" =>
       notifier[target[o]] = o /\ ~completed[target[o]]
  /\ \A e \in Epochs : watchdog[e] = "call" => notifier[e] = e /\ ~completed[e]

IInv ==
  /\ TypeOK /\ LockInv /\ Exclusive /\ TargetInv /\ LaunchInv /\ FreshInv
  /\ RuntimeInv /\ PendingInv /\ CustodyInv /\ OpenInv
  /\ RunningInv /\ IdleInv /\ StoppedInv /\ EpochInv /\ PhaseInv
  /\ NotifierInv /\ NoEpochForgotten
================================================================================
