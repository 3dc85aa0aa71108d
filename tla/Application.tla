----------------------------- MODULE Application -----------------------------
(***************************************************************************)
(* The commands of the application facade that change settings or the      *)
(* proxy: settings_save, settings_save_and_restart with its rollback,      *)
(* proxy_start, proxy_stop, proxy_restart, app_shutdown and the            *)
(* certificate commands, which may only run while the proxy is stopped.    *)
(* They are serialised by Application::mutation_gate; what they share is   *)
(* the settings row in SQLite (a value with a revision), the effective     *)
(* settings kept in memory and the proxy.  Every awaited call is a step,   *)
(* and every one of them may fail.                                         *)
(*                                                                         *)
(* The proxy is seen here as its callers see it between two calls:         *)
(* Stopped, Running or Faulted (module Supervisor is the inside of start   *)
(* and stop).  A listener may die at any moment.                           *)
(***************************************************************************)
EXTENDS Naturals

CONSTANTS Callers,    (* windows and scripts that call the facade            *)
          Values,     (* the contents of a settings form                     *)
          Default,    (* the product's default settings                      *)
          Null,       (* the absent value of every Option                    *)
          MaxSaves    (* bound: settings commands issued in a behaviour      *)

ASSUME DefaultAssumption == Default \in Values
ASSUME NullAssumption == Null \notin Callers /\ Null \notin [val : Values, rev : Nat]
ASSUME BoundAssumption == MaxSaves \in Nat

VARIABLES stored,     (* the settings row: value and revision (0 = no row)   *)
          effective,  (* SettingsRepositoryAdapter::effective                *)
          proxy,      (* the state of the supervisor                         *)
          serving,    (* the settings of the runtime that is up, or Null     *)
          limits,     (* the capacity the session store enforces             *)
          gate,       (* who holds mutation_gate                             *)
          pc,         (* the next awaited call of each caller                *)
          call,       (* the arguments and locals of each caller's command   *)
          seen,       (* the settings each caller's form was filled from     *)
          saves       (* bound: settings commands left                       *)

vars == <<stored, effective, proxy, serving, limits, gate, pc, call, seen, saves>>

Drafts == [val : Values, rev : 0 .. 2 * MaxSaves]
MaybeDraft == Drafts \cup {Null}
Kinds == {"save", "saveRestart", "start", "stop", "restart", "shutdown", "certificate"}
Pcs == {"idle", "queue", "enter", "write", "halt", "clear", "launch", "apply", "answer",
        "undo", "undoClear", "restore", "restoreLast", "certify"}
Replies == {"none", "saved", "restarted", "restored", "started", "stopped", "certified",
            "refused", "failed", "rollbackFailed", "cleanupFailed"}

NoCall == [kind |-> "stop", draft |-> [val |-> Default, rev |-> 0],
           base |-> [val |-> Default, rev |-> 0], old |-> [val |-> Default, rev |-> 0],
           oldEffective |-> Null, plan |-> [val |-> Default, rev |-> 0],
           wasRunning |-> FALSE, recovering |-> FALSE, reply |-> "none"]

TypeOK ==
  /\ stored \in Drafts
  /\ effective \in MaybeDraft
  /\ proxy \in {"Stopped", "Running", "Faulted"}
  /\ serving \in MaybeDraft
  /\ limits \in Values
  /\ gate \in Callers \cup {Null}
  /\ pc \in [Callers -> Pcs]
  /\ call \in [Callers -> [kind : Kinds, draft : Drafts, base : Drafts, old : Drafts,
                           oldEffective : MaybeDraft, plan : Drafts, wasRunning : BOOLEAN,
                           recovering : BOOLEAN, reply : Replies]]
  /\ seen \in [Callers -> Drafts]
  /\ saves \in 0 .. MaxSaves

Init ==
  /\ stored = [val |-> Default, rev |-> 0]
  /\ effective = Null
  /\ proxy = "Stopped"
  /\ serving = Null
  /\ limits = Default
  /\ gate = Null
  /\ pc = [c \in Callers |-> "idle"]
  /\ call = [c \in Callers |-> NoCall]
  /\ seen = [c \in Callers |-> stored]
  /\ saves = MaxSaves

-----------------------------------------------------------------------------
(* Steps of every command. *)

Goto(c, to) == pc' = [pc EXCEPT ![c] = to] /\ UNCHANGED gate

Local(c, field, value) == call' = [call EXCEPT ![c][field] = value]

\* The command ends: its guard of mutation_gate is dropped.
Reply(c, r) ==
  /\ pc' = [pc EXCEPT ![c] = "idle"]
  /\ gate' = Null
  /\ call' = [call EXCEPT ![c] = [NoCall EXCEPT !.reply = r]]

\* settings_get: not serialised, so a form may be filled in the middle of a saga.
View(c) ==
  /\ pc[c] = "idle"
  /\ seen' = [seen EXCEPT ![c] = stored]
  /\ UNCHANGED <<stored, effective, proxy, serving, limits, gate, pc, call, saves>>

\* A command is issued; a form carries the revision it was filled from.
Call(c, kind, v) ==
  /\ pc[c] = "idle"
  /\ kind \in {"save", "saveRestart"} => saves > 0
  /\ saves' = IF kind \in {"save", "saveRestart"} THEN saves - 1 ELSE saves
  /\ pc' = [pc EXCEPT ![c] = "queue"]
  /\ call' = [call EXCEPT ![c] = [NoCall EXCEPT
       !.kind = kind, !.draft = [val |-> v, rev |-> seen[c].rev], !.base = seen[c]]]
  /\ UNCHANGED <<stored, effective, proxy, serving, limits, gate, seen>>

\* The asynchronous mutex of the facade admits one command at a time.
GateFree == gate = Null

Acquire(c) ==
  /\ pc[c] = "queue"
  /\ GateFree
  /\ gate' = c
  /\ pc' = [pc EXCEPT ![c] = "enter"]
  /\ UNCHANGED <<stored, effective, proxy, serving, limits, call, seen, saves>>

\* A listener dies, and the watchdog takes the runtime down.
ListenerDies ==
  /\ proxy = "Running"
  /\ proxy' = "Faulted"
  /\ serving' = Null
  /\ UNCHANGED <<stored, effective, limits, gate, pc, call, seen, saves>>

-----------------------------------------------------------------------------
(* The first step of each command: what it reads, and what it refuses. *)

At(c, step, kinds) == pc[c] = step /\ call[c].kind \in kinds

\* A read of the settings row, or any other call, fails: the command gives up.
GiveUp(c, steps, kinds, r) ==
  /\ pc[c] \in steps
  /\ call[c].kind \in kinds
  /\ Reply(c, r)
  /\ UNCHANGED <<stored, effective, proxy, serving, limits, seen, saves>>

EnterSave(c) ==
  /\ At(c, "enter", {"save"})
  /\ Goto(c, "write")
  /\ UNCHANGED <<stored, effective, proxy, serving, limits, call, seen, saves>>

\* The old settings and the old state are what a failure must come back to.
EnterSaveRestart(c) ==
  /\ At(c, "enter", {"saveRestart"})
  /\ call' = [call EXCEPT ![c] = [@ EXCEPT !.old = stored, !.oldEffective = effective,
                                           !.wasRunning = (proxy = "Running")]]
  /\ Goto(c, "write")
  /\ UNCHANGED <<stored, effective, proxy, serving, limits, seen, saves>>

EnterStart(c) ==
  /\ At(c, "enter", {"start"})
  /\ IF proxy = "Running"
     THEN Reply(c, "refused")
     ELSE Local(c, "plan", stored) /\ Goto(c, "launch")
  /\ UNCHANGED <<stored, effective, proxy, serving, limits, seen, saves>>

EnterStop(c) ==
  /\ At(c, "enter", {"stop"})
  /\ IF proxy = "Stopped"
     THEN Reply(c, "stopped")
     ELSE Goto(c, "halt") /\ UNCHANGED call
  /\ UNCHANGED <<stored, effective, proxy, serving, limits, seen, saves>>

\* A running proxy restarts with the settings it runs with, not with the stored ones.
RestartPlan == IF proxy = "Running" /\ effective # Null THEN effective ELSE stored

EnterRestart(c) ==
  /\ At(c, "enter", {"restart"})
  /\ Local(c, "plan", RestartPlan)
  /\ Goto(c, IF proxy = "Stopped" THEN "launch" ELSE "halt")
  /\ UNCHANGED <<stored, effective, proxy, serving, limits, seen, saves>>

EnterShutdown(c) ==
  /\ At(c, "enter", {"shutdown"})
  /\ Goto(c, IF proxy = "Stopped" THEN "clear" ELSE "halt")
  /\ UNCHANGED <<stored, effective, proxy, serving, limits, call, seen, saves>>

\* Certificates may only change while the proxy is stopped.
EnterCertificate(c) ==
  /\ At(c, "enter", {"certificate"})
  /\ IF proxy # "Stopped"
     THEN Reply(c, "refused")
     ELSE Goto(c, "certify") /\ UNCHANGED call
  /\ UNCHANGED <<stored, effective, proxy, serving, limits, seen, saves>>

\* The certificate store is rewritten (module Certificates).
Certify(c) ==
  /\ At(c, "certify", {"certificate"})
  /\ \E r \in {"certified", "failed"} : Reply(c, r)
  /\ UNCHANGED <<stored, effective, proxy, serving, limits, seen, saves>>

-----------------------------------------------------------------------------
(* Settings: the compare-and-swap of the row, and its restoration. *)

\* SqliteStore::save_settings, one immediate transaction.
Swapped(current, expected, value) ==
  IF current.rev = expected THEN [val |-> value, rev |-> expected + 1] ELSE current

Conflicts(current, expected) == current.rev # expected

\* The form is invalid, the transaction fails, or somebody saved in between.
WriteRefused(c) == GiveUp(c, {"write"}, {"save", "saveRestart"}, "failed")

Write(c) ==
  /\ At(c, "write", {"save", "saveRestart"})
  /\ ~ Conflicts(stored, call[c].draft.rev)
  /\ stored' = Swapped(stored, call[c].draft.rev, call[c].draft.val)
  /\ \/ \* the row is committed, but the view of it cannot be read back
        Reply(c, "failed") /\ UNCHANGED seen
     \/ /\ call[c].wasRunning
        /\ Local(c, "plan", stored') /\ Goto(c, "halt") /\ UNCHANGED seen
     \/ /\ ~ call[c].wasRunning
        /\ Reply(c, "saved")
        /\ seen' = [seen EXCEPT ![c] = stored']
  /\ UNCHANGED <<effective, proxy, serving, limits, saves>>

\* The old content under the next revision; the effective settings as they were.
RestoredFault(c) == [val |-> call[c].old.val, rev |-> stored.rev]
Restored(c) == [val |-> call[c].old.val, rev |-> stored.rev + 1]

\* The proxy comes back with what it ran with, which need not be what was stored.
RecoveryPlanFault(c, restored) == restored
RecoveryPlan(c, restored) ==
  IF call[c].oldEffective # Null THEN call[c].oldEffective ELSE restored

Restore(c) ==
  /\ pc[c] = "restore"
  /\ stored' = Restored(c)
  /\ effective' = call[c].oldEffective
  /\ \/ Reply(c, "rollbackFailed")
     \/ /\ call' = [call EXCEPT ![c] = [@ EXCEPT !.plan = RecoveryPlan(c, stored'),
                                              !.recovering = TRUE]]
        /\ Goto(c, "launch")
  /\ UNCHANGED <<proxy, serving, limits, seen, saves>>

\* The candidate could not be stopped: the settings come back, the proxy does not.
RestoreLast(c) ==
  /\ pc[c] = "restoreLast"
  /\ stored' = Restored(c)
  /\ effective' = call[c].oldEffective
  /\ Reply(c, "rollbackFailed")
  /\ UNCHANGED <<proxy, serving, limits, seen, saves>>

RestoreFails(c) == GiveUp(c, {"restore", "restoreLast"}, {"saveRestart"}, "rollbackFailed")

-----------------------------------------------------------------------------
(* The proxy: stop, start, and the effective settings that follow them. *)

\* supervisor.stop: even when it fails the listeners are gone.
Halted == proxy' = "Stopped" /\ serving' = Null
HaltFailed == proxy' = "Faulted" /\ serving' = Null

\* A stop that fails ends every command but the exit, which clears all the same.
Halt(c) ==
  /\ pc[c] = "halt"
  /\ \/ Halted /\ Goto(c, "clear") /\ UNCHANGED call
     \/ /\ HaltFailed
        /\ IF call[c].kind = "shutdown"
           THEN Local(c, "reply", "failed") /\ Goto(c, "clear")
           ELSE Reply(c, "failed")
  /\ UNCHANGED <<stored, effective, limits, seen, saves>>

\* clear_effective: the view it returns may fail, after the settings are cleared.
Clear(c) ==
  /\ pc[c] = "clear"
  /\ effective' = Null
  /\ \/ Reply(c, "failed")
     \/ /\ call[c].kind \in {"stop", "shutdown"}
        /\ Reply(c, IF call[c].reply = "failed" THEN "failed" ELSE "stopped")
     \/ /\ call[c].kind \in {"restart", "saveRestart"}
        /\ Goto(c, "launch") /\ UNCHANGED call
  /\ UNCHANGED <<stored, proxy, serving, limits, seen, saves>>

\* What a command does when start fails: the candidate is rolled back once.
LaunchFailed(c) ==
  IF call[c].kind = "saveRestart" /\ ~ call[c].recovering
  THEN Goto(c, "restore") /\ UNCHANGED call
  ELSE Reply(c, IF call[c].recovering THEN "rollbackFailed" ELSE "failed")

\* configure_capacity, which every start calls before the supervisor binds a port.
CapacityFault(c) == IF call[c].recovering THEN limits ELSE call[c].plan.val
Capacity(c) == call[c].plan.val

Launch(c) ==
  /\ pc[c] = "launch"
  /\ \/ \* the capacity, or the configuration after it, is refused
        LaunchFailed(c) /\ limits' \in {limits, Capacity(c)}
        /\ UNCHANGED <<proxy, serving>>
     \/ \* a port or a certificate is not available
        LaunchFailed(c) /\ proxy' = "Faulted" /\ serving' = Null
        /\ limits' = Capacity(c)
     \/ /\ proxy' = "Running" /\ serving' = call[c].plan /\ limits' = Capacity(c)
        /\ Goto(c, "apply") /\ UNCHANGED call
  /\ UNCHANGED <<stored, effective, seen, saves>>

\* apply_effective: the settings are recorded first, the view may fail after that.
Apply(c) ==
  /\ pc[c] = "apply"
  /\ effective' = call[c].plan
  /\ \/ Goto(c, "undo") /\ UNCHANGED call
     \/ /\ call[c].kind \in {"start", "restart"}
        /\ Reply(c, "started")
     \/ /\ call[c].recovering
        /\ Reply(c, "restored")
     \/ /\ call[c].kind = "saveRestart" /\ ~ call[c].recovering
        /\ Goto(c, "answer") /\ UNCHANGED call
  /\ UNCHANGED <<stored, proxy, serving, limits, seen, saves>>

\* The settings are read once more for the answer.
Answer(c) ==
  /\ pc[c] = "answer"
  /\ \/ Reply(c, "failed") /\ UNCHANGED seen
     \/ Reply(c, "restarted") /\ seen' = [seen EXCEPT ![c] = stored]
  /\ UNCHANGED <<stored, effective, proxy, serving, limits, saves>>

\* cleanup_failed_start, and the same for a candidate: stop what has just started.
Candidate(c) == call[c].kind = "saveRestart" /\ ~ call[c].recovering

Undo(c) ==
  /\ pc[c] = "undo"
  /\ \/ Halted /\ Goto(c, "undoClear") /\ UNCHANGED call
     \/ /\ HaltFailed
        /\ IF Candidate(c)
           THEN Goto(c, "restoreLast") /\ UNCHANGED call
           ELSE Reply(c, "cleanupFailed")
  /\ UNCHANGED <<stored, effective, limits, seen, saves>>

UndoClear(c) ==
  /\ pc[c] = "undoClear"
  /\ effective' = Null
  /\ IF Candidate(c)
     THEN Goto(c, "restore") /\ UNCHANGED call
     ELSE \E r \in {"failed", "cleanupFailed"} :
            Reply(c, IF call[c].recovering THEN "rollbackFailed" ELSE r)
  /\ UNCHANGED <<stored, proxy, serving, limits, seen, saves>>

\* A read of the settings fails before the command has changed anything.
ReadFails(c) == GiveUp(c, {"enter"}, {"saveRestart", "start", "restart"}, "failed")

Step(c) ==
  \/ Acquire(c) \/ ReadFails(c)
  \/ EnterSave(c) \/ EnterSaveRestart(c) \/ EnterStart(c) \/ EnterStop(c)
  \/ EnterRestart(c) \/ EnterShutdown(c) \/ EnterCertificate(c)
  \/ Certify(c) \/ WriteRefused(c) \/ Write(c) \/ Halt(c) \/ Clear(c)
  \/ Launch(c) \/ Apply(c) \/ Answer(c) \/ Undo(c) \/ UndoClear(c)
  \/ Restore(c) \/ RestoreLast(c) \/ RestoreFails(c)

Next ==
  \/ \E c \in Callers :
       \/ View(c)
       \/ \E kind \in Kinds, v \in Values : Call(c, kind, v)
       \/ Step(c)
  \/ ListenerDies

Spec == Init /\ [][Next]_vars

-----------------------------------------------------------------------------
(* Properties. *)

Idle == gate = Null

\* What the proxy serves is what settings_get shows as effective, and what the
\* session store enforces, whenever no command is at work.
ServedIsEffective ==
  Idle /\ proxy = "Running" => serving = effective /\ limits = serving.val

\* Certificates never change under a proxy that was started in the meantime.
CertificatesAtRest == \A c \in Callers : pc[c] = "certify" => proxy = "Stopped"

\* Both: the proxy that runs, the settings shown for it and its certificates belong
\* together.
OneConfiguration == ServedIsEffective /\ CertificatesAtRest

\* A command that says so has done so: a restored proxy runs the old settings
\* over the old row, a stop leaves no effective settings behind, and so on.
Keeps(c) ==
  LET r == call'[c].reply
      up == {effective', Null}
  IN /\ r = "saved" => stored'.val = call[c].draft.val
     /\ r = "restarted" => /\ stored'.val = call[c].draft.val
                           /\ effective' = stored' /\ serving' \in up
     /\ r = "restored" => /\ stored'.val = call[c].old.val
                          /\ effective' = call[c].oldEffective /\ serving' \in up
     /\ r = "started" => effective' # Null /\ serving' \in up
     /\ r = "stopped" => proxy' = "Stopped"
     /\ r = "rollbackFailed" => proxy' # "Running"

Ends(c) == pc[c] # "idle" /\ pc'[c] = "idle"

RepliesAreTrue == [][\A c \in Callers : Ends(c) => Keeps(c)]_vars

\* A save replaces exactly the settings its form was filled from, although a
\* rollback puts an old content back in between.
NoLostUpdate ==
  [][\A c \in Callers : pc[c] = "write" /\ stored' # stored => stored = call[c].base]_vars

\* facade/settings.rs:3-4: whichever step of a save-and-restart fails, the old
\* settings are stored again (here: a step after the candidate has been saved).
AllOrNothing ==
  [][\A c \in Callers :
       (/\ Ends(c) /\ call[c].kind = "saveRestart"
        /\ pc[c] \in {"halt", "clear", "launch"} /\ call'[c].reply = "failed")
         => stored'.val = call[c].old.val]_vars

\* settings.rs:113: settings that have not been changed since are not pending.
\* view() compares whole drafts, and a draft carries its revision.
Pending == effective # Null /\ effective # stored

PendingIsReal == Idle /\ Pending => effective.val # stored.val

\* requirements.md 12.5: the effective settings are those of the current epoch.
StoppedIsClear == Idle /\ proxy = "Stopped" => effective = Null
=============================================================================
