--------------------------- MODULE ApplicationProofs ---------------------------
(***************************************************************************)
(* The commands of the facade for any number of callers, settings and      *)
(* saves: what runs is what is shown, what is answered is what was done,   *)
(* and no save overwrites one its form has not seen.                       *)
(***************************************************************************)
EXTENDS Application, TLAPS

\* Without the bound on revisions that TypeOK has for TLC.
Rows == [val : Values, rev : Nat]
Maybe == Rows \cup {Null}

Commands == [kind : Kinds, draft : Rows, base : Rows, old : Rows, oldEffective : Maybe,
             plan : Rows, wasRunning : BOOLEAN, recovering : BOOLEAN, reply : Replies]

TypeInv ==
  /\ stored \in Rows /\ effective \in Maybe /\ serving \in Maybe /\ limits \in Values
  /\ proxy \in {"Stopped", "Running", "Faulted"}
  /\ gate \in Callers \cup {Null}
  /\ pc \in [Callers -> Pcs]
  /\ call \in [Callers -> Commands]
  /\ seen \in [Callers -> Rows]

Waiting(c) == pc[c] \in {"idle", "queue"}

\* Between its enter and its reply a command holds mutation_gate.
LockInv == \A c \in Callers : ~Waiting(c) => gate = c

\* Only a proxy that has just been launched serves what is not yet recorded as effective.
SettledInv ==
  proxy = "Running" /\ (\A c \in Callers : pc[c] # "apply") =>
    serving # Null /\ serving = effective /\ limits = serving.val

\* What a command knows of the proxy at each of its awaited calls.
ProxyInv(c) ==
  /\ pc[c] \in {"clear", "launch", "undoClear", "restore", "restoreLast"} => proxy # "Running"
  /\ pc[c] = "clear" => proxy = "Stopped" \/ call[c].reply = "failed"
  /\ pc[c] = "certify" => proxy = "Stopped"
  /\ pc[c] = "apply" =>
       /\ serving \in {call[c].plan, Null}
       /\ proxy = "Running" => serving = call[c].plan /\ limits = serving.val

\* What a command knows of the settings: until the rollback the candidate is stored, from
\* then on the old content is, and there are settings to come back with.
SagaInv(c) ==
  LET k == call[c] IN
  /\ pc[c] \in {"queue", "enter", "write", "halt", "clear"} => ~k.recovering
  /\ k.kind = "saveRestart" /\ pc[c] = "write" /\ k.wasRunning => k.oldEffective # Null
  /\ k.kind = "saveRestart" /\ ~Waiting(c) /\ pc[c] \notin {"enter", "write"} =>
       k.oldEffective # Null
  /\ pc[c] \in {"restore", "restoreLast"} => k.kind = "saveRestart"
  /\ k.kind = "saveRestart" /\ ~k.recovering
       /\ pc[c] \in {"halt", "clear", "launch", "apply", "answer"} =>
         k.plan = stored /\ stored.val = k.draft.val
  /\ pc[c] = "answer" =>
       /\ k.kind = "saveRestart" /\ ~k.recovering
       /\ effective = k.plan /\ serving \in {k.plan, Null}
  /\ k.recovering /\ pc[c] \in {"launch", "apply"} =>
       stored.val = k.old.val /\ k.plan = k.oldEffective /\ k.oldEffective # Null

\* A revision stands for one content, so a form with the stored revision shows what is stored.
Known(row) == row.rev <= stored.rev /\ (row.rev = stored.rev => row = stored)

FormInv(c) ==
  /\ Known(seen[c])
  /\ pc[c] \in {"queue", "enter", "write"} =>
       Known(call[c].base) /\ call[c].base.rev = call[c].draft.rev

CallerInv(c) == ProxyInv(c) /\ SagaInv(c) /\ FormInv(c)

\* What RepliesAreTrue and NoLostUpdate ask of a step, for one caller.
Faithful(c) ==
  /\ Ends(c) => Keeps(c)
  /\ pc[c] = "write" /\ stored' # stored => stored = call[c].base

Inv == TypeInv /\ LockInv /\ SettledInv /\ \A c \in Callers : CallerInv(c)

-----------------------------------------------------------------------------
LEMMA NoRow == Null \notin Rows /\ Null \notin Callers
  BY NullAssumption DEF Rows

LEMMA InvInit == ASSUME Init PROVE Inv
  BY DefaultAssumption
  DEF Init, Inv, TypeInv, LockInv, SettledInv, CallerInv, ProxyInv, SagaInv, FormInv, Known,
      Waiting, Rows, Maybe, Commands, NoCall, Pcs, Kinds, Replies

LEMMA FieldsTyped ==
  ASSUME TypeInv, NEW c \in Callers
  PROVE  /\ call[c] \in Commands /\ call[c].draft \in Rows /\ call[c].plan \in Rows
         /\ call[c].plan.val \in Values /\ call[c].draft.rev \in Nat
         /\ call[c].oldEffective \in Maybe /\ call[c].kind \in Kinds
         /\ stored.rev \in Nat /\ stored.val \in Values
         /\ Swapped(stored, call[c].draft.rev, call[c].draft.val) \in Rows
         /\ RestartPlan \in Rows
         /\ Restored(c) \in Rows /\ Restored(c).val = call[c].old.val
         /\ Restored(c).rev = stored.rev + 1
  BY DEF TypeInv, Commands, Rows, Maybe, Swapped, RestartPlan, Restored

\* The three ways a step writes what a command keeps.
LEMMA ReplyTyped ==
  ASSUME TypeInv, NEW c \in Callers, NEW r \in Replies, Reply(c, r)
  PROVE  gate' = Null /\ pc' \in [Callers -> Pcs] /\ call' \in [Callers -> Commands]
<1>1. [NoCall EXCEPT !.reply = r] \in Commands
  BY DefaultAssumption DEF NoCall, Commands, Rows, Maybe, Kinds
<1> QED BY <1>1 DEF Reply, TypeInv, Pcs

LEMMA GotoTyped ==
  ASSUME TypeInv, NEW c \in Callers, NEW to \in Pcs, Goto(c, to)
  PROVE  gate' = gate /\ pc' \in [Callers -> Pcs]
  BY DEF Goto, TypeInv

LEMMA PlanTyped ==
  ASSUME TypeInv, NEW c \in Callers, NEW v \in Rows, Local(c, "plan", v)
  PROVE  /\ call' \in [Callers -> Commands]
         /\ call'[c] = [call[c] EXCEPT !.plan = v]
  BY DEF Local, TypeInv, Commands

LEMMA LocalTyped ==
  ASSUME TypeInv, NEW c \in Callers, NEW v \in Replies, Local(c, "reply", v)
  PROVE  call' \in [Callers -> Commands]
  BY DEF Local, TypeInv, Commands

LEMMA KnownKept ==
  ASSUME TypeInv, NEW row \in Rows, Known(row),
         stored' = stored \/ stored'.rev = stored.rev + 1
  PROVE  Known(row)'
  BY DEF Known, TypeInv, Rows

LEMMA IdleKnows ==
  ASSUME NEW c \in Callers, pc'[c] = "idle", Known(seen[c])'
  PROVE  CallerInv(c)'
  BY DEF CallerInv, ProxyInv, SagaInv, FormInv, Waiting

\* A step of the command at work leaves the others where they wait.
LEMMA OthersWait ==
  ASSUME Inv, NEW c \in Callers, gate = c, TypeInv', SettledInv', CallerInv(c)',
         gate' = c \/ (gate' = Null /\ Waiting(c)'),
         \A d \in Callers \ {c} : pc'[d] = pc[d] /\ call'[d] = call[d] /\ seen'[d] = seen[d],
         stored' = stored \/ stored'.rev = stored.rev + 1, Faithful(c)
  PROVE  Inv' /\ \A d \in Callers : Faithful(d)
<1>1. ASSUME NEW d \in Callers \ {c} PROVE Waiting(d)' /\ Waiting(d)
  BY DEF Inv, LockInv, Waiting
<1>2. LockInv'
  BY <1>1 DEF LockInv
<1>3. ASSUME NEW d \in Callers \ {c} PROVE CallerInv(d)'
  <2>1. CallerInv(d) /\ Waiting(d) /\ Waiting(d)'
    BY <1>1 DEF Inv
  <2>2. ASSUME NEW row \in Rows, Known(row) PROVE Known(row)'
    BY <2>2 DEF Known, Inv, TypeInv, Rows
  <2>3. call[d].base \in Rows /\ seen[d] \in Rows
    BY DEF TypeInv, Commands
  <2>4. FormInv(d)'
    BY <2>1, <2>2, <2>3 DEF CallerInv, FormInv
  <2> QED
    BY <2>1, <2>4 DEF CallerInv, ProxyInv, SagaInv, Waiting
<1>4. ASSUME NEW d \in Callers \ {c} PROVE Faithful(d)
  BY <1>1 DEF Faithful, Ends, Waiting
<1> QED BY <1>2, <1>3, <1>4 DEF Inv

LEMMA ReadFailsStep ==
  ASSUME Inv, NEW c \in Callers, ReadFails(c)
  PROVE  Inv' /\ \A d \in Callers : Faithful(d)
<1>1. ~Waiting(c) /\ gate = c
  BY DEF Inv, LockInv, Waiting, ReadFails, GiveUp
<1>2. TypeInv'
  BY ReplyTyped DEF Inv, TypeInv, Replies, GiveUp, ReadFails
<1>3. SettledInv'
  BY DEF Inv, LockInv, SettledInv, Waiting, ReadFails, GiveUp
<1>4. CallerInv(c)'
  BY DEF Inv, TypeInv, CallerInv, ProxyInv, SagaInv, FormInv, Known, Waiting, ReadFails, Reply,
         GiveUp
<1>5. gate' = c \/ (gate' = Null /\ Waiting(c)')
  BY DEF Inv, TypeInv, Waiting, ReadFails, Reply, GiveUp
<1>6. \A d \in Callers \ {c} : pc'[d] = pc[d] /\ call'[d] = call[d] /\ seen'[d] = seen[d]
  BY DEF ReadFails, Reply, GiveUp
<1>7. stored' = stored \/ stored'.rev = stored.rev + 1
  BY DEF ReadFails, GiveUp
<1>8. Faithful(c)
  BY <1>2 DEF TypeInv, Faithful, Keeps, ReadFails, Reply, GiveUp
<1> QED BY <1>1, <1>2, <1>3, <1>4, <1>5, <1>6, <1>7, <1>8, OthersWait

LEMMA EnterSaveStep ==
  ASSUME Inv, NEW c \in Callers, EnterSave(c)
  PROVE  Inv' /\ \A d \in Callers : Faithful(d)
<1>1. ~Waiting(c) /\ gate = c
  BY DEF Inv, LockInv, Waiting, EnterSave, At
<1>2. TypeInv'
  BY GotoTyped DEF Inv, TypeInv, Pcs, EnterSave
<1>3. SettledInv'
  BY DEF Inv, LockInv, SettledInv, Waiting, EnterSave, At
<1>4. CallerInv(c)'
  BY DEF Inv, CallerInv, ProxyInv, SagaInv, FormInv, Known, EnterSave, At, Goto
<1>5. gate' = c \/ (gate' = Null /\ Waiting(c)')
  BY <1>1 DEF EnterSave, Goto
<1>6. \A d \in Callers \ {c} : pc'[d] = pc[d] /\ call'[d] = call[d] /\ seen'[d] = seen[d]
  BY DEF EnterSave, Goto
<1>7. stored' = stored \/ stored'.rev = stored.rev + 1
  BY DEF EnterSave
<1>8. Faithful(c)
  BY DEF Faithful, Ends, EnterSave, Goto
<1> QED BY <1>1, <1>2, <1>3, <1>4, <1>5, <1>6, <1>7, <1>8, OthersWait

LEMMA EnterSaveRestartStep ==
  ASSUME Inv, NEW c \in Callers, EnterSaveRestart(c)
  PROVE  Inv' /\ \A d \in Callers : Faithful(d)
<1>1. ~Waiting(c) /\ gate = c
  BY DEF Inv, LockInv, Waiting, EnterSaveRestart, At
<1>2. TypeInv'
  <2>1. call' \in [Callers -> Commands]
    BY DEF EnterSaveRestart, Inv, TypeInv, Commands
  <2> QED BY <2>1, GotoTyped DEF EnterSaveRestart, Inv, TypeInv, Pcs
<1>3. SettledInv'
  BY DEF Inv, LockInv, SettledInv, Waiting, EnterSaveRestart, At
<1>4. CallerInv(c)'
  <2> DEFINE k == [call[c] EXCEPT !.old = stored, !.oldEffective = effective,
                                  !.wasRunning = (proxy = "Running")]
  <2>1. call[c] \in Commands /\ call[c].kind = "saveRestart" /\ ~call[c].recovering
    BY DEF EnterSaveRestart, At, Inv, TypeInv, CallerInv, SagaInv
  <2>2. /\ k.kind = "saveRestart" /\ ~k.recovering /\ k.oldEffective = effective
        /\ k.wasRunning = (proxy = "Running")
        /\ k.draft = call[c].draft /\ k.base = call[c].base
    BY <2>1
  <2>3. call'[c] = k /\ pc'[c] = "write"
    BY DEF EnterSaveRestart, Goto, Inv, TypeInv
  <2>4. proxy = "Running" => effective # Null
    BY DEF EnterSaveRestart, At, Inv, LockInv, SettledInv, Waiting
  <2> HIDE DEF k
  <2>5. ProxyInv(c)' /\ SagaInv(c)'
    BY <2>2, <2>3, <2>4 DEF ProxyInv, SagaInv, EnterSaveRestart
  <2>6. FormInv(c)'
    BY DEF Inv, CallerInv, FormInv, Known, EnterSaveRestart, At
  <2> QED BY <2>5, <2>6 DEF CallerInv
<1>5. gate' = c \/ (gate' = Null /\ Waiting(c)')
  BY <1>1 DEF EnterSaveRestart, Goto
<1>6. \A d \in Callers \ {c} : pc'[d] = pc[d] /\ call'[d] = call[d] /\ seen'[d] = seen[d]
  BY DEF EnterSaveRestart, Goto
<1>7. stored' = stored \/ stored'.rev = stored.rev + 1
  BY DEF EnterSaveRestart
<1>8. Faithful(c)
  BY DEF Faithful, Ends, EnterSaveRestart, Goto
<1> QED BY <1>1, <1>2, <1>3, <1>4, <1>5, <1>6, <1>7, <1>8, OthersWait

LEMMA EnterStartStep ==
  ASSUME Inv, NEW c \in Callers, EnterStart(c)
  PROVE  Inv' /\ \A d \in Callers : Faithful(d)
<1>1. ~Waiting(c) /\ gate = c
  BY DEF Inv, LockInv, Waiting, EnterStart, At
<1>2. TypeInv'
  <2>0. TypeInv /\ stored \in Rows
    BY DEF Inv, TypeInv
  <2>1. CASE proxy = "Running"
    BY <2>0, <2>1, ReplyTyped DEF EnterStart, TypeInv, Replies
  <2>2. CASE proxy # "Running"
    BY <2>0, <2>2, PlanTyped, GotoTyped DEF EnterStart, TypeInv, Pcs
  <2> QED BY <2>1, <2>2
<1>3. SettledInv'
  BY DEF Inv, LockInv, SettledInv, Waiting, EnterStart, At
<1>4. CallerInv(c)'
  <2>1. CASE proxy = "Running"
    <3>1. pc'[c] = "idle"
      BY <2>1 DEF EnterStart, Reply, Inv, TypeInv
    <3> QED BY <3>1, IdleKnows DEF EnterStart, Inv, CallerInv, FormInv, Known
  <2>2. CASE proxy # "Running"
    <3>1. call'[c] = [call[c] EXCEPT !.plan = stored] /\ pc'[c] = "launch"
      BY <2>2, PlanTyped DEF EnterStart, Goto, Inv, TypeInv
    <3>2. call'[c].kind = "start" /\ ~call'[c].recovering
      BY <3>1 DEF EnterStart, At, Inv, CallerInv, SagaInv
    <3>3. ProxyInv(c)' /\ SagaInv(c)'
      BY <2>2, <3>1, <3>2 DEF EnterStart, ProxyInv, SagaInv
    <3>4. FormInv(c)'
      BY <3>1 DEF Inv, CallerInv, FormInv, Known, EnterStart
    <3> QED BY <3>3, <3>4 DEF CallerInv
  <2> QED BY <2>1, <2>2
<1>5. gate' = c \/ (gate' = Null /\ Waiting(c)')
  BY <1>1 DEF Inv, TypeInv, Waiting, EnterStart, Goto, Reply
<1>6. \A d \in Callers \ {c} : pc'[d] = pc[d] /\ call'[d] = call[d] /\ seen'[d] = seen[d]
  BY DEF Inv, TypeInv, EnterStart, Goto, Local, Reply
<1>7. stored' = stored \/ stored'.rev = stored.rev + 1
  BY DEF EnterStart
<1>8. Faithful(c)
  BY <1>2 DEF TypeInv, Faithful, Ends, Keeps, EnterStart, Goto, Reply, NoCall
<1> QED BY <1>1, <1>2, <1>3, <1>4, <1>5, <1>6, <1>7, <1>8, OthersWait

LEMMA EnterStopStep ==
  ASSUME Inv, NEW c \in Callers, EnterStop(c)
  PROVE  Inv' /\ \A d \in Callers : Faithful(d)
<1>1. ~Waiting(c) /\ gate = c
  BY DEF Inv, LockInv, Waiting, EnterStop, At
<1>2. TypeInv'
  BY ReplyTyped, GotoTyped DEF Inv, TypeInv, Pcs, Replies, EnterStop
<1>3. SettledInv'
  BY DEF Inv, LockInv, SettledInv, Waiting, EnterStop, At
<1>4. CallerInv(c)'
  BY DEF Inv, TypeInv, CallerInv, ProxyInv, SagaInv, FormInv, Known, Waiting, EnterStop, At,
         Goto, Reply
<1>5. gate' = c \/ (gate' = Null /\ Waiting(c)')
  BY <1>1 DEF Inv, TypeInv, Waiting, EnterStop, Goto, Reply
<1>6. \A d \in Callers \ {c} : pc'[d] = pc[d] /\ call'[d] = call[d] /\ seen'[d] = seen[d]
  BY DEF Inv, TypeInv, EnterStop, Goto, Reply
<1>7. stored' = stored \/ stored'.rev = stored.rev + 1
  BY DEF EnterStop
<1>8. Faithful(c)
  BY <1>2 DEF TypeInv, Faithful, Ends, Keeps, EnterStop, Goto, Reply, NoCall
<1> QED BY <1>1, <1>2, <1>3, <1>4, <1>5, <1>6, <1>7, <1>8, OthersWait

LEMMA EnterRestartStep ==
  ASSUME Inv, NEW c \in Callers, EnterRestart(c)
  PROVE  Inv' /\ \A d \in Callers : Faithful(d)
<1>1. ~Waiting(c) /\ gate = c
  BY DEF Inv, LockInv, Waiting, EnterRestart, At
<1>2. TypeInv'
  <2>0. TypeInv /\ RestartPlan \in Rows
    BY FieldsTyped DEF Inv
  <2>1. call' \in [Callers -> Commands]
    BY <2>0, PlanTyped DEF EnterRestart
  <2> QED BY <2>0, <2>1, GotoTyped DEF EnterRestart, TypeInv, Pcs
<1>3. SettledInv'
  BY DEF Inv, LockInv, SettledInv, Waiting, EnterRestart, At
<1>4. CallerInv(c)'
  BY DEF Inv, CallerInv, ProxyInv, SagaInv, FormInv, Known, EnterRestart, At, Goto, Local
<1>5. gate' = c \/ (gate' = Null /\ Waiting(c)')
  BY <1>1 DEF EnterRestart, Goto
<1>6. \A d \in Callers \ {c} : pc'[d] = pc[d] /\ call'[d] = call[d] /\ seen'[d] = seen[d]
  BY DEF EnterRestart, Goto, Local
<1>7. stored' = stored \/ stored'.rev = stored.rev + 1
  BY DEF EnterRestart
<1>8. Faithful(c)
  BY DEF Faithful, Ends, EnterRestart, Goto
<1> QED BY <1>1, <1>2, <1>3, <1>4, <1>5, <1>6, <1>7, <1>8, OthersWait

LEMMA EnterShutdownStep ==
  ASSUME Inv, NEW c \in Callers, EnterShutdown(c)
  PROVE  Inv' /\ \A d \in Callers : Faithful(d)
<1>1. ~Waiting(c) /\ gate = c
  BY DEF Inv, LockInv, Waiting, EnterShutdown, At
<1>2. TypeInv'
  BY GotoTyped DEF Inv, TypeInv, Pcs, EnterShutdown
<1>3. SettledInv'
  BY DEF Inv, LockInv, SettledInv, Waiting, EnterShutdown, At
<1>4. CallerInv(c)'
  BY DEF Inv, CallerInv, ProxyInv, SagaInv, FormInv, Known, EnterShutdown, At, Goto
<1>5. gate' = c \/ (gate' = Null /\ Waiting(c)')
  BY <1>1 DEF EnterShutdown, Goto
<1>6. \A d \in Callers \ {c} : pc'[d] = pc[d] /\ call'[d] = call[d] /\ seen'[d] = seen[d]
  BY DEF EnterShutdown, Goto
<1>7. stored' = stored \/ stored'.rev = stored.rev + 1
  BY DEF EnterShutdown
<1>8. Faithful(c)
  BY DEF Faithful, Ends, EnterShutdown, Goto
<1> QED BY <1>1, <1>2, <1>3, <1>4, <1>5, <1>6, <1>7, <1>8, OthersWait

LEMMA EnterCertificateStep ==
  ASSUME Inv, NEW c \in Callers, EnterCertificate(c)
  PROVE  Inv' /\ \A d \in Callers : Faithful(d)
<1>1. ~Waiting(c) /\ gate = c
  BY DEF Inv, LockInv, Waiting, EnterCertificate, At
<1>2. TypeInv'
  BY ReplyTyped, GotoTyped DEF Inv, TypeInv, Pcs, Replies, EnterCertificate
<1>3. SettledInv'
  BY DEF Inv, LockInv, SettledInv, Waiting, EnterCertificate, At
<1>4. CallerInv(c)'
  BY DEF Inv, TypeInv, CallerInv, ProxyInv, SagaInv, FormInv, Known, Waiting, EnterCertificate,
         At, Goto, Reply
<1>5. gate' = c \/ (gate' = Null /\ Waiting(c)')
  BY <1>1 DEF Inv, TypeInv, Waiting, EnterCertificate, Goto, Reply
<1>6. \A d \in Callers \ {c} : pc'[d] = pc[d] /\ call'[d] = call[d] /\ seen'[d] = seen[d]
  BY DEF Inv, TypeInv, EnterCertificate, Goto, Reply
<1>7. stored' = stored \/ stored'.rev = stored.rev + 1
  BY DEF EnterCertificate
<1>8. Faithful(c)
  BY <1>2 DEF TypeInv, Faithful, Ends, Keeps, EnterCertificate, Goto, Reply, NoCall
<1> QED BY <1>1, <1>2, <1>3, <1>4, <1>5, <1>6, <1>7, <1>8, OthersWait

LEMMA CertifyStep ==
  ASSUME Inv, NEW c \in Callers, Certify(c)
  PROVE  Inv' /\ \A d \in Callers : Faithful(d)
<1>1. ~Waiting(c) /\ gate = c
  BY DEF Inv, LockInv, Waiting, Certify, At
<1>2. TypeInv'
  BY ReplyTyped DEF Inv, TypeInv, Replies, Certify
<1>3. SettledInv'
  BY DEF Inv, SettledInv, CallerInv, ProxyInv, Certify, At
<1>4. CallerInv(c)'
  BY DEF Inv, TypeInv, CallerInv, ProxyInv, SagaInv, FormInv, Known, Waiting, Certify, Reply
<1>5. gate' = c \/ (gate' = Null /\ Waiting(c)')
  BY DEF Inv, TypeInv, Waiting, Certify, Reply
<1>6. \A d \in Callers \ {c} : pc'[d] = pc[d] /\ call'[d] = call[d] /\ seen'[d] = seen[d]
  BY DEF Certify, Reply
<1>7. stored' = stored \/ stored'.rev = stored.rev + 1
  BY DEF Certify
<1>8. Faithful(c)
  BY <1>2 DEF TypeInv, Faithful, Keeps, Certify, Reply
<1> QED BY <1>1, <1>2, <1>3, <1>4, <1>5, <1>6, <1>7, <1>8, OthersWait

LEMMA WriteRefusedStep ==
  ASSUME Inv, NEW c \in Callers, WriteRefused(c)
  PROVE  Inv' /\ \A d \in Callers : Faithful(d)
<1>1. ~Waiting(c) /\ gate = c
  BY DEF Inv, LockInv, Waiting, WriteRefused, GiveUp
<1>2. TypeInv'
  BY ReplyTyped DEF Inv, TypeInv, Replies, GiveUp, WriteRefused
<1>3. SettledInv'
  BY DEF Inv, LockInv, SettledInv, Waiting, WriteRefused, GiveUp
<1>4. CallerInv(c)'
  BY DEF Inv, TypeInv, CallerInv, ProxyInv, SagaInv, FormInv, Known, Waiting, WriteRefused,
         Reply, GiveUp
<1>5. gate' = c \/ (gate' = Null /\ Waiting(c)')
  BY DEF Inv, TypeInv, Waiting, WriteRefused, Reply, GiveUp
<1>6. \A d \in Callers \ {c} : pc'[d] = pc[d] /\ call'[d] = call[d] /\ seen'[d] = seen[d]
  BY DEF WriteRefused, Reply, GiveUp
<1>7. stored' = stored \/ stored'.rev = stored.rev + 1
  BY DEF WriteRefused, GiveUp
<1>8. Faithful(c)
  BY <1>2 DEF TypeInv, Faithful, Keeps, WriteRefused, Reply, GiveUp
<1> QED BY <1>1, <1>2, <1>3, <1>4, <1>5, <1>6, <1>7, <1>8, OthersWait

LEMMA WriteStep ==
  ASSUME Inv, NEW c \in Callers, Write(c)
  PROVE  Inv' /\ \A d \in Callers : Faithful(d)
<1>1. ~Waiting(c) /\ gate = c
  BY DEF Inv, LockInv, Waiting, Write, At
<1>2. TypeInv'
  <2>0. TypeInv /\ stored' \in Rows
    BY FieldsTyped DEF Inv, Write
  <2>1. CASE \E r \in {"failed", "saved"} : Reply(c, r)
    BY <2>0, <2>1, ReplyTyped DEF Write, TypeInv, Replies
  <2>2. CASE Local(c, "plan", stored') /\ Goto(c, "halt") /\ UNCHANGED seen
    BY <2>0, <2>2, PlanTyped, GotoTyped DEF Write, TypeInv, Pcs
  <2> QED BY <2>1, <2>2 DEF Write
<1>3. SettledInv'
  BY DEF Inv, LockInv, SettledInv, Waiting, Write, At
<1>4. CallerInv(c)'
  <2>1. stored'.rev = stored.rev + 1 /\ stored'.val = call[c].draft.val /\ stored' \in Rows
    BY FieldsTyped DEF Write, Swapped, Conflicts, Inv
  <2>2. Known(seen[c])'
    <3>1. CASE seen'[c] = stored'
      BY <2>1, <3>1 DEF Known, Rows
    <3>2. CASE seen' = seen
      BY <2>1, <3>2, KnownKept DEF Inv, TypeInv, CallerInv, FormInv
    <3> QED BY <3>1, <3>2 DEF Write, Inv, TypeInv
  <2>3. CASE \E r \in {"failed", "saved"} : Reply(c, r)
    <3>1. pc'[c] = "idle"
      BY <2>3 DEF Reply, Inv, TypeInv
    <3> QED BY <2>2, <3>1, IdleKnows
  <2>4. CASE call[c].wasRunning /\ Local(c, "plan", stored') /\ Goto(c, "halt")
    <3>1. call'[c] = [call[c] EXCEPT !.plan = stored'] /\ pc'[c] = "halt"
      BY <2>1, <2>4, PlanTyped DEF Goto, Inv, TypeInv
    <3>2. call[c] \in Commands /\ pc[c] = "write"
      BY DEF Inv, TypeInv, Write, At
    <3>3. call'[c].plan = stored' /\ call'[c].kind = call[c].kind
          /\ call'[c].recovering = call[c].recovering /\ call'[c].draft = call[c].draft
          /\ call'[c].oldEffective = call[c].oldEffective
      BY <3>1
    <3>4. ~call[c].recovering /\ (call[c].kind = "saveRestart" => call[c].oldEffective # Null)
      BY <2>4, <3>2 DEF Inv, CallerInv, SagaInv
    <3>5. ProxyInv(c)' /\ SagaInv(c)'
      BY <2>1, <3>1, <3>4 DEF ProxyInv, SagaInv
    <3>6. FormInv(c)'
      BY <2>2, <3>1 DEF FormInv
    <3> QED BY <3>5, <3>6 DEF CallerInv
  <2> QED BY <2>3, <2>4 DEF Write
<1>5. gate' = c \/ (gate' = Null /\ Waiting(c)')
  BY <1>1 DEF Inv, TypeInv, Waiting, Write, Goto, Reply
<1>6. \A d \in Callers \ {c} : pc'[d] = pc[d] /\ call'[d] = call[d] /\ seen'[d] = seen[d]
  BY DEF Inv, TypeInv, Write, Goto, Local, Reply
<1>7. stored' = stored \/ stored'.rev = stored.rev + 1
  BY DEF Write, Swapped
<1>8. Faithful(c)
  BY DEF Inv, TypeInv, CallerInv, FormInv, Known, Faithful, Ends, Keeps, Write, Swapped,
         Conflicts, Goto, Reply, NoCall
<1> QED BY <1>1, <1>2, <1>3, <1>4, <1>5, <1>6, <1>7, <1>8, OthersWait

LEMMA HaltStep ==
  ASSUME Inv, NEW c \in Callers, Halt(c)
  PROVE  Inv' /\ \A d \in Callers : Faithful(d)
<1>1. ~Waiting(c) /\ gate = c
  BY DEF Inv, LockInv, Waiting, Halt
<1>2. TypeInv'
  BY ReplyTyped, GotoTyped, LocalTyped
  DEF Inv, TypeInv, Maybe, Pcs, Replies, Halt, Halted, HaltFailed
<1>3. SettledInv'
  BY DEF SettledInv, Halt, Halted, HaltFailed
<1>4. CallerInv(c)'
  BY DEF Inv, TypeInv, Commands, CallerInv, ProxyInv, SagaInv, FormInv, Known, Waiting, Maybe,
         LockInv, Halt, Halted, HaltFailed, Goto, Local, Reply
<1>5. gate' = c \/ (gate' = Null /\ Waiting(c)')
  BY <1>1 DEF Inv, TypeInv, Waiting, Halt, Goto, Reply
<1>6. \A d \in Callers \ {c} : pc'[d] = pc[d] /\ call'[d] = call[d] /\ seen'[d] = seen[d]
  BY DEF Inv, TypeInv, Halt, Goto, Local, Reply
<1>7. stored' = stored \/ stored'.rev = stored.rev + 1
  BY DEF Halt
<1>8. Faithful(c)
  BY <1>2 DEF TypeInv, Faithful, Ends, Keeps, Halt, Goto, Reply, NoCall
<1> QED BY <1>1, <1>2, <1>3, <1>4, <1>5, <1>6, <1>7, <1>8, OthersWait

LEMMA ClearStep ==
  ASSUME Inv, NEW c \in Callers, Clear(c)
  PROVE  Inv' /\ \A d \in Callers : Faithful(d)
<1>1. ~Waiting(c) /\ gate = c
  BY DEF Inv, LockInv, Waiting, Clear
<1>2. TypeInv'
  BY ReplyTyped, GotoTyped DEF Inv, TypeInv, Maybe, Pcs, Replies, Clear
<1>3. SettledInv'
  BY DEF Inv, SettledInv, CallerInv, ProxyInv, Clear
<1>4. CallerInv(c)'
  BY DEF Inv, TypeInv, CallerInv, ProxyInv, SagaInv, FormInv, Known, Waiting, Clear, Goto, Reply
<1>5. gate' = c \/ (gate' = Null /\ Waiting(c)')
  BY <1>1 DEF Inv, TypeInv, Waiting, Clear, Goto, Reply
<1>6. \A d \in Callers \ {c} : pc'[d] = pc[d] /\ call'[d] = call[d] /\ seen'[d] = seen[d]
  BY DEF Inv, TypeInv, Clear, Goto, Reply
<1>7. stored' = stored \/ stored'.rev = stored.rev + 1
  BY DEF Clear
<1>8. Faithful(c)
  BY DEF Inv, TypeInv, CallerInv, ProxyInv, Faithful, Ends, Keeps, Clear, Goto, Reply, NoCall
<1> QED BY <1>1, <1>2, <1>3, <1>4, <1>5, <1>6, <1>7, <1>8, OthersWait

LEMMA LaunchStep ==
  ASSUME Inv, NEW c \in Callers, Launch(c)
  PROVE  Inv' /\ \A d \in Callers : Faithful(d)
<1>1. ~Waiting(c) /\ gate = c
  BY DEF Inv, LockInv, Waiting, Launch
<1>2. TypeInv'
  BY ReplyTyped, GotoTyped, FieldsTyped
  DEF Inv, TypeInv, Maybe, Pcs, Replies, Launch, LaunchFailed, Capacity
<1>3. SettledInv'
  BY DEF Inv, TypeInv, SettledInv, CallerInv, ProxyInv, Launch, Goto
<1>4. CallerInv(c)'
  BY DEF Inv, TypeInv, CallerInv, ProxyInv, SagaInv, FormInv, Known, Waiting, Launch,
         LaunchFailed, Capacity, Goto, Reply
<1>5. gate' = c \/ (gate' = Null /\ Waiting(c)')
  BY <1>1 DEF Inv, TypeInv, Waiting, Launch, LaunchFailed, Goto, Reply
<1>6. \A d \in Callers \ {c} : pc'[d] = pc[d] /\ call'[d] = call[d] /\ seen'[d] = seen[d]
  BY DEF Inv, TypeInv, Launch, LaunchFailed, Goto, Reply
<1>7. stored' = stored \/ stored'.rev = stored.rev + 1
  BY DEF Launch
<1>8. Faithful(c)
  BY DEF Inv, TypeInv, CallerInv, ProxyInv, Faithful, Ends, Keeps, Launch, LaunchFailed, Goto,
         Reply, NoCall
<1> QED BY <1>1, <1>2, <1>3, <1>4, <1>5, <1>6, <1>7, <1>8, OthersWait

LEMMA ApplyStep ==
  ASSUME Inv, NEW c \in Callers, Apply(c)
  PROVE  Inv' /\ \A d \in Callers : Faithful(d)
<1>1. ~Waiting(c) /\ gate = c
  BY DEF Inv, LockInv, Waiting, Apply
<1>2. TypeInv'
  BY ReplyTyped, GotoTyped, FieldsTyped DEF Inv, TypeInv, Maybe, Pcs, Replies, Apply
<1>3. SettledInv'
  BY NoRow, FieldsTyped DEF Inv, SettledInv, CallerInv, ProxyInv, Apply
<1>4. CallerInv(c)'
  BY DEF Inv, TypeInv, CallerInv, ProxyInv, SagaInv, FormInv, Known, Waiting, Apply, Goto, Reply
<1>5. gate' = c \/ (gate' = Null /\ Waiting(c)')
  BY <1>1 DEF Inv, TypeInv, Waiting, Apply, Goto, Reply
<1>6. \A d \in Callers \ {c} : pc'[d] = pc[d] /\ call'[d] = call[d] /\ seen'[d] = seen[d]
  BY DEF Inv, TypeInv, Apply, Goto, Reply
<1>7. stored' = stored \/ stored'.rev = stored.rev + 1
  BY DEF Apply
<1>8. Faithful(c)
  BY NoRow, FieldsTyped
  DEF Inv, TypeInv, CallerInv, ProxyInv, SagaInv, Faithful, Ends, Keeps, Apply, Goto, Reply,
      NoCall
<1> QED BY <1>1, <1>2, <1>3, <1>4, <1>5, <1>6, <1>7, <1>8, OthersWait

LEMMA AnswerStep ==
  ASSUME Inv, NEW c \in Callers, Answer(c)
  PROVE  Inv' /\ \A d \in Callers : Faithful(d)
<1>1. ~Waiting(c) /\ gate = c
  BY DEF Inv, LockInv, Waiting, Answer
<1>2. TypeInv'
  BY ReplyTyped DEF Inv, TypeInv, Replies, Answer
<1>3. SettledInv'
  BY DEF Inv, LockInv, SettledInv, Waiting, Answer
<1>4. CallerInv(c)'
  BY DEF Inv, TypeInv, CallerInv, ProxyInv, SagaInv, FormInv, Known, Waiting, Rows, Answer, Reply
<1>5. gate' = c \/ (gate' = Null /\ Waiting(c)')
  BY DEF Inv, TypeInv, Waiting, Answer, Reply
<1>6. \A d \in Callers \ {c} : pc'[d] = pc[d] /\ call'[d] = call[d] /\ seen'[d] = seen[d]
  BY DEF Inv, TypeInv, Answer, Reply
<1>7. stored' = stored \/ stored'.rev = stored.rev + 1
  BY DEF Answer
<1>8. Faithful(c)
  BY DEF Inv, TypeInv, CallerInv, SagaInv, Faithful, Keeps, Answer, Reply, NoCall
<1> QED BY <1>1, <1>2, <1>3, <1>4, <1>5, <1>6, <1>7, <1>8, OthersWait

LEMMA UndoStep ==
  ASSUME Inv, NEW c \in Callers, Undo(c)
  PROVE  Inv' /\ \A d \in Callers : Faithful(d)
<1>1. ~Waiting(c) /\ gate = c
  BY DEF Inv, LockInv, Waiting, Undo
<1>2. TypeInv'
  BY ReplyTyped, GotoTyped DEF Inv, TypeInv, Maybe, Pcs, Replies, Undo, Halted, HaltFailed
<1>3. SettledInv'
  BY DEF SettledInv, Undo, Halted, HaltFailed
<1>4. CallerInv(c)'
  BY DEF Inv, TypeInv, CallerInv, ProxyInv, SagaInv, FormInv, Known, Waiting, Undo, Halted,
         HaltFailed, Candidate, Goto, Reply
<1>5. gate' = c \/ (gate' = Null /\ Waiting(c)')
  BY <1>1 DEF Inv, TypeInv, Waiting, Undo, Goto, Reply
<1>6. \A d \in Callers \ {c} : pc'[d] = pc[d] /\ call'[d] = call[d] /\ seen'[d] = seen[d]
  BY DEF Inv, TypeInv, Undo, Goto, Reply
<1>7. stored' = stored \/ stored'.rev = stored.rev + 1
  BY DEF Undo
<1>8. Faithful(c)
  BY <1>2 DEF TypeInv, Faithful, Ends, Keeps, Undo, Goto, Reply, NoCall
<1> QED BY <1>1, <1>2, <1>3, <1>4, <1>5, <1>6, <1>7, <1>8, OthersWait

LEMMA UndoClearStep ==
  ASSUME Inv, NEW c \in Callers, UndoClear(c)
  PROVE  Inv' /\ \A d \in Callers : Faithful(d)
<1>1. ~Waiting(c) /\ gate = c
  BY DEF Inv, LockInv, Waiting, UndoClear
<1>2. TypeInv'
  BY ReplyTyped, GotoTyped DEF Inv, TypeInv, Maybe, Pcs, Replies, UndoClear
<1>3. SettledInv'
  BY DEF Inv, SettledInv, CallerInv, ProxyInv, UndoClear
<1>4. CallerInv(c)'
  BY DEF Inv, TypeInv, CallerInv, ProxyInv, SagaInv, FormInv, Known, Waiting, UndoClear,
         Candidate, Goto, Reply
<1>5. gate' = c \/ (gate' = Null /\ Waiting(c)')
  BY <1>1 DEF Inv, TypeInv, Waiting, UndoClear, Goto, Reply
<1>6. \A d \in Callers \ {c} : pc'[d] = pc[d] /\ call'[d] = call[d] /\ seen'[d] = seen[d]
  BY DEF Inv, TypeInv, UndoClear, Goto, Reply
<1>7. stored' = stored \/ stored'.rev = stored.rev + 1
  BY DEF UndoClear
<1>8. Faithful(c)
  BY DEF Inv, TypeInv, CallerInv, ProxyInv, Faithful, Ends, Keeps, UndoClear, Goto, Reply, NoCall
<1> QED BY <1>1, <1>2, <1>3, <1>4, <1>5, <1>6, <1>7, <1>8, OthersWait

LEMMA RestoreStep ==
  ASSUME Inv, NEW c \in Callers, Restore(c)
  PROVE  Inv' /\ \A d \in Callers : Faithful(d)
<1>1. ~Waiting(c) /\ gate = c
  BY DEF Inv, LockInv, Waiting, Restore
<1>2. TypeInv'
  <2>0. TypeInv /\ stored' \in Rows /\ effective' \in Maybe
    BY FieldsTyped DEF Inv, Restore
  <2>1. CASE Reply(c, "rollbackFailed")
    BY <2>0, <2>1, ReplyTyped DEF Restore, TypeInv, Replies
  <2>2. CASE ~Reply(c, "rollbackFailed")
    <3>1. RecoveryPlan(c, stored') \in Rows
      BY <2>0, FieldsTyped DEF RecoveryPlan, Maybe
    <3> DEFINE k == [call[c] EXCEPT !.plan = RecoveryPlan(c, stored'), !.recovering = TRUE]
    <3>2. k \in Commands
      BY <2>0, <3>1, FieldsTyped DEF Commands
    <3>3. call' = [call EXCEPT ![c] = k]
      BY <2>2 DEF Restore
    <3> HIDE DEF k
    <3>4. call' \in [Callers -> Commands]
      BY <2>0, <3>2, <3>3 DEF TypeInv
    <3> QED BY <2>0, <2>2, <3>4, GotoTyped DEF Restore, TypeInv, Pcs
  <2> QED BY <2>1, <2>2
<1>3. SettledInv'
  BY DEF Inv, SettledInv, CallerInv, ProxyInv, Restore
<1>4. CallerInv(c)'
  <2>1. stored'.rev = stored.rev + 1 /\ stored'.val = call[c].old.val /\ seen' = seen
    BY FieldsTyped DEF Restore, Inv
  <2>2. Known(seen[c])'
    BY <2>1, KnownKept DEF Inv, TypeInv, CallerInv, FormInv
  <2>3. CASE Reply(c, "rollbackFailed")
    <3>1. pc'[c] = "idle"
      BY <2>3 DEF Reply, Inv, TypeInv
    <3> QED BY <2>2, <3>1, IdleKnows
  <2>4. CASE ~Reply(c, "rollbackFailed")
    <3> DEFINE k == [call[c] EXCEPT !.plan = RecoveryPlan(c, stored'), !.recovering = TRUE]
    <3>1. call[c] \in Commands /\ call[c].oldEffective # Null /\ pc[c] = "restore"
      BY <1>1 DEF Restore, Inv, TypeInv, CallerInv, SagaInv
    <3>2. /\ k.plan = call[c].oldEffective /\ k.oldEffective = call[c].oldEffective
          /\ k.recovering /\ k.old = call[c].old
      BY <3>1 DEF RecoveryPlan
    <3>3. call'[c] = k /\ pc'[c] = "launch" /\ proxy' = proxy
      BY <2>4 DEF Restore, Goto, Inv, TypeInv
    <3>4. proxy # "Running"
      BY <3>1 DEF Inv, CallerInv, ProxyInv
    <3> HIDE DEF k
    <3>5. ProxyInv(c)' /\ SagaInv(c)'
      BY <2>1, <3>1, <3>2, <3>3, <3>4 DEF ProxyInv, SagaInv
    <3>6. FormInv(c)'
      BY <2>2, <3>3 DEF FormInv
    <3> QED BY <3>5, <3>6 DEF CallerInv
  <2> QED BY <2>3, <2>4
<1>5. gate' = c \/ (gate' = Null /\ Waiting(c)')
  BY <1>1 DEF Inv, TypeInv, Waiting, Restore, Goto, Reply
<1>6. \A d \in Callers \ {c} : pc'[d] = pc[d] /\ call'[d] = call[d] /\ seen'[d] = seen[d]
  BY DEF Inv, TypeInv, Restore, Goto, Reply
<1>7. stored' = stored \/ stored'.rev = stored.rev + 1
  BY DEF Restore, Restored
<1>8. Faithful(c)
  BY DEF Inv, TypeInv, CallerInv, ProxyInv, Faithful, Ends, Keeps, Restore, Goto, Reply, NoCall
<1> QED BY <1>1, <1>2, <1>3, <1>4, <1>5, <1>6, <1>7, <1>8, OthersWait

LEMMA RestoreLastStep ==
  ASSUME Inv, NEW c \in Callers, RestoreLast(c)
  PROVE  Inv' /\ \A d \in Callers : Faithful(d)
<1>1. ~Waiting(c) /\ gate = c
  BY DEF Inv, LockInv, Waiting, RestoreLast
<1>2. TypeInv'
  BY ReplyTyped, FieldsTyped DEF Inv, TypeInv, Replies, RestoreLast
<1>3. SettledInv'
  BY DEF Inv, SettledInv, CallerInv, ProxyInv, RestoreLast
<1>4. CallerInv(c)'
  BY DEF Inv, TypeInv, CallerInv, ProxyInv, SagaInv, FormInv, Known, Waiting, Rows, RestoreLast,
         Restored, Reply
<1>5. gate' = c \/ (gate' = Null /\ Waiting(c)')
  BY DEF Inv, TypeInv, Waiting, RestoreLast, Reply
<1>6. \A d \in Callers \ {c} : pc'[d] = pc[d] /\ call'[d] = call[d] /\ seen'[d] = seen[d]
  BY DEF RestoreLast, Reply
<1>7. stored' = stored \/ stored'.rev = stored.rev + 1
  BY DEF RestoreLast, Restored
<1>8. Faithful(c)
  BY DEF Inv, TypeInv, CallerInv, ProxyInv, Faithful, Keeps, RestoreLast, Reply
<1> QED BY <1>1, <1>2, <1>3, <1>4, <1>5, <1>6, <1>7, <1>8, OthersWait

LEMMA RestoreFailsStep ==
  ASSUME Inv, NEW c \in Callers, RestoreFails(c)
  PROVE  Inv' /\ \A d \in Callers : Faithful(d)
<1>1. ~Waiting(c) /\ gate = c
  BY DEF Inv, LockInv, Waiting, RestoreFails, GiveUp
<1>2. TypeInv'
  BY ReplyTyped DEF Inv, TypeInv, Replies, GiveUp, RestoreFails
<1>3. SettledInv'
  BY DEF Inv, SettledInv, CallerInv, ProxyInv, RestoreFails, GiveUp
<1>4. CallerInv(c)'
  BY DEF Inv, TypeInv, CallerInv, ProxyInv, SagaInv, FormInv, Known, Waiting, RestoreFails,
         Reply, GiveUp
<1>5. gate' = c \/ (gate' = Null /\ Waiting(c)')
  BY DEF Inv, TypeInv, Waiting, RestoreFails, Reply, GiveUp
<1>6. \A d \in Callers \ {c} : pc'[d] = pc[d] /\ call'[d] = call[d] /\ seen'[d] = seen[d]
  BY DEF RestoreFails, Reply, GiveUp
<1>7. stored' = stored \/ stored'.rev = stored.rev + 1
  BY DEF RestoreFails, GiveUp
<1>8. Faithful(c)
  BY DEF Inv, TypeInv, CallerInv, ProxyInv, Faithful, Keeps, RestoreFails, Reply, GiveUp
<1> QED BY <1>1, <1>2, <1>3, <1>4, <1>5, <1>6, <1>7, <1>8, OthersWait

-------------------------------------------------------------------------------
\* The steps of callers that hold nothing.
LEMMA ViewStep ==
  ASSUME Inv, NEW c \in Callers, View(c)
  PROVE  Inv' /\ \A d \in Callers : Faithful(d)
<1>1. TypeInv' /\ LockInv' /\ SettledInv'
  BY DEF Inv, TypeInv, LockInv, SettledInv, Waiting, View
<1>2. ASSUME NEW d \in Callers PROVE CallerInv(d)' /\ Faithful(d)
  BY DEF Inv, TypeInv, Rows, CallerInv, ProxyInv, SagaInv, FormInv, Known, Waiting, View,
         Faithful, Ends
<1> QED BY <1>1, <1>2 DEF Inv

LEMMA CallStep ==
  ASSUME Inv, NEW c \in Callers, NEW kind \in Kinds, NEW v \in Values, Call(c, kind, v)
  PROVE  Inv' /\ \A d \in Callers : Faithful(d)
<1> DEFINE k == [NoCall EXCEPT !.kind = kind, !.draft = [val |-> v, rev |-> seen[c].rev],
                               !.base = seen[c]]
<1>1. k \in Commands /\ ~k.recovering /\ k.base = seen[c] /\ k.draft.rev = seen[c].rev
  BY DefaultAssumption DEF Inv, TypeInv, NoCall, Commands, Rows, Maybe, Replies
<1>2. call' = [call EXCEPT ![c] = k] /\ pc[c] = "idle" /\ pc' = [pc EXCEPT ![c] = "queue"]
  BY DEF Call
<1> HIDE DEF k
<1>3. UNCHANGED <<stored, effective, proxy, serving, limits, gate, seen>>
  BY DEF Call
<1>4. TypeInv' /\ LockInv' /\ SettledInv'
  BY <1>1, <1>2, <1>3 DEF Inv, TypeInv, LockInv, SettledInv, Waiting, Pcs
<1>5. CallerInv(c)' /\ Faithful(c)
  BY <1>1, <1>2, <1>3
  DEF Inv, TypeInv, CallerInv, ProxyInv, SagaInv, FormInv, Known, Waiting, Faithful, Ends
<1>6. ASSUME NEW d \in Callers \ {c} PROVE CallerInv(d)' /\ Faithful(d)
  <2>1. pc'[d] = pc[d] /\ call'[d] = call[d]
    BY <1>2
  <2> QED
    BY <1>3, <2>1
    DEF Inv, CallerInv, ProxyInv, SagaInv, FormInv, Known, Waiting, Faithful, Ends
<1> QED BY <1>4, <1>5, <1>6 DEF Inv

LEMMA AcquireStep ==
  ASSUME Inv, NEW c \in Callers, Acquire(c)
  PROVE  Inv' /\ \A d \in Callers : Faithful(d)
<1>1. TypeInv'
  BY DEF Inv, TypeInv, Acquire, Pcs
<1>2. LockInv' /\ SettledInv'
  BY NoRow DEF Inv, LockInv, SettledInv, Waiting, Acquire, GateFree
<1>3. ASSUME NEW d \in Callers PROVE CallerInv(d)' /\ Faithful(d)
  BY DEF Inv, CallerInv, ProxyInv, SagaInv, FormInv, Known, Waiting, Acquire, Faithful, Ends
<1> QED BY <1>1, <1>2, <1>3 DEF Inv

LEMMA ListenerDiesStep ==
  ASSUME Inv, ListenerDies
  PROVE  Inv' /\ \A d \in Callers : Faithful(d)
<1>1. TypeInv' /\ LockInv' /\ SettledInv'
  BY DEF Inv, TypeInv, LockInv, SettledInv, Waiting, ListenerDies, Maybe
<1>2. ASSUME NEW d \in Callers PROVE CallerInv(d)' /\ Faithful(d)
  BY DEF Inv, CallerInv, ProxyInv, SagaInv, FormInv, Known, Waiting, ListenerDies, Faithful, Ends
<1> QED BY <1>1, <1>2 DEF Inv

LEMMA InvStep ==
  ASSUME Inv, [Next]_vars
  PROVE  Inv' /\ \A d \in Callers : Faithful(d)
<1>1. ASSUME NEW c \in Callers, Step(c) PROVE Inv' /\ \A d \in Callers : Faithful(d)
  BY <1>1, AcquireStep, ReadFailsStep, EnterSaveStep, EnterSaveRestartStep, EnterStartStep,
     EnterStopStep, EnterRestartStep, EnterShutdownStep, EnterCertificateStep, CertifyStep,
     WriteRefusedStep, WriteStep, HaltStep, ClearStep, LaunchStep, ApplyStep, AnswerStep,
     UndoStep, UndoClearStep, RestoreStep, RestoreLastStep, RestoreFailsStep
  DEF Step
<1>2. CASE UNCHANGED vars
  <2>1. TypeInv' /\ LockInv' /\ SettledInv'
    BY <1>2 DEF Inv, TypeInv, LockInv, SettledInv, Waiting, vars
  <2>2. ASSUME NEW d \in Callers PROVE CallerInv(d)' /\ Faithful(d)
    BY <1>2
    DEF Inv, CallerInv, ProxyInv, SagaInv, FormInv, Known, Waiting, vars, Faithful, Ends
  <2> QED BY <2>1, <2>2 DEF Inv
<1> QED BY <1>1, <1>2, ViewStep, CallStep, ListenerDiesStep DEF Next

LEMMA Invariant == Spec => []Inv
  BY InvInit, InvStep, PTL DEF Spec
-------------------------------------------------------------------------------
\* Between two commands the proxy that runs, the settings shown for it and the capacity in
\* force are one; and no certificate changes under a proxy that is up (facade.rs,
\* application_proxy.rs).
THEOREM OneConfigurationHolds == Spec => []OneConfiguration
<1>1. Inv => OneConfiguration
  <2>1. ASSUME Inv, Idle PROVE \A c \in Callers : pc[c] # "apply"
    BY <2>1, NoRow DEF Inv, LockInv, Idle, Waiting
  <2> QED BY <2>1
          DEF Inv, SettledInv, CallerInv, ProxyInv, OneConfiguration, ServedIsEffective,
              CertificatesAtRest
<1> QED BY <1>1, Invariant, PTL

\* Whatever fails on the way, a command that answers saved, restarted, restored, started or
\* stopped has left the settings and the proxy as the answer says (facade/settings.rs,
\* facade/proxy.rs).
THEOREM RepliesHold == Spec => RepliesAreTrue
<1>1. ASSUME Inv, [Next]_vars PROVE [\A c \in Callers : Ends(c) => Keeps(c)]_vars
  BY <1>1, InvStep DEF Faithful
<1> QED BY <1>1, Invariant, PTL DEF Spec, RepliesAreTrue

\* A save never overwrites settings its form was not filled from, rollbacks in between
\* included (SqliteStore::save_settings).
THEOREM NoUpdateIsLost == Spec => NoLostUpdate
<1>1. ASSUME Inv, [Next]_vars
      PROVE  [\A c \in Callers : pc[c] = "write" /\ stored' # stored =>
                                   stored = call[c].base]_vars
  BY <1>1, InvStep DEF Faithful
<1> QED BY <1>1, Invariant, PTL DEF Spec, NoLostUpdate
===============================================================================
