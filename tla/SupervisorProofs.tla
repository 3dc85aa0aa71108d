--------------------------- MODULE SupervisorProofs ---------------------------
(***************************************************************************)
(* Proofs about Supervisor, for any sets of calls, epochs and channels, in *)
(* three parts: every variable keeps its type; the inductive invariant and *)
(* what follows from it, when the calls are serialised by their callers or *)
(* nothing panics (SerialCalls); and what an observer is promised, that a  *)
(* listener accepts for the published epoch only and that the lifecycle    *)
(* follows the state graph of Lifecycle.                                   *)
(***************************************************************************)
EXTENDS Supervisor, TLAPS

(***************************************************************************)
(* Every variable keeps its type.  The actions that change several of a    *)
(* call's variables at once are taken one variable at a time.              *)
(***************************************************************************)
\* cleanup_runtime takes over a callback that is owed.
LEMMA TakePendingType ==
  ASSUME TypeOK, NEW o \in Ops, TakePending(o)
  PROVE  TypeOK'
<1>1. pc' \in [Ops -> OpPcs]
  BY DEF TypeOK, OpPcs, TakePending, Goto
<1>2. target' \in [Ops -> Option(Epochs)]
  BY DEF TypeOK, Option, TakePending, Goto
<1>3. retry' \in [Ops -> BOOLEAN]
  BY DEF TypeOK, TakePending, Goto
<1>4. pending' \in Option(Epochs)
  BY DEF TypeOK, Option, TakePending, Goto
<1> QED
  BY <1>1, <1>2, <1>3, <1>4 DEF TypeOK, TakePending, lifecycle, owned, tasks

\* cleanup_runtime takes the runtime.
LEMMA TakeRuntimeType ==
  ASSUME TypeOK, NEW o \in Ops, TakeRuntime(o)
  PROVE  TypeOK'
<1>1. pc' \in [Ops -> OpPcs]
  BY DEF TypeOK, OpPcs, TakeRuntime, Goto
<1>2. target' \in [Ops -> Option(Epochs)]
  BY DEF TypeOK, Option, TakeRuntime, Goto
<1>3. retry' \in [Ops -> BOOLEAN]
  BY DEF TypeOK, TakeRuntime, Goto
<1>4. ok' \in [Ops -> BOOLEAN]
  BY DEF TypeOK, TakeRuntime, Goto
<1>5. runtime' \in Option(Epochs)
  BY DEF TypeOK, Option, TakeRuntime, Goto
<1> QED
  BY <1>1, <1>2, <1>3, <1>4, <1>5 DEF TypeOK, TakeRuntime, lifecycle, owned, tasks

\* The first look at the notification flag.
LEMMA CheckNotifiedType ==
  ASSUME TypeOK, NEW o \in Ops, CheckNotified(o)
  PROVE  TypeOK'
<1>1. pc' \in [Ops -> OpPcs]
  BY DEF TypeOK, OpPcs, CheckNotified, Notified, Goto
<1>2. ok' \in [Ops -> BOOLEAN]
  BY DEF TypeOK, CheckNotified, Notified
<1>3. pending' \in Option(Epochs)
  BY DEF TypeOK, Option, CheckNotified, Notified
<1> QED
  BY <1>1, <1>2, <1>3 DEF TypeOK, CheckNotified, lifecycle, owned, tasks

\* The second look, under the notification lock.
LEMMA LockNotificationType ==
  ASSUME TypeOK, NEW o \in Ops, LockNotification(o)
  PROVE  TypeOK'
<1>1. pc' \in [Ops -> OpPcs]
  BY DEF TypeOK, OpPcs, LockNotification, Notified, Goto
<1>2. notifier' \in [Epochs -> Option(Ops \cup Epochs)]
  BY DEF TypeOK, Option, LockNotification, Notified, Goto
<1>3. ok' \in [Ops -> BOOLEAN]
  BY DEF TypeOK, LockNotification, Notified, Goto
<1>4. pending' \in Option(Epochs)
  BY DEF TypeOK, Option, LockNotification, Notified, Goto
<1> QED
  BY <1>1, <1>2, <1>3, <1>4 DEF TypeOK, LockNotification, lifecycle, owned, tasks

\* The callback returns.
LEMMA NotificationReturnsType ==
  ASSUME TypeOK, NEW o \in Ops, NotificationReturns(o)
  PROVE  TypeOK'
<1>1. pc' \in [Ops -> OpPcs]
  BY DEF TypeOK, OpPcs, NotificationReturns, Notified, Goto
<1>2. notifier' \in [Epochs -> Option(Ops \cup Epochs)]
  BY DEF TypeOK, Option, NotificationReturns, Notified, Goto
<1>3. completed' \in [Epochs -> BOOLEAN]
  BY DEF TypeOK, NotificationReturns, Notified, Goto
<1>4. ok' \in [Ops -> BOOLEAN]
  BY DEF TypeOK, NotificationReturns, Notified, Goto
<1>5. pending' \in Option(Epochs)
  BY DEF TypeOK, Option, NotificationReturns, Notified, Goto
<1> QED
  BY <1>1, <1>2, <1>3, <1>4, <1>5 DEF TypeOK, NotificationReturns, lifecycle, owned, tasks

\* Every step keeps the types.
LEMMA TypeStep == TypeOK /\ [Next]_vars => TypeOK'
<1> SUFFICES ASSUME TypeOK, [Next]_vars
             PROVE  TypeOK'
  OBVIOUS
<1> USE SupervisorAssumption
        DEF TypeOK, vars, lifecycle, owned, tasks, calls, OpPcs, WatchdogPcs, ListenerPcs,
            Kinds, Option
<1>1. ASSUME NEW o \in Ops, NEW k \in Kinds, Call(o, k)
      PROVE  TypeOK'
  BY <1>1 DEF Call, Goto
<1>2. ASSUME NEW o \in Ops, OpStep(o)
      PROVE  TypeOK'
  <2>1. CASE StopStopped(o)
    BY <2>1 DEF StopStopped, StopReturned, Goto
  <2>2. CASE BeginStop(o)
    BY <2>2 DEF BeginStop, Goto
  <2>3. CASE RejectStart(o)
    BY <2>3 DEF RejectStart, Goto
  <2>4. CASE BeginStart(o)
    BY <2>4 DEF BeginStart, Goto
  <2>5. CASE TakePending(o)
    BY <2>5, TakePendingType
  <2>6. CASE TakeRuntime(o)
    BY <2>6, TakeRuntimeType
  <2>7. CASE CheckNotified(o)
    BY <2>7, CheckNotifiedType
  <2>8. CASE LockNotification(o)
    BY <2>8, LockNotificationType
  <2>9. CASE NotificationReturns(o)
    BY <2>9, NotificationReturnsType
  <2>10. CASE CancelRuntime(o)
    BY <2>10 DEF CancelRuntime, Goto
  <2>11. CASE Joined(o)
    BY <2>11 DEF Joined, Goto, KeepForRetry
  <2>12. CASE JoinTimesOut(o)
    BY <2>12 DEF JoinTimesOut, Goto, KeepForRetry
  <2>13. CASE ReleaseToken(o)
    BY <2>13 DEF ReleaseToken, Goto
  <2>14. CASE StopSettles(o)
    BY <2>14 DEF StopSettles, Fault, Unlock, Goto, StopReturned
  <2>15. CASE StartSettles(o)
    BY <2>15 DEF StartSettles, Fault, Unlock, Goto
  <2>16. CASE UnwindSettles(o)
    BY <2>16 DEF UnwindSettles, Fault, Unlock, Goto
  <2>17. CASE PrepareFails(o)
    BY <2>17 DEF PrepareFails, Fault, Unlock, Goto
  <2>18. CASE PreparePanics(o)
    BY <2>18 DEF PreparePanics, Goto
  <2>19. CASE SpawnTasks(o)
    BY <2>19 DEF SpawnTasks, Goto
  <2>20. CASE StoreRuntime(o)
    BY <2>20 DEF StoreRuntime, Goto
  <2>21. CASE PublishRunning(o)
    BY <2>21 DEF PublishRunning, Goto
  <2>22. CASE OpenGate(o)
    BY <2>22 DEF OpenGate, Goto, Unlock
  <2> QED
    BY <1>2, <2>1, <2>2, <2>3, <2>4, <2>5, <2>6, <2>7, <2>8, <2>9, <2>10, <2>11, <2>12, <2>13, <2>14, <2>15, <2>16, <2>17, <2>18, <2>19, <2>20, <2>21, <2>22 DEF OpStep
<1>3. ASSUME NEW e \in Epochs, WatchdogStep(e)
      PROVE  TypeOK'
  <2>1. CASE WatchCancelled(e)
    BY <2>1 DEF WatchCancelled, Step
  <2>2. CASE WatchFatal(e)
    BY <2>2 DEF WatchFatal, Step
  <2>3. CASE WatchdogChecks(e)
    BY <2>3 DEF WatchdogChecks, Step
  <2>4. CASE WatchdogLocks(e)
    BY <2>4 DEF WatchdogLocks, Step
  <2>5. CASE WatchdogNotified(e)
    BY <2>5 DEF WatchdogNotified, Step
  <2>6. CASE WatchdogCancels(e)
    BY <2>6 DEF WatchdogCancels, Step
  <2>7. CASE MarkFaulted(e)
    BY <2>7 DEF MarkFaulted, Step
  <2>8. CASE ReportFault(e)
    BY <2>8 DEF ReportFault, Step
  <2> QED
    BY <1>3, <2>1, <2>2, <2>3, <2>4, <2>5, <2>6, <2>7, <2>8 DEF WatchdogStep
<1>4. ASSUME NEW e \in Epochs, NEW c \in Channels, ListenerStep(e, c)
      PROVE  TypeOK'
  <2>1. CASE PassGate(e, c)
    BY <2>1 DEF PassGate
  <2>2. CASE ListenerEnds(e, c)
    BY <2>2 DEF ListenerEnds
  <2>3. CASE ListenerFails(e, c)
    BY <2>3 DEF ListenerFails
  <2> QED
    BY <1>4, <2>1, <2>2, <2>3 DEF ListenerStep
<1>5. CASE UNCHANGED vars
  BY <1>5
<1> QED
  BY <1>1, <1>2, <1>3, <1>4, <1>5 DEF Next, AllReturned

\* A proxy that has just been built has them.
LEMMA InitType == Init => TypeOK
  BY SupervisorAssumption DEF Init, TypeOK, OpPcs, WatchdogPcs, ListenerPcs, Kinds, Option

\* Every variable of the supervisor has its type in every reachable state.
THEOREM TypeCorrect == Spec => []TypeOK
  BY InitType, TypeStep, PTL DEF Spec
-------------------------------------------------------------------------------
(***************************************************************************)
(* The inductive invariant.  One lemma per conjunct of IInv; each names    *)
(* the conjuncts it rests on in its first step and takes the actions one   *)
(* by one.                                                                 *)
(***************************************************************************)
\* The operation lock follows the busy call.
LEMMA LockStep ==
  ASSUME SerialCalls, IInv, [Next]_vars
  PROVE  LockInv'
<1> USE SupervisorAssumption
        DEF vars, lifecycle, owned, tasks, calls, LockInv, Busy, Outstanding
<1>0. /\ LockInv /\ (\A p \in Ops : pc[p] = "prepare" => phase[p] = "start")
     /\ pc \in [Ops -> OpPcs] /\ phase \in [Ops -> {"start", "stop", "unwind"}]
  BY DEF IInv, TypeOK, LaunchInv
<1>1. ASSUME NEW o \in Ops, NEW k \in Kinds, Call(o, k)
      PROVE  LockInv'
  BY <1>0, <1>1 DEF Call, Goto
<1>2. ASSUME NEW o \in Ops, OpStep(o)
      PROVE  LockInv'
  <2>1. CASE StopStopped(o)
    BY <1>0, <2>1 DEF StopStopped, StopReturned, Goto
  <2>2. CASE BeginStop(o)
    BY <1>0, <2>2 DEF BeginStop, Goto
  <2>3. CASE RejectStart(o)
    BY <1>0, <2>3 DEF RejectStart, Goto
  <2>4. CASE BeginStart(o)
    BY <1>0, <2>4 DEF BeginStart, Goto
  <2>5. CASE TakePending(o)
    BY <1>0, <2>5 DEF TakePending, Goto
  <2>6. CASE TakeRuntime(o)
    BY <1>0, <2>6 DEF TakeRuntime, Goto
  <2>7. CASE CheckNotified(o)
    BY <1>0, <2>7 DEF CheckNotified, Notified, Goto
  <2>8. CASE LockNotification(o)
    BY <1>0, <2>8 DEF LockNotification, Notified, Goto
  <2>9. CASE NotificationReturns(o)
    BY <1>0, <2>9 DEF NotificationReturns, Notified, Goto
  <2>10. CASE CancelRuntime(o)
    BY <1>0, <2>10 DEF CancelRuntime, Goto
  <2>11. CASE Joined(o)
    BY <1>0, <2>11 DEF Joined, TasksEnded, KeepForRetry, Goto
  <2>12. CASE JoinTimesOut(o)
    BY <1>0, <2>12 DEF JoinTimesOut, KeepForRetry, Goto
  <2>13. CASE ReleaseToken(o)
    BY <1>0, <2>13 DEF ReleaseToken, Goto
  <2>14. CASE StopSettles(o)
    BY <1>0, <2>14 DEF StopSettles, Unlock, StopReturned, Fault, Goto
  <2>15. CASE StartSettles(o)
    BY <1>0, <2>15 DEF StartSettles, Unlock, Fault, Goto
  <2>16. CASE UnwindSettles(o)
    BY <1>0, <2>16 DEF UnwindSettles, Unlock, Fault, Goto
  <2>17. CASE PrepareFails(o)
    BY <1>0, <2>17 DEF PrepareFails, Unlock, Fault, Goto
  <2>18. CASE PreparePanics(o)
    BY <1>0, <2>18 DEF PreparePanics, Goto
  <2>19. CASE SpawnTasks(o)
    BY <1>0, <2>19 DEF SpawnTasks, Goto
  <2>20. CASE StoreRuntime(o)
    BY <1>0, <2>20 DEF StoreRuntime, Goto
  <2>21. CASE PublishRunning(o)
    BY <1>0, <2>21 DEF PublishRunning, Goto
  <2>22. CASE OpenGate(o)
    BY <1>0, <2>22 DEF OpenGate, Unlock, Goto
  <2> QED
    BY <1>2, <2>1, <2>2, <2>3, <2>4, <2>5, <2>6, <2>7, <2>8, <2>9, <2>10, <2>11,
       <2>12, <2>13, <2>14, <2>15, <2>16, <2>17, <2>18, <2>19, <2>20, <2>21, <2>22
    DEF OpStep
<1>3. ASSUME NEW e \in Epochs, WatchdogStep(e)
      PROVE  LockInv'
  <2>1. CASE WatchCancelled(e)
    BY <1>0, <2>1 DEF WatchCancelled, Step
  <2>2. CASE WatchFatal(e)
    BY <1>0, <2>2 DEF WatchFatal, Step
  <2>3. CASE WatchdogChecks(e)
    BY <1>0, <2>3 DEF WatchdogChecks, Step
  <2>4. CASE WatchdogLocks(e)
    BY <1>0, <2>4 DEF WatchdogLocks, Step
  <2>5. CASE WatchdogNotified(e)
    BY <1>0, <2>5 DEF WatchdogNotified, Step
  <2>6. CASE WatchdogCancels(e)
    BY <1>0, <2>6 DEF WatchdogCancels, Step
  <2>7. CASE MarkFaulted(e)
    BY <1>0, <2>7 DEF MarkFaulted, Step
  <2>8. CASE ReportFault(e)
    BY <1>0, <2>8 DEF ReportFault, Step
  <2> QED
    BY <1>3, <2>1, <2>2, <2>3, <2>4, <2>5, <2>6, <2>7, <2>8
    DEF WatchdogStep
<1>4. ASSUME NEW e \in Epochs, NEW c \in Channels, ListenerStep(e, c)
      PROVE  LockInv'
  <2>1. CASE PassGate(e, c)
    BY <1>0, <2>1 DEF PassGate
  <2>2. CASE ListenerEnds(e, c)
    BY <1>0, <2>2 DEF ListenerEnds
  <2>3. CASE ListenerFails(e, c)
    BY <1>0, <2>3 DEF ListenerFails
  <2> QED
    BY <1>4, <2>1, <2>2, <2>3
    DEF ListenerStep
<1>5. CASE UNCHANGED vars
  BY <1>0, <1>5
<1> QED
  BY <1>1, <1>2, <1>3, <1>4, <1>5 DEF Next, AllReturned

\* A call that holds an epoch holds one that exists.
LEMMA TargetStep ==
  ASSUME SerialCalls, IInv, [Next]_vars
  PROVE  TargetInv'
<1> USE SupervisorAssumption
        DEF vars, lifecycle, owned, tasks, calls, TargetInv, Exclusive, Busy,
            Launching, Spawned, Option
<1>0. /\ TargetInv /\ Exclusive /\ (runtime # None => Spawned(runtime))
     /\ (pending # None => Spawned(pending))
     /\ pc \in [Ops -> OpPcs] /\ target \in [Ops -> Option(Epochs)]
     /\ retry \in [Ops -> BOOLEAN] /\ watchdog \in [Epochs -> WatchdogPcs]
     /\ runtime \in Option(Epochs) /\ pending \in Option(Epochs)
     /\ ok \in [Ops -> BOOLEAN] /\ completed \in [Epochs -> BOOLEAN]
     /\ cancelled \in [Epochs -> BOOLEAN]
  BY DEF IInv, TypeOK, RuntimeInv, PendingInv
<1>1. ASSUME NEW o \in Ops, NEW k \in Kinds, Call(o, k)
      PROVE  TargetInv'
  BY <1>0, <1>1 DEF Call, Goto
<1>2. ASSUME NEW o \in Ops, OpStep(o)
      PROVE  TargetInv'
  <2>1. CASE StopStopped(o)
    BY <1>0, <2>1 DEF StopStopped, StopReturned, Goto
  <2>2. CASE BeginStop(o)
    BY <1>0, <2>2 DEF BeginStop, Goto
  <2>3. CASE RejectStart(o)
    BY <1>0, <2>3 DEF RejectStart, Goto
  <2>4. CASE BeginStart(o)
    BY <1>0, <2>4 DEF BeginStart, Goto
  <2>5. CASE TakePending(o)
    BY <1>0, <2>5 DEF TakePending, Goto
  <2>6. CASE TakeRuntime(o)
    BY <1>0, <2>6 DEF TakeRuntime, Goto
  <2>7. CASE CheckNotified(o)
    BY <1>0, <2>7 DEF CheckNotified, Notified, Goto
  <2>8. CASE LockNotification(o)
    BY <1>0, <2>8 DEF LockNotification, Notified, Goto
  <2>9. CASE NotificationReturns(o)
    BY <1>0, <2>9 DEF NotificationReturns, Notified, Goto
  <2>10. CASE CancelRuntime(o)
    BY <1>0, <2>10 DEF CancelRuntime, Goto
  <2>11. CASE Joined(o)
    BY <1>0, <2>11 DEF Joined, TasksEnded, KeepForRetry, Goto
  <2>12. CASE JoinTimesOut(o)
    BY <1>0, <2>12 DEF JoinTimesOut, KeepForRetry, Goto
  <2>13. CASE ReleaseToken(o)
    BY <1>0, <2>13 DEF ReleaseToken, Goto
  <2>14. CASE StopSettles(o)
    BY <1>0, <2>14 DEF StopSettles, Unlock, StopReturned, Fault, Goto
  <2>15. CASE StartSettles(o)
    BY <1>0, <2>15 DEF StartSettles, Unlock, Fault, Goto
  <2>16. CASE UnwindSettles(o)
    BY <1>0, <2>16 DEF UnwindSettles, Unlock, Fault, Goto
  <2>17. CASE PrepareFails(o)
    BY <1>0, <2>17 DEF PrepareFails, Unlock, Fault, Goto
  <2>18. CASE PreparePanics(o)
    BY <1>0, <2>18 DEF PreparePanics, Goto
  <2>19. CASE SpawnTasks(o)
    BY <1>0, <2>19 DEF SpawnTasks, Goto
  <2>20. CASE StoreRuntime(o)
    BY <1>0, <2>20 DEF StoreRuntime, Goto
  <2>21. CASE PublishRunning(o)
    BY <1>0, <2>21 DEF PublishRunning, Goto
  <2>22. CASE OpenGate(o)
    BY <1>0, <2>22 DEF OpenGate, Unlock, Goto
  <2> QED
    BY <1>2, <2>1, <2>2, <2>3, <2>4, <2>5, <2>6, <2>7, <2>8, <2>9, <2>10, <2>11,
       <2>12, <2>13, <2>14, <2>15, <2>16, <2>17, <2>18, <2>19, <2>20, <2>21, <2>22
    DEF OpStep
<1>3. ASSUME NEW e \in Epochs, WatchdogStep(e)
      PROVE  TargetInv'
  <2>1. CASE WatchCancelled(e)
    BY <1>0, <2>1 DEF WatchCancelled, Step
  <2>2. CASE WatchFatal(e)
    BY <1>0, <2>2 DEF WatchFatal, Step
  <2>3. CASE WatchdogChecks(e)
    BY <1>0, <2>3 DEF WatchdogChecks, Step
  <2>4. CASE WatchdogLocks(e)
    BY <1>0, <2>4 DEF WatchdogLocks, Step
  <2>5. CASE WatchdogNotified(e)
    BY <1>0, <2>5 DEF WatchdogNotified, Step
  <2>6. CASE WatchdogCancels(e)
    BY <1>0, <2>6 DEF WatchdogCancels, Step
  <2>7. CASE MarkFaulted(e)
    BY <1>0, <2>7 DEF MarkFaulted, Step
  <2>8. CASE ReportFault(e)
    BY <1>0, <2>8 DEF ReportFault, Step
  <2> QED
    BY <1>3, <2>1, <2>2, <2>3, <2>4, <2>5, <2>6, <2>7, <2>8
    DEF WatchdogStep
<1>4. ASSUME NEW e \in Epochs, NEW c \in Channels, ListenerStep(e, c)
      PROVE  TargetInv'
  <2>1. CASE PassGate(e, c)
    BY <1>0, <2>1 DEF PassGate
  <2>2. CASE ListenerEnds(e, c)
    BY <1>0, <2>2 DEF ListenerEnds
  <2>3. CASE ListenerFails(e, c)
    BY <1>0, <2>3 DEF ListenerFails
  <2> QED
    BY <1>4, <2>1, <2>2, <2>3
    DEF ListenerStep
<1>5. CASE UNCHANGED vars
  BY <1>0, <1>5
<1> QED
  BY <1>1, <1>2, <1>3, <1>4, <1>5 DEF Next, AllReturned

\* Nobody else touches the epoch that is being launched.
LEMMA LaunchStep ==
  ASSUME SerialCalls, IInv, [Next]_vars
  PROVE  LaunchInv'
<1> USE SupervisorAssumption
        DEF vars, lifecycle, owned, tasks, calls, LaunchInv, Exclusive, Busy,
            TargetInv, Launching, Spawned, FreshInv, PendingInv
<1>0. /\ LaunchInv /\ Exclusive /\ TargetInv /\ FreshInv /\ PendingInv
     /\ pc \in [Ops -> OpPcs] /\ phase \in [Ops -> {"start", "stop", "unwind"}]
     /\ target \in [Ops -> Option(Epochs)] /\ gate \in [Epochs -> BOOLEAN]
     /\ cancelled \in [Epochs -> BOOLEAN] /\ watchdog \in [Epochs -> WatchdogPcs]
  BY DEF IInv, TypeOK
<1>1. ASSUME NEW o \in Ops, NEW k \in Kinds, Call(o, k)
      PROVE  LaunchInv'
  BY <1>0, <1>1 DEF Call, Goto
<1>2. ASSUME NEW o \in Ops, OpStep(o)
      PROVE  LaunchInv'
  <2>1. CASE StopStopped(o)
    BY <1>0, <2>1 DEF StopStopped, StopReturned, Goto
  <2>2. CASE BeginStop(o)
    BY <1>0, <2>2 DEF BeginStop, Goto
  <2>3. CASE RejectStart(o)
    BY <1>0, <2>3 DEF RejectStart, Goto
  <2>4. CASE BeginStart(o)
    BY <1>0, <2>4 DEF BeginStart, Goto
  <2>5. CASE TakePending(o)
    BY <1>0, <2>5 DEF TakePending, Goto
  <2>6. CASE TakeRuntime(o)
    BY <1>0, <2>6 DEF TakeRuntime, Goto
  <2>7. CASE CheckNotified(o)
    BY <1>0, <2>7 DEF CheckNotified, Notified, Goto
  <2>8. CASE LockNotification(o)
    BY <1>0, <2>8 DEF LockNotification, Notified, Goto
  <2>9. CASE NotificationReturns(o)
    BY <1>0, <2>9 DEF NotificationReturns, Notified, Goto
  <2>10. CASE CancelRuntime(o)
    BY <1>0, <2>10 DEF CancelRuntime, Goto
  <2>11. CASE Joined(o)
    BY <1>0, <2>11 DEF Joined, TasksEnded, KeepForRetry, Goto
  <2>12. CASE JoinTimesOut(o)
    BY <1>0, <2>12 DEF JoinTimesOut, KeepForRetry, Goto
  <2>13. CASE ReleaseToken(o)
    BY <1>0, <2>13 DEF ReleaseToken, Goto
  <2>14. CASE StopSettles(o)
    BY <1>0, <2>14 DEF StopSettles, Unlock, StopReturned, Fault, Goto
  <2>15. CASE StartSettles(o)
    BY <1>0, <2>15 DEF StartSettles, Unlock, Fault, Goto
  <2>16. CASE UnwindSettles(o)
    BY <1>0, <2>16 DEF UnwindSettles, Unlock, Fault, Goto
  <2>17. CASE PrepareFails(o)
    BY <1>0, <2>17 DEF PrepareFails, Unlock, Fault, Goto
  <2>18. CASE PreparePanics(o)
    BY <1>0, <2>18 DEF PreparePanics, Goto
  <2>19. CASE SpawnTasks(o)
    BY <1>0, <2>19 DEF SpawnTasks, Goto
  <2>20. CASE StoreRuntime(o)
    BY <1>0, <2>20 DEF StoreRuntime, Goto
  <2>21. CASE PublishRunning(o)
    BY <1>0, <2>21 DEF PublishRunning, Goto
  <2>22. CASE OpenGate(o)
    BY <1>0, <2>22 DEF OpenGate, Unlock, Goto
  <2> QED
    BY <1>2, <2>1, <2>2, <2>3, <2>4, <2>5, <2>6, <2>7, <2>8, <2>9, <2>10, <2>11,
       <2>12, <2>13, <2>14, <2>15, <2>16, <2>17, <2>18, <2>19, <2>20, <2>21, <2>22
    DEF OpStep
<1>3. ASSUME NEW e \in Epochs, WatchdogStep(e)
      PROVE  LaunchInv'
  <2>1. CASE WatchCancelled(e)
    BY <1>0, <2>1 DEF WatchCancelled, Step
  <2>2. CASE WatchFatal(e)
    BY <1>0, <2>2 DEF WatchFatal, Step
  <2>3. CASE WatchdogChecks(e)
    BY <1>0, <2>3 DEF WatchdogChecks, Step
  <2>4. CASE WatchdogLocks(e)
    BY <1>0, <2>4 DEF WatchdogLocks, Step
  <2>5. CASE WatchdogNotified(e)
    BY <1>0, <2>5 DEF WatchdogNotified, Step
  <2>6. CASE WatchdogCancels(e)
    BY <1>0, <2>6 DEF WatchdogCancels, Step
  <2>7. CASE MarkFaulted(e)
    BY <1>0, <2>7 DEF MarkFaulted, Step
  <2>8. CASE ReportFault(e)
    BY <1>0, <2>8 DEF ReportFault, Step
  <2> QED
    BY <1>3, <2>1, <2>2, <2>3, <2>4, <2>5, <2>6, <2>7, <2>8
    DEF WatchdogStep
<1>4. ASSUME NEW e \in Epochs, NEW c \in Channels, ListenerStep(e, c)
      PROVE  LaunchInv'
  <2>1. CASE PassGate(e, c)
    BY <1>0, <2>1 DEF PassGate
  <2>2. CASE ListenerEnds(e, c)
    BY <1>0, <2>2 DEF ListenerEnds
  <2>3. CASE ListenerFails(e, c)
    BY <1>0, <2>3 DEF ListenerFails
  <2> QED
    BY <1>4, <2>1, <2>2, <2>3
    DEF ListenerStep
<1>5. CASE UNCHANGED vars
  BY <1>0, <1>5
<1> QED
  BY <1>1, <1>2, <1>3, <1>4, <1>5 DEF Next, AllReturned

\* An epoch whose gate is closed has accepted nothing and failed nowhere.
LEMMA FreshStep ==
  ASSUME SerialCalls, IInv, [Next]_vars
  PROVE  FreshInv'
<1> USE SupervisorAssumption
        DEF vars, lifecycle, owned, tasks, calls, FreshInv, TargetInv, RuntimeInv,
            Launching, Spawned, Option
<1>0. /\ FreshInv /\ TargetInv /\ RuntimeInv
     /\ pc \in [Ops -> OpPcs] /\ target \in [Ops -> Option(Epochs)]
     /\ watchdog \in [Epochs -> WatchdogPcs] /\ gate \in [Epochs -> BOOLEAN]
     /\ cancelled \in [Epochs -> BOOLEAN] /\ fatal \in [Epochs -> BOOLEAN]
     /\ listener \in [Epochs -> [Channels -> ListenerPcs]]
     /\ active \in Option(Epochs)
  BY DEF IInv, TypeOK
<1>1. ASSUME NEW o \in Ops, NEW k \in Kinds, Call(o, k)
      PROVE  FreshInv'
  BY <1>0, <1>1 DEF Call, Goto
<1>2. ASSUME NEW o \in Ops, OpStep(o)
      PROVE  FreshInv'
  <2>1. CASE StopStopped(o)
    BY <1>0, <2>1 DEF StopStopped, StopReturned, Goto
  <2>2. CASE BeginStop(o)
    BY <1>0, <2>2 DEF BeginStop, Goto
  <2>3. CASE RejectStart(o)
    BY <1>0, <2>3 DEF RejectStart, Goto
  <2>4. CASE BeginStart(o)
    BY <1>0, <2>4 DEF BeginStart, Goto
  <2>5. CASE TakePending(o)
    BY <1>0, <2>5 DEF TakePending, Goto
  <2>6. CASE TakeRuntime(o)
    BY <1>0, <2>6 DEF TakeRuntime, Goto
  <2>7. CASE CheckNotified(o)
    BY <1>0, <2>7 DEF CheckNotified, Notified, Goto
  <2>8. CASE LockNotification(o)
    BY <1>0, <2>8 DEF LockNotification, Notified, Goto
  <2>9. CASE NotificationReturns(o)
    BY <1>0, <2>9 DEF NotificationReturns, Notified, Goto
  <2>10. CASE CancelRuntime(o)
    BY <1>0, <2>10 DEF CancelRuntime, Goto
  <2>11. CASE Joined(o)
    BY <1>0, <2>11 DEF Joined, TasksEnded, KeepForRetry, Goto
  <2>12. CASE JoinTimesOut(o)
    BY <1>0, <2>12 DEF JoinTimesOut, KeepForRetry, Goto
  <2>13. CASE ReleaseToken(o)
    BY <1>0, <2>13 DEF ReleaseToken, Goto
  <2>14. CASE StopSettles(o)
    BY <1>0, <2>14 DEF StopSettles, Unlock, StopReturned, Fault, Goto
  <2>15. CASE StartSettles(o)
    BY <1>0, <2>15 DEF StartSettles, Unlock, Fault, Goto
  <2>16. CASE UnwindSettles(o)
    BY <1>0, <2>16 DEF UnwindSettles, Unlock, Fault, Goto
  <2>17. CASE PrepareFails(o)
    BY <1>0, <2>17 DEF PrepareFails, Unlock, Fault, Goto
  <2>18. CASE PreparePanics(o)
    BY <1>0, <2>18 DEF PreparePanics, Goto
  <2>19. CASE SpawnTasks(o)
    BY <1>0, <2>19 DEF SpawnTasks, Goto
  <2>20. CASE StoreRuntime(o)
    BY <1>0, <2>20 DEF StoreRuntime, Goto
  <2>21. CASE PublishRunning(o)
    BY <1>0, <2>21 DEF PublishRunning, Goto
  <2>22. CASE OpenGate(o)
    BY <1>0, <2>22 DEF OpenGate, Unlock, Goto
  <2> QED
    BY <1>2, <2>1, <2>2, <2>3, <2>4, <2>5, <2>6, <2>7, <2>8, <2>9, <2>10, <2>11,
       <2>12, <2>13, <2>14, <2>15, <2>16, <2>17, <2>18, <2>19, <2>20, <2>21, <2>22
    DEF OpStep
<1>3. ASSUME NEW e \in Epochs, WatchdogStep(e)
      PROVE  FreshInv'
  <2>1. CASE WatchCancelled(e)
    BY <1>0, <2>1 DEF WatchCancelled, Step
  <2>2. CASE WatchFatal(e)
    BY <1>0, <2>2 DEF WatchFatal, Step
  <2>3. CASE WatchdogChecks(e)
    BY <1>0, <2>3 DEF WatchdogChecks, Step
  <2>4. CASE WatchdogLocks(e)
    BY <1>0, <2>4 DEF WatchdogLocks, Step
  <2>5. CASE WatchdogNotified(e)
    BY <1>0, <2>5 DEF WatchdogNotified, Step
  <2>6. CASE WatchdogCancels(e)
    BY <1>0, <2>6 DEF WatchdogCancels, Step
  <2>7. CASE MarkFaulted(e)
    BY <1>0, <2>7 DEF MarkFaulted, Step
  <2>8. CASE ReportFault(e)
    BY <1>0, <2>8 DEF ReportFault, Step
  <2> QED
    BY <1>3, <2>1, <2>2, <2>3, <2>4, <2>5, <2>6, <2>7, <2>8
    DEF WatchdogStep
<1>4. ASSUME NEW e \in Epochs, NEW c \in Channels, ListenerStep(e, c)
      PROVE  FreshInv'
  <2>1. CASE PassGate(e, c)
    BY <1>0, <2>1 DEF PassGate
  <2>2. CASE ListenerEnds(e, c)
    BY <1>0, <2>2 DEF ListenerEnds
  <2>3. CASE ListenerFails(e, c)
    BY <1>0, <2>3 DEF ListenerFails
  <2> QED
    BY <1>4, <2>1, <2>2, <2>3
    DEF ListenerStep
<1>5. CASE UNCHANGED vars
  BY <1>0, <1>5
<1> QED
  BY <1>1, <1>2, <1>3, <1>4, <1>5 DEF Next, AllReturned

\* The stored runtime is the active one.
LEMMA RuntimeStep ==
  ASSUME SerialCalls, IInv, [Next]_vars
  PROVE  RuntimeInv'
<1> USE SupervisorAssumption
        DEF vars, lifecycle, owned, tasks, calls, RuntimeInv, Exclusive, Busy,
            TargetInv, LaunchInv, Launching, Spawned
<1>0. /\ RuntimeInv /\ Exclusive /\ TargetInv /\ LaunchInv
     /\ pc \in [Ops -> OpPcs] /\ target \in [Ops -> Option(Epochs)]
     /\ watchdog \in [Epochs -> WatchdogPcs] /\ active \in Option(Epochs)
  BY DEF IInv, TypeOK
<1>1. ASSUME NEW o \in Ops, NEW k \in Kinds, Call(o, k)
      PROVE  RuntimeInv'
  BY <1>0, <1>1 DEF Call, Goto
<1>2. ASSUME NEW o \in Ops, OpStep(o)
      PROVE  RuntimeInv'
  <2>1. CASE StopStopped(o)
    BY <1>0, <2>1 DEF StopStopped, StopReturned, Goto
  <2>2. CASE BeginStop(o)
    BY <1>0, <2>2 DEF BeginStop, Goto
  <2>3. CASE RejectStart(o)
    BY <1>0, <2>3 DEF RejectStart, Goto
  <2>4. CASE BeginStart(o)
    BY <1>0, <2>4 DEF BeginStart, Goto
  <2>5. CASE TakePending(o)
    BY <1>0, <2>5 DEF TakePending, Goto
  <2>6. CASE TakeRuntime(o)
    BY <1>0, <2>6 DEF TakeRuntime, Goto
  <2>7. CASE CheckNotified(o)
    BY <1>0, <2>7 DEF CheckNotified, Notified, Goto
  <2>8. CASE LockNotification(o)
    BY <1>0, <2>8 DEF LockNotification, Notified, Goto
  <2>9. CASE NotificationReturns(o)
    BY <1>0, <2>9 DEF NotificationReturns, Notified, Goto
  <2>10. CASE CancelRuntime(o)
    BY <1>0, <2>10 DEF CancelRuntime, Goto
  <2>11. CASE Joined(o)
    BY <1>0, <2>11 DEF Joined, TasksEnded, KeepForRetry, Goto
  <2>12. CASE JoinTimesOut(o)
    BY <1>0, <2>12 DEF JoinTimesOut, KeepForRetry, Goto
  <2>13. CASE ReleaseToken(o)
    BY <1>0, <2>13 DEF ReleaseToken, Goto
  <2>14. CASE StopSettles(o)
    BY <1>0, <2>14 DEF StopSettles, Unlock, StopReturned, Fault, Goto
  <2>15. CASE StartSettles(o)
    BY <1>0, <2>15 DEF StartSettles, Unlock, Fault, Goto
  <2>16. CASE UnwindSettles(o)
    BY <1>0, <2>16 DEF UnwindSettles, Unlock, Fault, Goto
  <2>17. CASE PrepareFails(o)
    BY <1>0, <2>17 DEF PrepareFails, Unlock, Fault, Goto
  <2>18. CASE PreparePanics(o)
    BY <1>0, <2>18 DEF PreparePanics, Goto
  <2>19. CASE SpawnTasks(o)
    BY <1>0, <2>19 DEF SpawnTasks, Goto
  <2>20. CASE StoreRuntime(o)
    BY <1>0, <2>20 DEF StoreRuntime, Goto
  <2>21. CASE PublishRunning(o)
    BY <1>0, <2>21 DEF PublishRunning, Goto
  <2>22. CASE OpenGate(o)
    BY <1>0, <2>22 DEF OpenGate, Unlock, Goto
  <2> QED
    BY <1>2, <2>1, <2>2, <2>3, <2>4, <2>5, <2>6, <2>7, <2>8, <2>9, <2>10, <2>11,
       <2>12, <2>13, <2>14, <2>15, <2>16, <2>17, <2>18, <2>19, <2>20, <2>21, <2>22
    DEF OpStep
<1>3. ASSUME NEW e \in Epochs, WatchdogStep(e)
      PROVE  RuntimeInv'
  <2>1. CASE WatchCancelled(e)
    BY <1>0, <2>1 DEF WatchCancelled, Step
  <2>2. CASE WatchFatal(e)
    BY <1>0, <2>2 DEF WatchFatal, Step
  <2>3. CASE WatchdogChecks(e)
    BY <1>0, <2>3 DEF WatchdogChecks, Step
  <2>4. CASE WatchdogLocks(e)
    BY <1>0, <2>4 DEF WatchdogLocks, Step
  <2>5. CASE WatchdogNotified(e)
    BY <1>0, <2>5 DEF WatchdogNotified, Step
  <2>6. CASE WatchdogCancels(e)
    BY <1>0, <2>6 DEF WatchdogCancels, Step
  <2>7. CASE MarkFaulted(e)
    BY <1>0, <2>7 DEF MarkFaulted, Step
  <2>8. CASE ReportFault(e)
    BY <1>0, <2>8 DEF ReportFault, Step
  <2> QED
    BY <1>3, <2>1, <2>2, <2>3, <2>4, <2>5, <2>6, <2>7, <2>8
    DEF WatchdogStep
<1>4. ASSUME NEW e \in Epochs, NEW c \in Channels, ListenerStep(e, c)
      PROVE  RuntimeInv'
  <2>1. CASE PassGate(e, c)
    BY <1>0, <2>1 DEF PassGate
  <2>2. CASE ListenerEnds(e, c)
    BY <1>0, <2>2 DEF ListenerEnds
  <2>3. CASE ListenerFails(e, c)
    BY <1>0, <2>3 DEF ListenerFails
  <2> QED
    BY <1>4, <2>1, <2>2, <2>3
    DEF ListenerStep
<1>5. CASE UNCHANGED vars
  BY <1>0, <1>5
<1> QED
  BY <1>1, <1>2, <1>3, <1>4, <1>5 DEF Next, AllReturned

\* A callback that is owed blocks the launch of the next epoch.
LEMMA PendingStep ==
  ASSUME SerialCalls, IInv, [Next]_vars
  PROVE  PendingInv'
<1> USE SupervisorAssumption
        DEF vars, lifecycle, owned, tasks, calls, PendingInv, Exclusive, Busy,
            TargetInv, RuntimeInv, Launching, Spawned
<1>0. /\ PendingInv /\ Exclusive /\ TargetInv /\ RuntimeInv
     /\ pc \in [Ops -> OpPcs] /\ target \in [Ops -> Option(Epochs)]
     /\ watchdog \in [Epochs -> WatchdogPcs] /\ ok \in [Ops -> BOOLEAN]
     /\ pending \in Option(Epochs)
  BY DEF IInv, TypeOK
<1>1. ASSUME NEW o \in Ops, NEW k \in Kinds, Call(o, k)
      PROVE  PendingInv'
  BY <1>0, <1>1 DEF Call, Goto
<1>2. ASSUME NEW o \in Ops, OpStep(o)
      PROVE  PendingInv'
  <2>1. CASE StopStopped(o)
    BY <1>0, <2>1 DEF StopStopped, StopReturned, Goto
  <2>2. CASE BeginStop(o)
    BY <1>0, <2>2 DEF BeginStop, Goto
  <2>3. CASE RejectStart(o)
    BY <1>0, <2>3 DEF RejectStart, Goto
  <2>4. CASE BeginStart(o)
    BY <1>0, <2>4 DEF BeginStart, Goto
  <2>5. CASE TakePending(o)
    BY <1>0, <2>5 DEF TakePending, Goto
  <2>6. CASE TakeRuntime(o)
    BY <1>0, <2>6 DEF TakeRuntime, Goto
  <2>7. CASE CheckNotified(o)
    BY <1>0, <2>7 DEF CheckNotified, Notified, Goto
  <2>8. CASE LockNotification(o)
    BY <1>0, <2>8 DEF LockNotification, Notified, Goto
  <2>9. CASE NotificationReturns(o)
    BY <1>0, <2>9 DEF NotificationReturns, Notified, Goto
  <2>10. CASE CancelRuntime(o)
    BY <1>0, <2>10 DEF CancelRuntime, Goto
  <2>11. CASE Joined(o)
    BY <1>0, <2>11 DEF Joined, TasksEnded, KeepForRetry, Goto
  <2>12. CASE JoinTimesOut(o)
    BY <1>0, <2>12 DEF JoinTimesOut, KeepForRetry, Goto
  <2>13. CASE ReleaseToken(o)
    BY <1>0, <2>13 DEF ReleaseToken, Goto
  <2>14. CASE StopSettles(o)
    BY <1>0, <2>14 DEF StopSettles, Unlock, StopReturned, Fault, Goto
  <2>15. CASE StartSettles(o)
    BY <1>0, <2>15 DEF StartSettles, Unlock, Fault, Goto
  <2>16. CASE UnwindSettles(o)
    BY <1>0, <2>16 DEF UnwindSettles, Unlock, Fault, Goto
  <2>17. CASE PrepareFails(o)
    BY <1>0, <2>17 DEF PrepareFails, Unlock, Fault, Goto
  <2>18. CASE PreparePanics(o)
    BY <1>0, <2>18 DEF PreparePanics, Goto
  <2>19. CASE SpawnTasks(o)
    BY <1>0, <2>19 DEF SpawnTasks, Goto
  <2>20. CASE StoreRuntime(o)
    BY <1>0, <2>20 DEF StoreRuntime, Goto
  <2>21. CASE PublishRunning(o)
    BY <1>0, <2>21 DEF PublishRunning, Goto
  <2>22. CASE OpenGate(o)
    BY <1>0, <2>22 DEF OpenGate, Unlock, Goto
  <2> QED
    BY <1>2, <2>1, <2>2, <2>3, <2>4, <2>5, <2>6, <2>7, <2>8, <2>9, <2>10, <2>11,
       <2>12, <2>13, <2>14, <2>15, <2>16, <2>17, <2>18, <2>19, <2>20, <2>21, <2>22
    DEF OpStep
<1>3. ASSUME NEW e \in Epochs, WatchdogStep(e)
      PROVE  PendingInv'
  <2>1. CASE WatchCancelled(e)
    BY <1>0, <2>1 DEF WatchCancelled, Step
  <2>2. CASE WatchFatal(e)
    BY <1>0, <2>2 DEF WatchFatal, Step
  <2>3. CASE WatchdogChecks(e)
    BY <1>0, <2>3 DEF WatchdogChecks, Step
  <2>4. CASE WatchdogLocks(e)
    BY <1>0, <2>4 DEF WatchdogLocks, Step
  <2>5. CASE WatchdogNotified(e)
    BY <1>0, <2>5 DEF WatchdogNotified, Step
  <2>6. CASE WatchdogCancels(e)
    BY <1>0, <2>6 DEF WatchdogCancels, Step
  <2>7. CASE MarkFaulted(e)
    BY <1>0, <2>7 DEF MarkFaulted, Step
  <2>8. CASE ReportFault(e)
    BY <1>0, <2>8 DEF ReportFault, Step
  <2> QED
    BY <1>3, <2>1, <2>2, <2>3, <2>4, <2>5, <2>6, <2>7, <2>8
    DEF WatchdogStep
<1>4. ASSUME NEW e \in Epochs, NEW c \in Channels, ListenerStep(e, c)
      PROVE  PendingInv'
  <2>1. CASE PassGate(e, c)
    BY <1>0, <2>1 DEF PassGate
  <2>2. CASE ListenerEnds(e, c)
    BY <1>0, <2>2 DEF ListenerEnds
  <2>3. CASE ListenerFails(e, c)
    BY <1>0, <2>3 DEF ListenerFails
  <2> QED
    BY <1>4, <2>1, <2>2, <2>3
    DEF ListenerStep
<1>5. CASE UNCHANGED vars
  BY <1>0, <1>5
<1> QED
  BY <1>1, <1>2, <1>3, <1>4, <1>5 DEF Next, AllReturned

\* No live task is without an owner.
LEMMA CustodyStep ==
  ASSUME SerialCalls, IInv, [Next]_vars
  PROVE  CustodyInv'
<1> USE SupervisorAssumption
        DEF vars, lifecycle, owned, tasks, calls, CustodyInv, Exclusive, Busy,
            TargetInv, FreshInv, Launching, Spawned, Alive, Dismantles, RuntimeInv,
            LaunchInv
<1>0. /\ CustodyInv /\ Exclusive /\ TargetInv /\ FreshInv /\ RuntimeInv /\ LaunchInv
     /\ pc \in [Ops -> OpPcs] /\ target \in [Ops -> Option(Epochs)]
     /\ watchdog \in [Epochs -> WatchdogPcs]
     /\ listener \in [Epochs -> [Channels -> ListenerPcs]]
     /\ retry \in [Ops -> BOOLEAN]
  BY DEF IInv, TypeOK
<1>1. ASSUME NEW o \in Ops, NEW k \in Kinds, Call(o, k)
      PROVE  CustodyInv'
  BY <1>0, <1>1 DEF Call, Goto
<1>2. ASSUME NEW o \in Ops, OpStep(o)
      PROVE  CustodyInv'
  <2>1. CASE StopStopped(o)
    BY <1>0, <2>1 DEF StopStopped, StopReturned, Goto
  <2>2. CASE BeginStop(o)
    BY <1>0, <2>2 DEF BeginStop, Goto
  <2>3. CASE RejectStart(o)
    BY <1>0, <2>3 DEF RejectStart, Goto
  <2>4. CASE BeginStart(o)
    BY <1>0, <2>4 DEF BeginStart, Goto
  <2>5. CASE TakePending(o)
    BY <1>0, <2>5 DEF TakePending, Goto
  <2>6. CASE TakeRuntime(o)
    <3>1. CASE runtime = None
      BY <1>0, <2>6, <3>1 DEF TakeRuntime, Goto
    <3>2. CASE runtime # None
      <4>1. target'[o] = runtime /\ pc'[o] = "check" /\ ~retry'[o] /\ \A p \in Ops \ {o} : pc'[p] = pc[p] /\ target'[p] = target[p] /\ retry'[p] = retry[p]
        BY <1>0, <2>6, <3>2 DEF TakeRuntime, Goto
      <4>2. \A p \in Ops \ {o}, f \in Epochs : Dismantles(p, f) => Dismantles(p, f)'
        BY <4>1
      <4> QED
        BY <1>0, <2>6, <3>2, <4>1, <4>2 DEF TakeRuntime
    <3> QED
      BY <3>1, <3>2
  <2>7. CASE CheckNotified(o)
    BY <1>0, <2>7 DEF CheckNotified, Notified, Goto
  <2>8. CASE LockNotification(o)
    BY <1>0, <2>8 DEF LockNotification, Notified, Goto
  <2>9. CASE NotificationReturns(o)
    BY <1>0, <2>9 DEF NotificationReturns, Notified, Goto
  <2>10. CASE CancelRuntime(o)
    BY <1>0, <2>10 DEF CancelRuntime, Goto
  <2>11. CASE Joined(o)
    BY <1>0, <2>11 DEF Joined, TasksEnded, KeepForRetry, Goto
  <2>12. CASE JoinTimesOut(o)
    BY <1>0, <2>12 DEF JoinTimesOut, KeepForRetry, Goto
  <2>13. CASE ReleaseToken(o)
    BY <1>0, <2>13 DEF ReleaseToken, Goto
  <2>14. CASE StopSettles(o)
    BY <1>0, <2>14 DEF StopSettles, Unlock, StopReturned, Fault, Goto
  <2>15. CASE StartSettles(o)
    BY <1>0, <2>15 DEF StartSettles, Unlock, Fault, Goto
  <2>16. CASE UnwindSettles(o)
    BY <1>0, <2>16 DEF UnwindSettles, Unlock, Fault, Goto
  <2>17. CASE PrepareFails(o)
    BY <1>0, <2>17 DEF PrepareFails, Unlock, Fault, Goto
  <2>18. CASE PreparePanics(o)
    BY <1>0, <2>18 DEF PreparePanics, Goto
  <2>19. CASE SpawnTasks(o)
    BY <1>0, <2>19 DEF SpawnTasks, Goto
  <2>20. CASE StoreRuntime(o)
    BY <1>0, <2>20 DEF StoreRuntime, Goto
  <2>21. CASE PublishRunning(o)
    BY <1>0, <2>21 DEF PublishRunning, Goto
  <2>22. CASE OpenGate(o)
    BY <1>0, <2>22 DEF OpenGate, Unlock, Goto
  <2> QED
    BY <1>2, <2>1, <2>2, <2>3, <2>4, <2>5, <2>6, <2>7, <2>8, <2>9, <2>10, <2>11,
       <2>12, <2>13, <2>14, <2>15, <2>16, <2>17, <2>18, <2>19, <2>20, <2>21, <2>22
    DEF OpStep
<1>3. ASSUME NEW e \in Epochs, WatchdogStep(e)
      PROVE  CustodyInv'
  <2>1. CASE WatchCancelled(e)
    BY <1>0, <2>1 DEF WatchCancelled, Step
  <2>2. CASE WatchFatal(e)
    BY <1>0, <2>2 DEF WatchFatal, Step
  <2>3. CASE WatchdogChecks(e)
    BY <1>0, <2>3 DEF WatchdogChecks, Step
  <2>4. CASE WatchdogLocks(e)
    BY <1>0, <2>4 DEF WatchdogLocks, Step
  <2>5. CASE WatchdogNotified(e)
    BY <1>0, <2>5 DEF WatchdogNotified, Step
  <2>6. CASE WatchdogCancels(e)
    BY <1>0, <2>6 DEF WatchdogCancels, Step
  <2>7. CASE MarkFaulted(e)
    BY <1>0, <2>7 DEF MarkFaulted, Step
  <2>8. CASE ReportFault(e)
    BY <1>0, <2>8 DEF ReportFault, Step
  <2> QED
    BY <1>3, <2>1, <2>2, <2>3, <2>4, <2>5, <2>6, <2>7, <2>8
    DEF WatchdogStep
<1>4. ASSUME NEW e \in Epochs, NEW c \in Channels, ListenerStep(e, c)
      PROVE  CustodyInv'
  <2>1. CASE PassGate(e, c)
    BY <1>0, <2>1 DEF PassGate
  <2>2. CASE ListenerEnds(e, c)
    BY <1>0, <2>2 DEF ListenerEnds
  <2>3. CASE ListenerFails(e, c)
    BY <1>0, <2>3 DEF ListenerFails
  <2> QED
    BY <1>4, <2>1, <2>2, <2>3
    DEF ListenerStep
<1>5. CASE UNCHANGED vars
  BY <1>0, <1>5
<1> QED
  BY <1>1, <1>2, <1>3, <1>4, <1>5 DEF Next, AllReturned

\* An epoch that may accept is the published one.
LEMMA OpenStep ==
  ASSUME SerialCalls, IInv, [Next]_vars
  PROVE  OpenInv'
<1> USE SupervisorAssumption
        DEF vars, lifecycle, owned, tasks, calls, OpenInv, Exclusive, Busy,
            TargetInv, FreshInv, Launching, Spawned, Dismantles, RuntimeInv,
            LaunchInv, PhaseInv, CustodyInv, EpochInv
<1>0. /\ OpenInv /\ Exclusive /\ TargetInv /\ FreshInv /\ RuntimeInv /\ LaunchInv
     /\ PhaseInv /\ EpochInv
     /\ pc \in [Ops -> OpPcs] /\ target \in [Ops -> Option(Epochs)]
     /\ gate \in [Epochs -> BOOLEAN] /\ cancelled \in [Epochs -> BOOLEAN]
     /\ watchdog \in [Epochs -> WatchdogPcs] /\ retry \in [Ops -> BOOLEAN]
     /\ phase \in [Ops -> {"start", "stop", "unwind"}]
  BY DEF IInv, TypeOK
<1>1. ASSUME NEW o \in Ops, NEW k \in Kinds, Call(o, k)
      PROVE  OpenInv'
  BY <1>0, <1>1 DEF Call, Goto
<1>2. ASSUME NEW o \in Ops, OpStep(o)
      PROVE  OpenInv'
  <2>1. CASE StopStopped(o)
    BY <1>0, <2>1 DEF StopStopped, StopReturned, Goto
  <2>2. CASE BeginStop(o)
    BY <1>0, <2>2 DEF BeginStop, Goto
  <2>3. CASE RejectStart(o)
    BY <1>0, <2>3 DEF RejectStart, Goto
  <2>4. CASE BeginStart(o)
    BY <1>0, <2>4 DEF BeginStart, Goto
  <2>5. CASE TakePending(o)
    BY <1>0, <2>5 DEF TakePending, Goto
  <2>6. CASE TakeRuntime(o)
    BY <1>0, <2>6 DEF TakeRuntime, Goto
  <2>7. CASE CheckNotified(o)
    BY <1>0, <2>7 DEF CheckNotified, Notified, Goto
  <2>8. CASE LockNotification(o)
    BY <1>0, <2>8 DEF LockNotification, Notified, Goto
  <2>9. CASE NotificationReturns(o)
    BY <1>0, <2>9 DEF NotificationReturns, Notified, Goto
  <2>10. CASE CancelRuntime(o)
    BY <1>0, <2>10 DEF CancelRuntime, Goto
  <2>11. CASE Joined(o)
    BY <1>0, <2>11 DEF Joined, TasksEnded, KeepForRetry, Goto
  <2>12. CASE JoinTimesOut(o)
    BY <1>0, <2>12 DEF JoinTimesOut, KeepForRetry, Goto
  <2>13. CASE ReleaseToken(o)
    BY <1>0, <2>13 DEF ReleaseToken, Goto
  <2>14. CASE StopSettles(o)
    BY <1>0, <2>14 DEF StopSettles, Unlock, StopReturned, Fault, Goto
  <2>15. CASE StartSettles(o)
    BY <1>0, <2>15 DEF StartSettles, Unlock, Fault, Goto
  <2>16. CASE UnwindSettles(o)
    BY <1>0, <2>16 DEF UnwindSettles, Unlock, Fault, Goto
  <2>17. CASE PrepareFails(o)
    BY <1>0, <2>17 DEF PrepareFails, Unlock, Fault, Goto
  <2>18. CASE PreparePanics(o)
    BY <1>0, <2>18 DEF PreparePanics, Goto
  <2>19. CASE SpawnTasks(o)
    BY <1>0, <2>19 DEF SpawnTasks, Goto
  <2>20. CASE StoreRuntime(o)
    BY <1>0, <2>20 DEF StoreRuntime, Goto
  <2>21. CASE PublishRunning(o)
    BY <1>0, <2>21 DEF PublishRunning, Goto
  <2>22. CASE OpenGate(o)
    BY <1>0, <2>22 DEF OpenGate, Unlock, Goto
  <2> QED
    BY <1>2, <2>1, <2>2, <2>3, <2>4, <2>5, <2>6, <2>7, <2>8, <2>9, <2>10, <2>11,
       <2>12, <2>13, <2>14, <2>15, <2>16, <2>17, <2>18, <2>19, <2>20, <2>21, <2>22
    DEF OpStep
<1>3. ASSUME NEW e \in Epochs, WatchdogStep(e)
      PROVE  OpenInv'
  <2>1. CASE WatchCancelled(e)
    BY <1>0, <2>1 DEF WatchCancelled, Step
  <2>2. CASE WatchFatal(e)
    BY <1>0, <2>2 DEF WatchFatal, Step
  <2>3. CASE WatchdogChecks(e)
    BY <1>0, <2>3 DEF WatchdogChecks, Step
  <2>4. CASE WatchdogLocks(e)
    BY <1>0, <2>4 DEF WatchdogLocks, Step
  <2>5. CASE WatchdogNotified(e)
    BY <1>0, <2>5 DEF WatchdogNotified, Step
  <2>6. CASE WatchdogCancels(e)
    BY <1>0, <2>6 DEF WatchdogCancels, Step
  <2>7. CASE MarkFaulted(e)
    BY <1>0, <2>7 DEF MarkFaulted, Step
  <2>8. CASE ReportFault(e)
    BY <1>0, <2>8 DEF ReportFault, Step
  <2> QED
    BY <1>3, <2>1, <2>2, <2>3, <2>4, <2>5, <2>6, <2>7, <2>8
    DEF WatchdogStep
<1>4. ASSUME NEW e \in Epochs, NEW c \in Channels, ListenerStep(e, c)
      PROVE  OpenInv'
  <2>1. CASE PassGate(e, c)
    BY <1>0, <2>1 DEF PassGate
  <2>2. CASE ListenerEnds(e, c)
    BY <1>0, <2>2 DEF ListenerEnds
  <2>3. CASE ListenerFails(e, c)
    BY <1>0, <2>3 DEF ListenerFails
  <2> QED
    BY <1>4, <2>1, <2>2, <2>3
    DEF ListenerStep
<1>5. CASE UNCHANGED vars
  BY <1>0, <1>5
<1> QED
  BY <1>1, <1>2, <1>3, <1>4, <1>5 DEF Next, AllReturned

\* Running is withdrawn before its runtime is.
LEMMA RunningStep ==
  ASSUME SerialCalls, IInv, [Next]_vars
  PROVE  RunningInv'
<1> USE SupervisorAssumption
        DEF vars, lifecycle, owned, tasks, calls, RunningInv, Exclusive, Busy,
            TargetInv, FreshInv, Launching, Spawned, LaunchInv, PhaseInv, EpochInv,
            LockInv, Outstanding
<1>0. /\ RunningInv /\ Exclusive /\ TargetInv /\ FreshInv /\ LaunchInv /\ PhaseInv
     /\ EpochInv /\ LockInv
     /\ pc \in [Ops -> OpPcs] /\ target \in [Ops -> Option(Epochs)]
     /\ cancelled \in [Epochs -> BOOLEAN] /\ watchdog \in [Epochs -> WatchdogPcs]
     /\ phase \in [Ops -> {"start", "stop", "unwind"}]
     /\ gate \in [Epochs -> BOOLEAN]
  BY DEF IInv, TypeOK
<1>1. ASSUME NEW o \in Ops, NEW k \in Kinds, Call(o, k)
      PROVE  RunningInv'
  BY <1>0, <1>1 DEF Call, Goto
<1>2. ASSUME NEW o \in Ops, OpStep(o)
      PROVE  RunningInv'
  <2>1. CASE StopStopped(o)
    BY <1>0, <2>1 DEF StopStopped, StopReturned, Goto
  <2>2. CASE BeginStop(o)
    BY <1>0, <2>2 DEF BeginStop, Goto
  <2>3. CASE RejectStart(o)
    BY <1>0, <2>3 DEF RejectStart, Goto
  <2>4. CASE BeginStart(o)
    BY <1>0, <2>4 DEF BeginStart, Goto
  <2>5. CASE TakePending(o)
    BY <1>0, <2>5 DEF TakePending, Goto
  <2>6. CASE TakeRuntime(o)
    BY <1>0, <2>6 DEF TakeRuntime, Goto
  <2>7. CASE CheckNotified(o)
    BY <1>0, <2>7 DEF CheckNotified, Notified, Goto
  <2>8. CASE LockNotification(o)
    BY <1>0, <2>8 DEF LockNotification, Notified, Goto
  <2>9. CASE NotificationReturns(o)
    BY <1>0, <2>9 DEF NotificationReturns, Notified, Goto
  <2>10. CASE CancelRuntime(o)
    BY <1>0, <2>10 DEF CancelRuntime, Goto
  <2>11. CASE Joined(o)
    BY <1>0, <2>11 DEF Joined, TasksEnded, KeepForRetry, Goto
  <2>12. CASE JoinTimesOut(o)
    BY <1>0, <2>12 DEF JoinTimesOut, KeepForRetry, Goto
  <2>13. CASE ReleaseToken(o)
    BY <1>0, <2>13 DEF ReleaseToken, Goto
  <2>14. CASE StopSettles(o)
    BY <1>0, <2>14 DEF StopSettles, Unlock, StopReturned, Fault, Goto
  <2>15. CASE StartSettles(o)
    BY <1>0, <2>15 DEF StartSettles, Unlock, Fault, Goto
  <2>16. CASE UnwindSettles(o)
    BY <1>0, <2>16 DEF UnwindSettles, Unlock, Fault, Goto
  <2>17. CASE PrepareFails(o)
    BY <1>0, <2>17 DEF PrepareFails, Unlock, Fault, Goto
  <2>18. CASE PreparePanics(o)
    BY <1>0, <2>18 DEF PreparePanics, Goto
  <2>19. CASE SpawnTasks(o)
    BY <1>0, <2>19 DEF SpawnTasks, Goto
  <2>20. CASE StoreRuntime(o)
    BY <1>0, <2>20 DEF StoreRuntime, Goto
  <2>21. CASE PublishRunning(o)
    BY <1>0, <2>21 DEF PublishRunning, Goto
  <2>22. CASE OpenGate(o)
    BY <1>0, <2>22 DEF OpenGate, Unlock, Goto
  <2> QED
    BY <1>2, <2>1, <2>2, <2>3, <2>4, <2>5, <2>6, <2>7, <2>8, <2>9, <2>10, <2>11,
       <2>12, <2>13, <2>14, <2>15, <2>16, <2>17, <2>18, <2>19, <2>20, <2>21, <2>22
    DEF OpStep
<1>3. ASSUME NEW e \in Epochs, WatchdogStep(e)
      PROVE  RunningInv'
  <2>1. CASE WatchCancelled(e)
    BY <1>0, <2>1 DEF WatchCancelled, Step
  <2>2. CASE WatchFatal(e)
    BY <1>0, <2>2 DEF WatchFatal, Step
  <2>3. CASE WatchdogChecks(e)
    BY <1>0, <2>3 DEF WatchdogChecks, Step
  <2>4. CASE WatchdogLocks(e)
    BY <1>0, <2>4 DEF WatchdogLocks, Step
  <2>5. CASE WatchdogNotified(e)
    BY <1>0, <2>5 DEF WatchdogNotified, Step
  <2>6. CASE WatchdogCancels(e)
    BY <1>0, <2>6 DEF WatchdogCancels, Step
  <2>7. CASE MarkFaulted(e)
    BY <1>0, <2>7 DEF MarkFaulted, Step
  <2>8. CASE ReportFault(e)
    BY <1>0, <2>8 DEF ReportFault, Step
  <2> QED
    BY <1>3, <2>1, <2>2, <2>3, <2>4, <2>5, <2>6, <2>7, <2>8
    DEF WatchdogStep
<1>4. ASSUME NEW e \in Epochs, NEW c \in Channels, ListenerStep(e, c)
      PROVE  RunningInv'
  <2>1. CASE PassGate(e, c)
    BY <1>0, <2>1 DEF PassGate
  <2>2. CASE ListenerEnds(e, c)
    BY <1>0, <2>2 DEF ListenerEnds
  <2>3. CASE ListenerFails(e, c)
    BY <1>0, <2>3 DEF ListenerFails
  <2> QED
    BY <1>4, <2>1, <2>2, <2>3
    DEF ListenerStep
<1>5. CASE UNCHANGED vars
  BY <1>0, <1>5
<1> QED
  BY <1>1, <1>2, <1>3, <1>4, <1>5 DEF Next, AllReturned

\* Nothing is taken apart behind a stopped or failed proxy.
LEMMA IdleStep ==
  ASSUME SerialCalls, IInv, [Next]_vars
  PROVE  IdleInv'
<1> USE SupervisorAssumption
        DEF vars, lifecycle, owned, tasks, calls, IdleInv, Exclusive, Busy,
            TargetInv, Launching, RuntimeInv, PhaseInv, LockInv, Outstanding
<1>0. /\ IdleInv /\ Exclusive /\ TargetInv /\ RuntimeInv /\ PhaseInv /\ LockInv
     /\ pc \in [Ops -> OpPcs] /\ target \in [Ops -> Option(Epochs)]
     /\ retry \in [Ops -> BOOLEAN] /\ phase \in [Ops -> {"start", "stop", "unwind"}]
  BY DEF IInv, TypeOK
<1>1. ASSUME NEW o \in Ops, NEW k \in Kinds, Call(o, k)
      PROVE  IdleInv'
  BY <1>0, <1>1 DEF Call, Goto
<1>2. ASSUME NEW o \in Ops, OpStep(o)
      PROVE  IdleInv'
  <2>1. CASE StopStopped(o)
    BY <1>0, <2>1 DEF StopStopped, StopReturned, Goto
  <2>2. CASE BeginStop(o)
    BY <1>0, <2>2 DEF BeginStop, Goto
  <2>3. CASE RejectStart(o)
    BY <1>0, <2>3 DEF RejectStart, Goto
  <2>4. CASE BeginStart(o)
    BY <1>0, <2>4 DEF BeginStart, Goto
  <2>5. CASE TakePending(o)
    BY <1>0, <2>5 DEF TakePending, Goto
  <2>6. CASE TakeRuntime(o)
    BY <1>0, <2>6 DEF TakeRuntime, Goto
  <2>7. CASE CheckNotified(o)
    BY <1>0, <2>7 DEF CheckNotified, Notified, Goto
  <2>8. CASE LockNotification(o)
    BY <1>0, <2>8 DEF LockNotification, Notified, Goto
  <2>9. CASE NotificationReturns(o)
    BY <1>0, <2>9 DEF NotificationReturns, Notified, Goto
  <2>10. CASE CancelRuntime(o)
    BY <1>0, <2>10 DEF CancelRuntime, Goto
  <2>11. CASE Joined(o)
    BY <1>0, <2>11 DEF Joined, TasksEnded, KeepForRetry, Goto
  <2>12. CASE JoinTimesOut(o)
    BY <1>0, <2>12 DEF JoinTimesOut, KeepForRetry, Goto
  <2>13. CASE ReleaseToken(o)
    BY <1>0, <2>13 DEF ReleaseToken, Goto
  <2>14. CASE StopSettles(o)
    BY <1>0, <2>14 DEF StopSettles, Unlock, StopReturned, Fault, Goto
  <2>15. CASE StartSettles(o)
    BY <1>0, <2>15 DEF StartSettles, Unlock, Fault, Goto
  <2>16. CASE UnwindSettles(o)
    BY <1>0, <2>16 DEF UnwindSettles, Unlock, Fault, Goto
  <2>17. CASE PrepareFails(o)
    BY <1>0, <2>17 DEF PrepareFails, Unlock, Fault, Goto
  <2>18. CASE PreparePanics(o)
    BY <1>0, <2>18 DEF PreparePanics, Goto
  <2>19. CASE SpawnTasks(o)
    BY <1>0, <2>19 DEF SpawnTasks, Goto
  <2>20. CASE StoreRuntime(o)
    BY <1>0, <2>20 DEF StoreRuntime, Goto
  <2>21. CASE PublishRunning(o)
    BY <1>0, <2>21 DEF PublishRunning, Goto
  <2>22. CASE OpenGate(o)
    BY <1>0, <2>22 DEF OpenGate, Unlock, Goto
  <2> QED
    BY <1>2, <2>1, <2>2, <2>3, <2>4, <2>5, <2>6, <2>7, <2>8, <2>9, <2>10, <2>11,
       <2>12, <2>13, <2>14, <2>15, <2>16, <2>17, <2>18, <2>19, <2>20, <2>21, <2>22
    DEF OpStep
<1>3. ASSUME NEW e \in Epochs, WatchdogStep(e)
      PROVE  IdleInv'
  <2>1. CASE WatchCancelled(e)
    BY <1>0, <2>1 DEF WatchCancelled, Step
  <2>2. CASE WatchFatal(e)
    BY <1>0, <2>2 DEF WatchFatal, Step
  <2>3. CASE WatchdogChecks(e)
    BY <1>0, <2>3 DEF WatchdogChecks, Step
  <2>4. CASE WatchdogLocks(e)
    BY <1>0, <2>4 DEF WatchdogLocks, Step
  <2>5. CASE WatchdogNotified(e)
    BY <1>0, <2>5 DEF WatchdogNotified, Step
  <2>6. CASE WatchdogCancels(e)
    BY <1>0, <2>6 DEF WatchdogCancels, Step
  <2>7. CASE MarkFaulted(e)
    BY <1>0, <2>7 DEF MarkFaulted, Step
  <2>8. CASE ReportFault(e)
    BY <1>0, <2>8 DEF ReportFault, Step
  <2> QED
    BY <1>3, <2>1, <2>2, <2>3, <2>4, <2>5, <2>6, <2>7, <2>8
    DEF WatchdogStep
<1>4. ASSUME NEW e \in Epochs, NEW c \in Channels, ListenerStep(e, c)
      PROVE  IdleInv'
  <2>1. CASE PassGate(e, c)
    BY <1>0, <2>1 DEF PassGate
  <2>2. CASE ListenerEnds(e, c)
    BY <1>0, <2>2 DEF ListenerEnds
  <2>3. CASE ListenerFails(e, c)
    BY <1>0, <2>3 DEF ListenerFails
  <2> QED
    BY <1>4, <2>1, <2>2, <2>3
    DEF ListenerStep
<1>5. CASE UNCHANGED vars
  BY <1>0, <1>5
<1> QED
  BY <1>1, <1>2, <1>3, <1>4, <1>5 DEF Next, AllReturned

\* A stopped proxy owes nothing.
LEMMA StoppedStep ==
  ASSUME SerialCalls, IInv, [Next]_vars
  PROVE  StoppedInv'
<1> USE SupervisorAssumption
        DEF vars, lifecycle, owned, tasks, calls, StoppedInv, Exclusive, Busy,
            IdleInv, PendingInv, PhaseInv
<1>0. /\ StoppedInv /\ Exclusive /\ IdleInv /\ PendingInv /\ PhaseInv
     /\ pc \in [Ops -> OpPcs] /\ target \in [Ops -> Option(Epochs)]
     /\ retry \in [Ops -> BOOLEAN] /\ ok \in [Ops -> BOOLEAN]
     /\ phase \in [Ops -> {"start", "stop", "unwind"}]
  BY DEF IInv, TypeOK
<1>1. ASSUME NEW o \in Ops, NEW k \in Kinds, Call(o, k)
      PROVE  StoppedInv'
  BY <1>0, <1>1 DEF Call, Goto
<1>2. ASSUME NEW o \in Ops, OpStep(o)
      PROVE  StoppedInv'
  <2>1. CASE StopStopped(o)
    BY <1>0, <2>1 DEF StopStopped, StopReturned, Goto
  <2>2. CASE BeginStop(o)
    BY <1>0, <2>2 DEF BeginStop, Goto
  <2>3. CASE RejectStart(o)
    BY <1>0, <2>3 DEF RejectStart, Goto
  <2>4. CASE BeginStart(o)
    BY <1>0, <2>4 DEF BeginStart, Goto
  <2>5. CASE TakePending(o)
    BY <1>0, <2>5 DEF TakePending, Goto
  <2>6. CASE TakeRuntime(o)
    BY <1>0, <2>6 DEF TakeRuntime, Goto
  <2>7. CASE CheckNotified(o)
    BY <1>0, <2>7 DEF CheckNotified, Notified, Goto
  <2>8. CASE LockNotification(o)
    BY <1>0, <2>8 DEF LockNotification, Notified, Goto
  <2>9. CASE NotificationReturns(o)
    BY <1>0, <2>9 DEF NotificationReturns, Notified, Goto
  <2>10. CASE CancelRuntime(o)
    BY <1>0, <2>10 DEF CancelRuntime, Goto
  <2>11. CASE Joined(o)
    BY <1>0, <2>11 DEF Joined, TasksEnded, KeepForRetry, Goto
  <2>12. CASE JoinTimesOut(o)
    BY <1>0, <2>12 DEF JoinTimesOut, KeepForRetry, Goto
  <2>13. CASE ReleaseToken(o)
    BY <1>0, <2>13 DEF ReleaseToken, Goto
  <2>14. CASE StopSettles(o)
    BY <1>0, <2>14 DEF StopSettles, Unlock, StopReturned, Fault, Goto
  <2>15. CASE StartSettles(o)
    BY <1>0, <2>15 DEF StartSettles, Unlock, Fault, Goto
  <2>16. CASE UnwindSettles(o)
    BY <1>0, <2>16 DEF UnwindSettles, Unlock, Fault, Goto
  <2>17. CASE PrepareFails(o)
    BY <1>0, <2>17 DEF PrepareFails, Unlock, Fault, Goto
  <2>18. CASE PreparePanics(o)
    BY <1>0, <2>18 DEF PreparePanics, Goto
  <2>19. CASE SpawnTasks(o)
    BY <1>0, <2>19 DEF SpawnTasks, Goto
  <2>20. CASE StoreRuntime(o)
    BY <1>0, <2>20 DEF StoreRuntime, Goto
  <2>21. CASE PublishRunning(o)
    BY <1>0, <2>21 DEF PublishRunning, Goto
  <2>22. CASE OpenGate(o)
    BY <1>0, <2>22 DEF OpenGate, Unlock, Goto
  <2> QED
    BY <1>2, <2>1, <2>2, <2>3, <2>4, <2>5, <2>6, <2>7, <2>8, <2>9, <2>10, <2>11,
       <2>12, <2>13, <2>14, <2>15, <2>16, <2>17, <2>18, <2>19, <2>20, <2>21, <2>22
    DEF OpStep
<1>3. ASSUME NEW e \in Epochs, WatchdogStep(e)
      PROVE  StoppedInv'
  <2>1. CASE WatchCancelled(e)
    BY <1>0, <2>1 DEF WatchCancelled, Step
  <2>2. CASE WatchFatal(e)
    BY <1>0, <2>2 DEF WatchFatal, Step
  <2>3. CASE WatchdogChecks(e)
    BY <1>0, <2>3 DEF WatchdogChecks, Step
  <2>4. CASE WatchdogLocks(e)
    BY <1>0, <2>4 DEF WatchdogLocks, Step
  <2>5. CASE WatchdogNotified(e)
    BY <1>0, <2>5 DEF WatchdogNotified, Step
  <2>6. CASE WatchdogCancels(e)
    BY <1>0, <2>6 DEF WatchdogCancels, Step
  <2>7. CASE MarkFaulted(e)
    BY <1>0, <2>7 DEF MarkFaulted, Step
  <2>8. CASE ReportFault(e)
    BY <1>0, <2>8 DEF ReportFault, Step
  <2> QED
    BY <1>3, <2>1, <2>2, <2>3, <2>4, <2>5, <2>6, <2>7, <2>8
    DEF WatchdogStep
<1>4. ASSUME NEW e \in Epochs, NEW c \in Channels, ListenerStep(e, c)
      PROVE  StoppedInv'
  <2>1. CASE PassGate(e, c)
    BY <1>0, <2>1 DEF PassGate
  <2>2. CASE ListenerEnds(e, c)
    BY <1>0, <2>2 DEF ListenerEnds
  <2>3. CASE ListenerFails(e, c)
    BY <1>0, <2>3 DEF ListenerFails
  <2> QED
    BY <1>4, <2>1, <2>2, <2>3
    DEF ListenerStep
<1>5. CASE UNCHANGED vars
  BY <1>0, <1>5
<1> QED
  BY <1>1, <1>2, <1>3, <1>4, <1>5 DEF Next, AllReturned

\* The visible epoch is open or about to open.
LEMMA EpochStep ==
  ASSUME SerialCalls, IInv, [Next]_vars
  PROVE  EpochInv'
<1> USE SupervisorAssumption
        DEF vars, lifecycle, owned, tasks, calls, EpochInv, Exclusive, Busy,
            TargetInv, Launching, Spawned, PhaseInv, LaunchInv
<1>0. /\ EpochInv /\ Exclusive /\ TargetInv /\ PhaseInv /\ LaunchInv
     /\ pc \in [Ops -> OpPcs] /\ target \in [Ops -> Option(Epochs)]
     /\ gate \in [Epochs -> BOOLEAN] /\ watchdog \in [Epochs -> WatchdogPcs]
     /\ phase \in [Ops -> {"start", "stop", "unwind"}]
  BY DEF IInv, TypeOK
<1>1. ASSUME NEW o \in Ops, NEW k \in Kinds, Call(o, k)
      PROVE  EpochInv'
  BY <1>0, <1>1 DEF Call, Goto
<1>2. ASSUME NEW o \in Ops, OpStep(o)
      PROVE  EpochInv'
  <2>1. CASE StopStopped(o)
    BY <1>0, <2>1 DEF StopStopped, StopReturned, Goto
  <2>2. CASE BeginStop(o)
    BY <1>0, <2>2 DEF BeginStop, Goto
  <2>3. CASE RejectStart(o)
    BY <1>0, <2>3 DEF RejectStart, Goto
  <2>4. CASE BeginStart(o)
    BY <1>0, <2>4 DEF BeginStart, Goto
  <2>5. CASE TakePending(o)
    BY <1>0, <2>5 DEF TakePending, Goto
  <2>6. CASE TakeRuntime(o)
    BY <1>0, <2>6 DEF TakeRuntime, Goto
  <2>7. CASE CheckNotified(o)
    BY <1>0, <2>7 DEF CheckNotified, Notified, Goto
  <2>8. CASE LockNotification(o)
    BY <1>0, <2>8 DEF LockNotification, Notified, Goto
  <2>9. CASE NotificationReturns(o)
    BY <1>0, <2>9 DEF NotificationReturns, Notified, Goto
  <2>10. CASE CancelRuntime(o)
    BY <1>0, <2>10 DEF CancelRuntime, Goto
  <2>11. CASE Joined(o)
    BY <1>0, <2>11 DEF Joined, TasksEnded, KeepForRetry, Goto
  <2>12. CASE JoinTimesOut(o)
    BY <1>0, <2>12 DEF JoinTimesOut, KeepForRetry, Goto
  <2>13. CASE ReleaseToken(o)
    BY <1>0, <2>13 DEF ReleaseToken, Goto
  <2>14. CASE StopSettles(o)
    BY <1>0, <2>14 DEF StopSettles, Unlock, StopReturned, Fault, Goto
  <2>15. CASE StartSettles(o)
    BY <1>0, <2>15 DEF StartSettles, Unlock, Fault, Goto
  <2>16. CASE UnwindSettles(o)
    BY <1>0, <2>16 DEF UnwindSettles, Unlock, Fault, Goto
  <2>17. CASE PrepareFails(o)
    BY <1>0, <2>17 DEF PrepareFails, Unlock, Fault, Goto
  <2>18. CASE PreparePanics(o)
    BY <1>0, <2>18 DEF PreparePanics, Goto
  <2>19. CASE SpawnTasks(o)
    BY <1>0, <2>19 DEF SpawnTasks, Goto
  <2>20. CASE StoreRuntime(o)
    BY <1>0, <2>20 DEF StoreRuntime, Goto
  <2>21. CASE PublishRunning(o)
    BY <1>0, <2>21 DEF PublishRunning, Goto
  <2>22. CASE OpenGate(o)
    BY <1>0, <2>22 DEF OpenGate, Unlock, Goto
  <2> QED
    BY <1>2, <2>1, <2>2, <2>3, <2>4, <2>5, <2>6, <2>7, <2>8, <2>9, <2>10, <2>11,
       <2>12, <2>13, <2>14, <2>15, <2>16, <2>17, <2>18, <2>19, <2>20, <2>21, <2>22
    DEF OpStep
<1>3. ASSUME NEW e \in Epochs, WatchdogStep(e)
      PROVE  EpochInv'
  <2>1. CASE WatchCancelled(e)
    BY <1>0, <2>1 DEF WatchCancelled, Step
  <2>2. CASE WatchFatal(e)
    BY <1>0, <2>2 DEF WatchFatal, Step
  <2>3. CASE WatchdogChecks(e)
    BY <1>0, <2>3 DEF WatchdogChecks, Step
  <2>4. CASE WatchdogLocks(e)
    BY <1>0, <2>4 DEF WatchdogLocks, Step
  <2>5. CASE WatchdogNotified(e)
    BY <1>0, <2>5 DEF WatchdogNotified, Step
  <2>6. CASE WatchdogCancels(e)
    BY <1>0, <2>6 DEF WatchdogCancels, Step
  <2>7. CASE MarkFaulted(e)
    BY <1>0, <2>7 DEF MarkFaulted, Step
  <2>8. CASE ReportFault(e)
    BY <1>0, <2>8 DEF ReportFault, Step
  <2> QED
    BY <1>3, <2>1, <2>2, <2>3, <2>4, <2>5, <2>6, <2>7, <2>8
    DEF WatchdogStep
<1>4. ASSUME NEW e \in Epochs, NEW c \in Channels, ListenerStep(e, c)
      PROVE  EpochInv'
  <2>1. CASE PassGate(e, c)
    BY <1>0, <2>1 DEF PassGate
  <2>2. CASE ListenerEnds(e, c)
    BY <1>0, <2>2 DEF ListenerEnds
  <2>3. CASE ListenerFails(e, c)
    BY <1>0, <2>3 DEF ListenerFails
  <2> QED
    BY <1>4, <2>1, <2>2, <2>3
    DEF ListenerStep
<1>5. CASE UNCHANGED vars
  BY <1>0, <1>5
<1> QED
  BY <1>1, <1>2, <1>3, <1>4, <1>5 DEF Next, AllReturned

\* The published state agrees with the call that is busy.
LEMMA PhaseStep ==
  ASSUME SerialCalls, IInv, [Next]_vars
  PROVE  PhaseInv'
<1> USE SupervisorAssumption
        DEF vars, lifecycle, owned, tasks, calls, SerialCalls, PhaseInv, Exclusive,
            Busy, TargetInv, Launching, Spawned, LaunchInv, LockInv, Outstanding,
            EpochInv, FreshInv
<1>0. /\ PhaseInv /\ Exclusive /\ TargetInv /\ LaunchInv /\ LockInv /\ EpochInv
     /\ FreshInv /\ SerialCalls
     /\ state \in {"Stopped", "Starting", "Running", "Stopping", "Faulted"}
     /\ pc \in [Ops -> OpPcs] /\ target \in [Ops -> Option(Epochs)]
     /\ gate \in [Epochs -> BOOLEAN] /\ watchdog \in [Epochs -> WatchdogPcs]
     /\ phase \in [Ops -> {"start", "stop", "unwind"}]
  BY DEF IInv, TypeOK
<1>1. ASSUME NEW o \in Ops, NEW k \in Kinds, Call(o, k)
      PROVE  PhaseInv'
  BY <1>0, <1>1 DEF Call, Goto
<1>2. ASSUME NEW o \in Ops, OpStep(o)
      PROVE  PhaseInv'
  <2>1. CASE StopStopped(o)
    BY <1>0, <2>1 DEF StopStopped, StopReturned, Goto
  <2>2. CASE BeginStop(o)
    BY <1>0, <2>2 DEF BeginStop, Goto
  <2>3. CASE RejectStart(o)
    BY <1>0, <2>3 DEF RejectStart, Goto
  <2>4. CASE BeginStart(o)
    <3>1. \A p \in Ops : ~Busy(p)
      BY <1>0, <2>4 DEF BeginStart
    <3>2. state \in {"Stopped", "Faulted"}
      BY <1>0, <3>1, <2>4 DEF BeginStart
    <3> QED
      BY <1>0, <3>1, <3>2, <2>4 DEF BeginStart, Goto
  <2>5. CASE TakePending(o)
    BY <1>0, <2>5 DEF TakePending, Goto
  <2>6. CASE TakeRuntime(o)
    BY <1>0, <2>6 DEF TakeRuntime, Goto
  <2>7. CASE CheckNotified(o)
    BY <1>0, <2>7 DEF CheckNotified, Notified, Goto
  <2>8. CASE LockNotification(o)
    BY <1>0, <2>8 DEF LockNotification, Notified, Goto
  <2>9. CASE NotificationReturns(o)
    BY <1>0, <2>9 DEF NotificationReturns, Notified, Goto
  <2>10. CASE CancelRuntime(o)
    BY <1>0, <2>10 DEF CancelRuntime, Goto
  <2>11. CASE Joined(o)
    BY <1>0, <2>11 DEF Joined, TasksEnded, KeepForRetry, Goto
  <2>12. CASE JoinTimesOut(o)
    BY <1>0, <2>12 DEF JoinTimesOut, KeepForRetry, Goto
  <2>13. CASE ReleaseToken(o)
    BY <1>0, <2>13 DEF ReleaseToken, Goto
  <2>14. CASE StopSettles(o)
    BY <1>0, <2>14 DEF StopSettles, Unlock, StopReturned, Fault, Goto
  <2>15. CASE StartSettles(o)
    BY <1>0, <2>15 DEF StartSettles, Unlock, Fault, Goto
  <2>16. CASE UnwindSettles(o)
    BY <1>0, <2>16 DEF UnwindSettles, Unlock, Fault, Goto
  <2>17. CASE PrepareFails(o)
    BY <1>0, <2>17 DEF PrepareFails, Unlock, Fault, Goto
  <2>18. CASE PreparePanics(o)
    BY <1>0, <2>18 DEF PreparePanics, Goto
  <2>19. CASE SpawnTasks(o)
    BY <1>0, <2>19 DEF SpawnTasks, Goto
  <2>20. CASE StoreRuntime(o)
    BY <1>0, <2>20 DEF StoreRuntime, Goto
  <2>21. CASE PublishRunning(o)
    BY <1>0, <2>21 DEF PublishRunning, Goto
  <2>22. CASE OpenGate(o)
    BY <1>0, <2>22 DEF OpenGate, Unlock, Goto
  <2> QED
    BY <1>2, <2>1, <2>2, <2>3, <2>4, <2>5, <2>6, <2>7, <2>8, <2>9, <2>10, <2>11,
       <2>12, <2>13, <2>14, <2>15, <2>16, <2>17, <2>18, <2>19, <2>20, <2>21, <2>22
    DEF OpStep
<1>3. ASSUME NEW e \in Epochs, WatchdogStep(e)
      PROVE  PhaseInv'
  <2>1. CASE WatchCancelled(e)
    BY <1>0, <2>1 DEF WatchCancelled, Step
  <2>2. CASE WatchFatal(e)
    BY <1>0, <2>2 DEF WatchFatal, Step
  <2>3. CASE WatchdogChecks(e)
    BY <1>0, <2>3 DEF WatchdogChecks, Step
  <2>4. CASE WatchdogLocks(e)
    BY <1>0, <2>4 DEF WatchdogLocks, Step
  <2>5. CASE WatchdogNotified(e)
    BY <1>0, <2>5 DEF WatchdogNotified, Step
  <2>6. CASE WatchdogCancels(e)
    BY <1>0, <2>6 DEF WatchdogCancels, Step
  <2>7. CASE MarkFaulted(e)
    BY <1>0, <2>7 DEF MarkFaulted, Step
  <2>8. CASE ReportFault(e)
    BY <1>0, <2>8 DEF ReportFault, Step
  <2> QED
    BY <1>3, <2>1, <2>2, <2>3, <2>4, <2>5, <2>6, <2>7, <2>8
    DEF WatchdogStep
<1>4. ASSUME NEW e \in Epochs, NEW c \in Channels, ListenerStep(e, c)
      PROVE  PhaseInv'
  <2>1. CASE PassGate(e, c)
    BY <1>0, <2>1 DEF PassGate
  <2>2. CASE ListenerEnds(e, c)
    BY <1>0, <2>2 DEF ListenerEnds
  <2>3. CASE ListenerFails(e, c)
    BY <1>0, <2>3 DEF ListenerFails
  <2> QED
    BY <1>4, <2>1, <2>2, <2>3
    DEF ListenerStep
<1>5. CASE UNCHANGED vars
  BY <1>0, <1>5
<1> QED
  BY <1>1, <1>2, <1>3, <1>4, <1>5 DEF Next, AllReturned

\* The callback runs under its lock, before its flag.
LEMMA NotifierStep ==
  ASSUME SerialCalls, IInv, [Next]_vars
  PROVE  NotifierInv'
<1> USE SupervisorAssumption
        DEF vars, lifecycle, owned, tasks, calls, NotifierInv, TargetInv, Exclusive,
            Busy, Launching
<1>0. /\ NotifierInv /\ TargetInv /\ Exclusive
     /\ pc \in [Ops -> OpPcs] /\ target \in [Ops -> Option(Epochs)]
     /\ notifier \in [Epochs -> Option(Ops \cup Epochs)]
     /\ completed \in [Epochs -> BOOLEAN] /\ watchdog \in [Epochs -> WatchdogPcs]
  BY DEF IInv, TypeOK
<1>1. ASSUME NEW o \in Ops, NEW k \in Kinds, Call(o, k)
      PROVE  NotifierInv'
  BY <1>0, <1>1 DEF Call, Goto
<1>2. ASSUME NEW o \in Ops, OpStep(o)
      PROVE  NotifierInv'
  <2>1. CASE StopStopped(o)
    BY <1>0, <2>1 DEF StopStopped, StopReturned, Goto
  <2>2. CASE BeginStop(o)
    BY <1>0, <2>2 DEF BeginStop, Goto
  <2>3. CASE RejectStart(o)
    BY <1>0, <2>3 DEF RejectStart, Goto
  <2>4. CASE BeginStart(o)
    BY <1>0, <2>4 DEF BeginStart, Goto
  <2>5. CASE TakePending(o)
    BY <1>0, <2>5 DEF TakePending, Goto
  <2>6. CASE TakeRuntime(o)
    BY <1>0, <2>6 DEF TakeRuntime, Goto
  <2>7. CASE CheckNotified(o)
    BY <1>0, <2>7 DEF CheckNotified, Notified, Goto
  <2>8. CASE LockNotification(o)
    BY <1>0, <2>8 DEF LockNotification, Notified, Goto
  <2>9. CASE NotificationReturns(o)
    BY <1>0, <2>9 DEF NotificationReturns, Notified, Goto
  <2>10. CASE CancelRuntime(o)
    BY <1>0, <2>10 DEF CancelRuntime, Goto
  <2>11. CASE Joined(o)
    BY <1>0, <2>11 DEF Joined, TasksEnded, KeepForRetry, Goto
  <2>12. CASE JoinTimesOut(o)
    BY <1>0, <2>12 DEF JoinTimesOut, KeepForRetry, Goto
  <2>13. CASE ReleaseToken(o)
    BY <1>0, <2>13 DEF ReleaseToken, Goto
  <2>14. CASE StopSettles(o)
    BY <1>0, <2>14 DEF StopSettles, Unlock, StopReturned, Fault, Goto
  <2>15. CASE StartSettles(o)
    BY <1>0, <2>15 DEF StartSettles, Unlock, Fault, Goto
  <2>16. CASE UnwindSettles(o)
    BY <1>0, <2>16 DEF UnwindSettles, Unlock, Fault, Goto
  <2>17. CASE PrepareFails(o)
    BY <1>0, <2>17 DEF PrepareFails, Unlock, Fault, Goto
  <2>18. CASE PreparePanics(o)
    BY <1>0, <2>18 DEF PreparePanics, Goto
  <2>19. CASE SpawnTasks(o)
    BY <1>0, <2>19 DEF SpawnTasks, Goto
  <2>20. CASE StoreRuntime(o)
    BY <1>0, <2>20 DEF StoreRuntime, Goto
  <2>21. CASE PublishRunning(o)
    BY <1>0, <2>21 DEF PublishRunning, Goto
  <2>22. CASE OpenGate(o)
    BY <1>0, <2>22 DEF OpenGate, Unlock, Goto
  <2> QED
    BY <1>2, <2>1, <2>2, <2>3, <2>4, <2>5, <2>6, <2>7, <2>8, <2>9, <2>10, <2>11,
       <2>12, <2>13, <2>14, <2>15, <2>16, <2>17, <2>18, <2>19, <2>20, <2>21, <2>22
    DEF OpStep
<1>3. ASSUME NEW e \in Epochs, WatchdogStep(e)
      PROVE  NotifierInv'
  <2>1. CASE WatchCancelled(e)
    BY <1>0, <2>1 DEF WatchCancelled, Step
  <2>2. CASE WatchFatal(e)
    BY <1>0, <2>2 DEF WatchFatal, Step
  <2>3. CASE WatchdogChecks(e)
    BY <1>0, <2>3 DEF WatchdogChecks, Step
  <2>4. CASE WatchdogLocks(e)
    BY <1>0, <2>4 DEF WatchdogLocks, Step
  <2>5. CASE WatchdogNotified(e)
    BY <1>0, <2>5 DEF WatchdogNotified, Step
  <2>6. CASE WatchdogCancels(e)
    BY <1>0, <2>6 DEF WatchdogCancels, Step
  <2>7. CASE MarkFaulted(e)
    BY <1>0, <2>7 DEF MarkFaulted, Step
  <2>8. CASE ReportFault(e)
    BY <1>0, <2>8 DEF ReportFault, Step
  <2> QED
    BY <1>3, <2>1, <2>2, <2>3, <2>4, <2>5, <2>6, <2>7, <2>8
    DEF WatchdogStep
<1>4. ASSUME NEW e \in Epochs, NEW c \in Channels, ListenerStep(e, c)
      PROVE  NotifierInv'
  <2>1. CASE PassGate(e, c)
    BY <1>0, <2>1 DEF PassGate
  <2>2. CASE ListenerEnds(e, c)
    BY <1>0, <2>2 DEF ListenerEnds
  <2>3. CASE ListenerFails(e, c)
    BY <1>0, <2>3 DEF ListenerFails
  <2> QED
    BY <1>4, <2>1, <2>2, <2>3
    DEF ListenerStep
<1>5. CASE UNCHANGED vars
  BY <1>0, <1>5
<1> QED
  BY <1>1, <1>2, <1>3, <1>4, <1>5 DEF Next, AllReturned

\* An epoch whose callback has not completed stays in somebody's hands.
LEMMA ForgottenStep ==
  ASSUME SerialCalls, IInv, [Next]_vars
  PROVE  NoEpochForgotten'
<1> USE SupervisorAssumption
        DEF vars, lifecycle, owned, tasks, calls, NoEpochForgotten, TargetInv,
            Exclusive, Busy, Launching, Spawned, RuntimeInv, PendingInv, LaunchInv,
            KeepForRetry
<1>0. /\ NoEpochForgotten /\ TargetInv /\ Exclusive /\ RuntimeInv /\ PendingInv
     /\ LaunchInv
     /\ pc \in [Ops -> OpPcs] /\ target \in [Ops -> Option(Epochs)]
     /\ completed \in [Epochs -> BOOLEAN] /\ watchdog \in [Epochs -> WatchdogPcs]
     /\ retry \in [Ops -> BOOLEAN] /\ pending \in Option(Epochs)
     /\ runtime \in Option(Epochs) /\ ok \in [Ops -> BOOLEAN]
  BY DEF IInv, TypeOK
<1>1. ASSUME NEW o \in Ops, NEW k \in Kinds, Call(o, k)
      PROVE  NoEpochForgotten'
  BY <1>0, <1>1 DEF Call, Goto
<1>2. ASSUME NEW o \in Ops, OpStep(o)
      PROVE  NoEpochForgotten'
  <2>1. CASE StopStopped(o)
    BY <1>0, <2>1 DEF StopStopped, StopReturned, Goto
  <2>2. CASE BeginStop(o)
    BY <1>0, <2>2 DEF BeginStop, Goto
  <2>3. CASE RejectStart(o)
    BY <1>0, <2>3 DEF RejectStart, Goto
  <2>4. CASE BeginStart(o)
    BY <1>0, <2>4 DEF BeginStart, Goto
  <2>5. CASE TakePending(o)
    BY <1>0, <2>5 DEF TakePending, Goto
  <2>6. CASE TakeRuntime(o)
    BY <1>0, <2>6 DEF TakeRuntime, Goto
  <2>7. CASE CheckNotified(o)
    BY <1>0, <2>7 DEF CheckNotified, Notified, Goto
  <2>8. CASE LockNotification(o)
    BY <1>0, <2>8 DEF LockNotification, Notified, Goto
  <2>9. CASE NotificationReturns(o)
    BY <1>0, <2>9 DEF NotificationReturns, Notified, Goto
  <2>10. CASE CancelRuntime(o)
    BY <1>0, <2>10 DEF CancelRuntime, Goto
  <2>11. CASE Joined(o)
    BY <1>0, <2>11 DEF Joined, TasksEnded, KeepForRetry, Goto
  <2>12. CASE JoinTimesOut(o)
    BY <1>0, <2>12 DEF JoinTimesOut, KeepForRetry, Goto
  <2>13. CASE ReleaseToken(o)
    BY <1>0, <2>13 DEF ReleaseToken, Goto
  <2>14. CASE StopSettles(o)
    BY <1>0, <2>14 DEF StopSettles, Unlock, StopReturned, Fault, Goto
  <2>15. CASE StartSettles(o)
    BY <1>0, <2>15 DEF StartSettles, Unlock, Fault, Goto
  <2>16. CASE UnwindSettles(o)
    BY <1>0, <2>16 DEF UnwindSettles, Unlock, Fault, Goto
  <2>17. CASE PrepareFails(o)
    BY <1>0, <2>17 DEF PrepareFails, Unlock, Fault, Goto
  <2>18. CASE PreparePanics(o)
    BY <1>0, <2>18 DEF PreparePanics, Goto
  <2>19. CASE SpawnTasks(o)
    BY <1>0, <2>19 DEF SpawnTasks, Goto
  <2>20. CASE StoreRuntime(o)
    BY <1>0, <2>20 DEF StoreRuntime, Goto
  <2>21. CASE PublishRunning(o)
    BY <1>0, <2>21 DEF PublishRunning, Goto
  <2>22. CASE OpenGate(o)
    BY <1>0, <2>22 DEF OpenGate, Unlock, Goto
  <2> QED
    BY <1>2, <2>1, <2>2, <2>3, <2>4, <2>5, <2>6, <2>7, <2>8, <2>9, <2>10, <2>11,
       <2>12, <2>13, <2>14, <2>15, <2>16, <2>17, <2>18, <2>19, <2>20, <2>21, <2>22
    DEF OpStep
<1>3. ASSUME NEW e \in Epochs, WatchdogStep(e)
      PROVE  NoEpochForgotten'
  <2>1. CASE WatchCancelled(e)
    BY <1>0, <2>1 DEF WatchCancelled, Step
  <2>2. CASE WatchFatal(e)
    BY <1>0, <2>2 DEF WatchFatal, Step
  <2>3. CASE WatchdogChecks(e)
    BY <1>0, <2>3 DEF WatchdogChecks, Step
  <2>4. CASE WatchdogLocks(e)
    BY <1>0, <2>4 DEF WatchdogLocks, Step
  <2>5. CASE WatchdogNotified(e)
    BY <1>0, <2>5 DEF WatchdogNotified, Step
  <2>6. CASE WatchdogCancels(e)
    BY <1>0, <2>6 DEF WatchdogCancels, Step
  <2>7. CASE MarkFaulted(e)
    BY <1>0, <2>7 DEF MarkFaulted, Step
  <2>8. CASE ReportFault(e)
    BY <1>0, <2>8 DEF ReportFault, Step
  <2> QED
    BY <1>3, <2>1, <2>2, <2>3, <2>4, <2>5, <2>6, <2>7, <2>8
    DEF WatchdogStep
<1>4. ASSUME NEW e \in Epochs, NEW c \in Channels, ListenerStep(e, c)
      PROVE  NoEpochForgotten'
  <2>1. CASE PassGate(e, c)
    BY <1>0, <2>1 DEF PassGate
  <2>2. CASE ListenerEnds(e, c)
    BY <1>0, <2>2 DEF ListenerEnds
  <2>3. CASE ListenerFails(e, c)
    BY <1>0, <2>3 DEF ListenerFails
  <2> QED
    BY <1>4, <2>1, <2>2, <2>3
    DEF ListenerStep
<1>5. CASE UNCHANGED vars
  BY <1>0, <1>5
<1> QED
  BY <1>1, <1>2, <1>3, <1>4, <1>5 DEF Next, AllReturned
-------------------------------------------------------------------------------
(***************************************************************************)
(* Theorems.                                                               *)
(***************************************************************************)
\* A proxy that has just been built satisfies the inductive invariant.
LEMMA InitInv == Init => IInv
<1> SUFFICES ASSUME Init PROVE IInv
  OBVIOUS
<1> USE SupervisorAssumption DEF Init, Busy, Spawned
<1>1. TypeOK
  BY InitType
<1>2. LockInv /\ Exclusive /\ TargetInv /\ LaunchInv
  BY DEF LockInv, Exclusive, TargetInv, LaunchInv, Launching, Outstanding
<1>3. FreshInv /\ RuntimeInv /\ PendingInv /\ CustodyInv /\ OpenInv
  BY DEF FreshInv, RuntimeInv, PendingInv, CustodyInv, OpenInv, Alive
<1>4. RunningInv /\ IdleInv /\ StoppedInv /\ EpochInv /\ PhaseInv
  BY DEF RunningInv, IdleInv, StoppedInv, EpochInv, PhaseInv
<1>5. NotifierInv /\ NoEpochForgotten
  BY DEF NotifierInv, NoEpochForgotten
<1> QED
  BY <1>1, <1>2, <1>3, <1>4, <1>5 DEF IInv

\* Every step keeps it.  The lock, the phase and the caller's gate leave room for one busy
\* call; the other conjuncts are kept by the lemmas above.
LEMMA InvStep ==
  ASSUME SerialCalls, IInv, [Next]_vars
  PROVE  IInv'
<1>1. TypeOK'
  BY TypeStep DEF IInv
<1>2. LockInv'
  BY LockStep
<1>3. Exclusive'
  BY <1>2 DEF SerialCalls, LockInv, Exclusive, Busy, Outstanding
<1> QED
  BY <1>1, <1>2, <1>3, TargetStep, LaunchStep, FreshStep, RuntimeStep, PendingStep,
     CustodyStep, OpenStep, RunningStep, IdleStep, StoppedStep, EpochStep, PhaseStep,
     NotifierStep, ForgottenStep
  DEF IInv

\* The inductive invariant holds in every reachable state.
THEOREM Inductive ==
  ASSUME SerialCalls
  PROVE  Spec => []IInv
<1>1. IInv /\ [Next]_vars => IInv'
  BY InvStep
<1> QED
  BY <1>1, InitInv, PTL DEF Spec

\* start, stop and restart never handle the tasks of one epoch at the same time.
THEOREM Apart ==
  ASSUME SerialCalls
  PROVE  Spec => []TransactionsApart
<1>1. IInv => TransactionsApart
  BY DEF IInv, TransactionsApart, Handles, Exclusive, Busy
<1> QED
  BY <1>1, Inductive, PTL

\* A stopped proxy, or a faulted one that shows no epoch, has no task left.
THEOREM NoStray ==
  ASSUME SerialCalls
  PROVE  Spec => []NoStrayTasks
<1>1. IInv => NoStrayTasks
  BY SupervisorAssumption DEF IInv, NoStrayTasks, IdleInv, CustodyInv, Dismantles, Busy
<1> QED
  BY <1>1, Inductive, PTL

\* Running is shown only for a runtime that is held, open or about to open, and alive.
THEOREM Backed ==
  ASSUME SerialCalls
  PROVE  Spec => []RunningIsBacked
<1>1. IInv => RunningIsBacked
  BY DEF IInv, RunningIsBacked, RunningInv, RuntimeInv, EpochInv
<1> QED
  BY <1>1, Inductive, PTL

\* The tasks of two runtimes never coexist, and a start binds its ports after the last of
\* them has ended.
THEOREM OneRuntime ==
  ASSUME SerialCalls
  PROVE  Spec => []OneRuntimeAtATime
<1>1. IInv => OneRuntimeAtATime
  <2> SUFFICES ASSUME IInv PROVE OneRuntimeAtATime
    OBVIOUS
  <2>1. ASSUME NEW e \in Epochs, NEW f \in Epochs, Alive(e), Alive(f)
        PROVE  e = f
    BY <2>1, SupervisorAssumption
       DEF IInv, CustodyInv, Exclusive, Busy, Dismantles, RuntimeInv
  <2>2. ASSUME NEW o \in Ops, pc[o] = "prepare", NEW e \in Epochs
        PROVE  ~Alive(e)
    BY <2>2, SupervisorAssumption
       DEF IInv, CustodyInv, Exclusive, Busy, Dismantles, RuntimeInv
  <2> QED
    BY <2>1, <2>2 DEF OneRuntimeAtATime
<1> QED
  BY <1>1, Inductive, PTL

\* The tasks of a runtime end before the proxy says it stopped and before the next
\* runtime binds its ports.
THEOREM TasksEnd ==
  ASSUME SerialCalls
  PROVE  Spec => []NoTaskOutlives
<1>1. NoStrayTasks /\ OneRuntimeAtATime => NoTaskOutlives
  BY DEF NoTaskOutlives
<1> QED
  BY <1>1, NoStray, OneRuntime, PTL

\* runtime_stopping is owed to every epoch until it completes.
THEOREM NoneForgotten ==
  ASSUME SerialCalls
  PROVE  Spec => []NoEpochForgotten
<1>1. IInv => NoEpochForgotten
  BY DEF IInv
<1> QED
  BY <1>1, Inductive, PTL

\* The callback of an epoch never runs twice at once, nor after it completed.
THEOREM NotifiedAtMostOnce ==
  ASSUME SerialCalls
  PROVE  Spec => []NotifiedOnce
<1>1. IInv => NotifiedOnce
  BY SupervisorAssumption DEF IInv, NotifiedOnce, NotifierInv
<1> QED
  BY <1>1, Inductive, PTL

\* runtime_stopping completes for every epoch, and once.
THEOREM CallbackOnce ==
  ASSUME SerialCalls
  PROVE  Spec => []CalledOnce
<1>1. NoEpochForgotten /\ NotifiedOnce => CalledOnce
  BY DEF CalledOnce
<1> QED
  BY <1>1, NoneForgotten, NotifiedAtMostOnce, PTL
-------------------------------------------------------------------------------
(***************************************************************************)
(* What an observer of the supervisor is promised.  Both theorems rest on  *)
(* the inductive invariant.                                                *)
(***************************************************************************)
\* A listener starts to accept in one way: it passes its gate.
LEMMA AcceptsAtGate ==
  ASSUME TypeOK, [Next]_vars, NEW e \in Epochs, NEW c \in Channels,
         listener[e][c] # "serving", listener'[e][c] = "serving"
  PROVE  PassGate(e, c)
<1> USE DEF vars, lifecycle, owned, tasks, calls
<1>0. listener \in [Epochs -> [Channels -> ListenerPcs]]
  BY DEF TypeOK
<1>1. ASSUME NEW o \in Ops, NEW k \in Kinds, Call(o, k)
      PROVE  FALSE
  BY <1>1 DEF Call
<1>2. ASSUME NEW o \in Ops, OpStep(o)
      PROVE  FALSE
  <2>1. CASE SpawnTasks(o)
    BY <1>0, <2>1 DEF SpawnTasks
  <2>2. CASE JoinTimesOut(o)
    BY <1>0, <2>2 DEF JoinTimesOut
  <2>3. CASE UNCHANGED listener
    BY <2>3
  <2> QED
    BY <1>2, <2>1, <2>2, <2>3
    DEF OpStep, StopStopped, BeginStop, RejectStart, BeginStart, TakePending, TakeRuntime,
        CheckNotified, LockNotification, NotificationReturns, CancelRuntime, Joined,
        ReleaseToken, StopSettles, StartSettles, UnwindSettles, PrepareFails, PreparePanics,
        StoreRuntime, PublishRunning, OpenGate
<1>3. ASSUME NEW f \in Epochs, WatchdogStep(f)
      PROVE  FALSE
  BY <1>3 DEF WatchdogStep, WatchCancelled, WatchFatal, WatchdogChecks, WatchdogLocks,
              WatchdogNotified, WatchdogCancels, MarkFaulted, ReportFault
<1>4. ASSUME NEW f \in Epochs, NEW d \in Channels, ListenerStep(f, d)
      PROVE  PassGate(e, c)
  <2>1. CASE PassGate(f, d)
    <3>1. f = e /\ d = c
      BY <1>0, <2>1 DEF PassGate
    <3> QED
      BY <2>1, <3>1
  <2>2. CASE ListenerEnds(f, d)
    BY <1>0, <2>2 DEF ListenerEnds
  <2>3. CASE ListenerFails(f, d)
    BY <1>0, <2>3 DEF ListenerFails
  <2> QED
    BY <1>4, <2>1, <2>2, <2>3 DEF ListenerStep
<1>5. CASE UNCHANGED vars
  BY <1>5
<1> QED
  BY <1>1, <1>2, <1>3, <1>4, <1>5 DEF Next, AllReturned

\* A listener starts to accept only for the epoch the lifecycle shows at that moment.
THEOREM AcceptsPublished ==
  ASSUME SerialCalls
  PROVE  Spec => AcceptsOnlyWhenPublished
<1>1. ASSUME IInv, [Next]_vars, NEW e \in Epochs, NEW c \in Channels,
             listener[e][c] # "serving", listener'[e][c] = "serving"
      PROVE  epoch = e /\ state \in {"Running", "Stopping"}
  <2>1. PassGate(e, c)
    BY <1>1, AcceptsAtGate DEF IInv
  <2>2. gate[e] /\ ~cancelled[e]
    BY <1>1, <2>1 DEF PassGate, IInv, TypeOK
  <2> QED
    BY <1>1, <2>2 DEF IInv, OpenInv
<1>2. IInv /\ [Next]_vars =>
        [\A e \in Epochs, c \in Channels :
           listener[e][c] # "serving" /\ listener'[e][c] = "serving" =>
             epoch = e /\ state \in {"Running", "Stopping"}]_vars
  BY <1>1
<1> QED
  BY <1>2, Inductive, PTL DEF Spec, AcceptsOnlyWhenPublished

-------------------------------------------------------------------------------
(***************************************************************************)
(* The refinement.                                                         *)
(***************************************************************************)
\* The epochs an observer has seen stay the same when the published one is withdrawn after
\* its gate opened, and when the gate of the published one opens.
LEMMA SpentKept ==
  ASSUME IInv,
         \/ gate' = gate /\ (epoch' = epoch \/ (epoch' = None /\ (epoch # None => gate[epoch])))
         \/ /\ epoch' = epoch /\ epoch \in Epochs
            /\ gate' = [gate EXCEPT ![epoch] = TRUE]
  PROVE  spentEpochs' = spentEpochs
<1>1. gate \in [Epochs -> BOOLEAN] /\ epoch \in Option(Epochs)
  BY DEF IInv, TypeOK
<1>2. CASE gate' = gate /\ epoch' = epoch
  BY <1>2 DEF spentEpochs
<1>3. CASE gate' = gate /\ epoch' = None /\ (epoch # None => gate[epoch])
  BY <1>1, <1>3 DEF spentEpochs, Option
<1>4. CASE /\ epoch' = epoch /\ epoch \in Epochs
           /\ gate' = [gate EXCEPT ![epoch] = TRUE]
  <2>1. epoch # None
    BY <1>4, SupervisorAssumption
  <2>2. \A e \in Epochs : gate'[e] <=> gate[e] \/ e = epoch
    BY <1>1, <1>4
  <2> QED
    BY <1>4, <2>1, <2>2 DEF spentEpochs
<1> QED
  BY <1>2, <1>3, <1>4

\* A step that leaves state, epoch and gates alone changes nothing an observer sees.
LEMMA Unseen ==
  ASSUME UNCHANGED <<state, epoch, gate>>
  PROVE  UNCHANGED L!lvars
BY DEF L!lvars, spentEpochs

\* A busy call that is not about to open a gate withdraws an epoch whose gate is open.
LEMMA WithdrawnIsOpen ==
  ASSUME IInv, NEW o \in Ops, Busy(o), pc[o] # "open", epoch # None
  PROVE  gate[epoch]
BY DEF IInv, EpochInv, Exclusive, Busy

\* Every step of a call maps to a step of Lifecycle or to a stutter.
LEMMA CallRefines ==
  ASSUME IInv, NEW o \in Ops, OpStep(o)
  PROVE  L!Next \/ UNCHANGED L!lvars
<1> USE DEF lifecycle, owned, tasks, calls
<1>0. state \in {"Stopped", "Starting", "Running", "Stopping", "Faulted"}
  BY DEF IInv, TypeOK
<1>1. CASE BeginStop(o)
  <2>1. spentEpochs' = spentEpochs
    BY <1>1, SpentKept DEF BeginStop
  <2>2. CASE state = "Stopping"
    BY <1>1, <2>1, <2>2 DEF BeginStop, L!lvars
  <2>3. CASE state # "Stopping"
    <3>1. <<state, "Stopping">> \in L!Edges
      BY <1>0, <1>1, <2>3 DEF BeginStop, L!Edges
    <3> QED
      BY <1>1, <2>1, <3>1 DEF BeginStop, L!Next, L!Leave
  <2> QED
    BY <2>2, <2>3
<1>2. CASE StopSettles(o)
  <2>1. Busy(o) /\ pc[o] # "open" /\ phase[o] = "stop"
    BY <1>2 DEF StopSettles, Busy
  <2>2. state \in {"Stopping", "Faulted"}
    BY <2>1 DEF IInv, PhaseInv
  <2>3. state' \in {"Stopped", "Faulted"} /\ epoch' = None /\ gate' = gate
    BY <1>2 DEF StopSettles, Fault
  <2>4. spentEpochs' = spentEpochs
    BY <2>1, <2>3, WithdrawnIsOpen, SpentKept
  <2>5. state' = state \/ <<state, state'>> \in L!Edges
    BY <2>2, <2>3 DEF L!Edges
  <2> QED
    BY <2>2, <2>3, <2>4, <2>5 DEF L!Next, L!Withdraw
<1>3. CASE StartSettles(o)
  <2>1. Busy(o) /\ pc[o] = "settle" /\ phase[o] = "start"
    BY <1>3 DEF StartSettles, Busy
  <2>2. state \in {"Stopped", "Faulted"}
    BY <2>1 DEF IInv, PhaseInv
  <2>3. state' \in {"Starting", "Faulted"} /\ epoch' = None /\ gate' = gate
    BY <1>3 DEF StartSettles, Fault
  <2>4. spentEpochs' = spentEpochs
    BY <2>1, <2>3, WithdrawnIsOpen, SpentKept
  <2>5. state = "Stopped" => state' = "Starting"
    BY <1>3, <2>1 DEF StartSettles, IInv, StoppedInv
  <2>6. state' = state \/ <<state, state'>> \in L!Edges
    BY <2>2, <2>3, <2>5 DEF L!Edges
  <2> QED
    BY <2>2, <2>3, <2>4, <2>6 DEF L!Next, L!Withdraw
<1>4. CASE UnwindSettles(o) \/ PrepareFails(o)
  <2>1. Busy(o) /\ pc[o] # "open" /\ (phase[o] = "unwind" \/ pc[o] = "prepare")
    BY <1>4 DEF UnwindSettles, PrepareFails, Busy
  <2>2. state = "Starting"
    BY <2>1 DEF IInv, PhaseInv, LaunchInv
  <2>3. state' = "Faulted" /\ epoch' = None /\ gate' = gate
    BY <1>4 DEF UnwindSettles, PrepareFails, Fault
  <2>4. spentEpochs' = spentEpochs
    BY <2>1, <2>3, WithdrawnIsOpen, SpentKept
  <2>5. <<state, state'>> \in L!Edges
    BY <2>2, <2>3 DEF L!Edges
  <2> QED
    BY <2>2, <2>3, <2>4, <2>5 DEF L!Next, L!Withdraw
<1>5. CASE PublishRunning(o)
  <2>1. Busy(o) /\ pc[o] = "publish"
    BY <1>5 DEF PublishRunning, Busy
  <2>2. target[o] \in Epochs /\ ~gate[target[o]]
    BY <2>1 DEF IInv, TargetInv, LaunchInv, Launching
  <2>3. state = "Starting"
    BY <2>1 DEF IInv, PhaseInv, LaunchInv, Launching
  <2>4. epoch = None
    BY <2>3 DEF IInv, EpochInv
  <2>5. state' = "Running" /\ epoch' = target[o] /\ gate' = gate
    BY <1>5 DEF PublishRunning
  <2>6. target[o] \notin spentEpochs /\ spentEpochs' = spentEpochs \cup {target[o]}
    BY <2>2, <2>4, <2>5, SupervisorAssumption DEF spentEpochs
  <2>7. <<state, "Running">> \in L!Edges
    BY <2>3 DEF L!Edges
  <2> QED
    BY <2>2, <2>5, <2>6, <2>7 DEF L!Next, L!Publish
<1>6. CASE OpenGate(o)
  <2>1. pc[o] = "open" /\ Busy(o)
    BY <1>6 DEF OpenGate, Busy
  <2>2. target[o] \in Epochs /\ epoch = target[o]
    BY <2>1 DEF IInv, TargetInv, Launching, LaunchInv, PhaseInv
  <2>3. UNCHANGED <<state, epoch>> /\ gate' = [gate EXCEPT ![epoch] = TRUE]
    BY <1>6, <2>2 DEF OpenGate
  <2>4. spentEpochs' = spentEpochs
    BY <2>2, <2>3, SpentKept
  <2> QED
    BY <2>3, <2>4 DEF L!lvars
<1>7. CASE UNCHANGED <<state, epoch, gate>>
  BY <1>7, Unseen
<1> QED
  BY <1>1, <1>2, <1>3, <1>4, <1>5, <1>6, <1>7
  DEF OpStep, StopStopped, RejectStart, BeginStart, TakePending, TakeRuntime,
      CheckNotified, LockNotification, NotificationReturns, CancelRuntime, Joined,
      JoinTimesOut, ReleaseToken, PreparePanics, SpawnTasks, StoreRuntime

\* So does every other step: only MarkFaulted changes what an observer sees.
LEMMA StepRefines ==
  ASSUME IInv, [Next]_vars
  PROVE  L!Next \/ UNCHANGED L!lvars
<1> USE DEF vars, lifecycle, owned, tasks, calls
<1>1. ASSUME NEW o \in Ops, NEW k \in Kinds, Call(o, k)
      PROVE  UNCHANGED <<state, epoch, gate>>
  BY <1>1 DEF Call
<1>2. ASSUME NEW e \in Epochs, MarkFaulted(e)
      PROVE  L!Next \/ UNCHANGED L!lvars
  <2>1. UNCHANGED <<epoch, gate>> /\ state' = IF epoch = e THEN "Faulted" ELSE state
    BY <1>2 DEF MarkFaulted
  <2>2. CASE state' = state
    BY <2>1, <2>2, Unseen
  <2>3. CASE state' # state
    <3>1. epoch \in Epochs /\ state' = "Faulted"
      BY <2>1, <2>3
    <3>2. state \in {"Running", "Stopping"}
      BY <2>3, <3>1, SupervisorAssumption DEF IInv, EpochInv
    <3>3. <<state, state'>> \in L!Edges
      BY <3>1, <3>2 DEF L!Edges
    <3>4. spentEpochs' = spentEpochs
      BY <2>1, SpentKept
    <3> QED
      BY <2>1, <3>1, <3>3, <3>4 DEF L!Next, L!Leave
  <2> QED
    BY <2>2, <2>3
<1>3. ASSUME NEW e \in Epochs, WatchdogStep(e)
      PROVE  L!Next \/ UNCHANGED L!lvars
  <2>1. MarkFaulted(e) \/ UNCHANGED <<state, epoch, gate>>
    BY <1>3 DEF WatchdogStep, WatchCancelled, WatchFatal, WatchdogChecks, WatchdogLocks,
                WatchdogNotified, WatchdogCancels, ReportFault
  <2> QED
    BY <1>2, <2>1, Unseen
<1>4. ASSUME NEW e \in Epochs, NEW c \in Channels, ListenerStep(e, c)
      PROVE  UNCHANGED <<state, epoch, gate>>
  BY <1>4 DEF ListenerStep, PassGate, ListenerEnds, ListenerFails
<1> QED
  BY <1>1, <1>3, <1>4, CallRefines, Unseen DEF Next, AllReturned

\* The lifecycle an observer sees follows the domain layer's state graph and never publishes
\* an epoch twice.
THEOREM RefinesLifecycle ==
  ASSUME SerialCalls
  PROVE  Spec => ImplementsLifecycle
<1>1. Init => L!Init
  BY DEF Init, L!Init, spentEpochs
<1>2. IInv /\ [Next]_vars => [L!Next]_(L!lvars)
  BY StepRefines
<1> QED
  BY <1>1, <1>2, Inductive, PTL DEF Spec, ImplementsLifecycle, L!Spec
===============================================================================
