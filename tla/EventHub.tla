------------------------------- MODULE EventHub -------------------------------
(***************************************************************************)
(* The ordered event hub (crates/application/src/events.rs) and the task   *)
(* that pumps a subscription into its Tauri channel (app_subscribe_events  *)
(* of src-tauri/src/commands/mod.rs).                                      *)
(*                                                                         *)
(* An operation of the hub runs under its state lock and is one step: a    *)
(* function from the state before it to the state after it, composed of    *)
(* the functions the code calls.  What a receiver does without that lock   *)
(* is a step of its own.  The order in which the code meets two            *)
(* subscribers that queue equally much is that of a hash map: any rank.    *)
(*                                                                         *)
(* An envelope is its id, its logical bytes and whether it is the          *)
(* SnapshotRequired event.  A captured row takes one byte, an envelope     *)
(* one more than its rows or its payload, a recorded failure two.          *)
(***************************************************************************)
EXTENDS Integers, Sequences, FiniteSets, FiniteSetsExt, SequencesExt

CONSTANTS Subs,            (* subscription ids: next_subscription_id never repeats one *)
          MaxSubscribers,  (* MAX_SUBSCRIBERS                                    *)
          ReplayCapacity,  (* replay_capacity, in events                         *)
          QueueCapacity,   (* the bound of a subscriber's channel, in events     *)
          FailureCapacity, (* DEFAULT_FAILURE_CAPACITY                           *)
          BatchSize,       (* CAPTURE_BATCH_SIZE                                 *)
          Payloads,        (* bytes a published payload can have                 *)
          Rooms,           (* what limit minus session bytes can be              *)
          MaxId,           (* bound: no operation starts once this id is given   *)
          None             (* no id                                              *)

ASSUME EventHubAssumption ==
  /\ IsFiniteSet(Subs) /\ None \notin Nat
  /\ {MaxSubscribers, ReplayCapacity, QueueCapacity, FailureCapacity, BatchSize, MaxId}
       \subseteq Nat \ {0}
  /\ Payloads \subseteq Nat
  /\ Rooms \subseteq Nat \ {0} /\ Rooms # {}

VARIABLES
  hub,      (* EventState, and what its subscribers share with the receivers  *)
  room,     (* CapacityState: limit - sessions, what events may take          *)
  pc,       (* where the command and the pump of a subscription are           *)
  replay,   (* TrackedReplay.events                                           *)
  cursor,   (* the last event the front end has, its after_event_id at first  *)
  told,     (* how many SnapshotRequired events the front end was sent        *)
  quit,     (* subscriptions the front end has cancelled                      *)
  deaf      (* subscriptions whose channel the front end has closed           *)

pump == <<pc, replay, cursor, told, quit, deaf>>
vars == <<hub, room, pump>>

Event(id, payload) == [id |-> id, bytes |-> 1 + payload, snapshot |-> FALSE]
Snapshot(id) == [id |-> id, bytes |-> 1, snapshot |-> TRUE]
Events == [id : Nat, bytes : Nat, snapshot : BOOLEAN]

FailureBytes == 2
SumBytes(s) == FoldLeft(LAMBDA n, e : n + e.bytes, 0, s)

\* What is left of s when the elements that are not in kept are taken out
Among(s, kept) == FoldLeft(LAMBDA rest, e : IF e \in kept THEN Append(rest, e) ELSE rest, <<>>, s)

Pcs == {"none", "replay", "live", "failure", "unsubscribe", "drop", "dropping", "gone"}

TypeOK ==
  /\ hub.next \in Nat \ {0} /\ hub.pending \in 0..(BatchSize - 1)
  /\ hub.overflowed \in BOOLEAN /\ hub.bytes \in Nat
  /\ hub.retained \in Seq(Events) /\ Len(hub.retained) <= ReplayCapacity
  /\ hub.live \subseteq Subs /\ Cardinality(hub.live) <= MaxSubscribers
  /\ hub.queue \in [Subs -> Seq(Events)] /\ \A s \in Subs : Len(hub.queue[s]) <= QueueCapacity
  /\ hub.queued \in [Subs -> Nat]
  /\ hub.cancelled \subseteq Subs
  /\ hub.owed \in [Subs -> Nat \cup {None}]
  /\ hub.failures \in Seq([sub : Subs, id : Nat]) /\ Len(hub.failures) <= FailureCapacity
  /\ room \in Rooms
  /\ pc \in [Subs -> Pcs]
  /\ replay \in [Subs -> Seq(Events)]
  /\ cursor \in [Subs -> Nat] /\ told \in [Subs -> Nat]
  /\ quit \subseteq Subs /\ deaf \subseteq Subs

Init ==
  /\ hub = [next |-> 1,              (* next_id                              *)
            retained |-> <<>>,       (* the replay log                       *)
            pending |-> 0,           (* captured rows waiting to be batched  *)
            overflowed |-> FALSE,    (* replay_overflowed                    *)
            live |-> {},             (* subscribers, subscription_bytes      *)
            queue |-> [s \in Subs |-> <<>>],     (* the channels             *)
            queued |-> [s \in Subs |-> 0],       (* queued_logical_bytes     *)
            cancelled |-> {},                    (* cancellation             *)
            owed |-> [s \in Subs |-> None],      (* snapshot_required_on_cancel *)
            failures |-> <<>>,       (* subscription_failures                *)
            bytes |-> 0]             (* CapacityState.events                 *)
  /\ room \in Rooms
  /\ pc = [s \in Subs |-> "none"]
  /\ replay = [s \in Subs |-> <<>>]
  /\ cursor = [s \in Subs |-> 0]
  /\ told = [s \in Subs |-> 0]
  /\ quit = {} /\ deaf = {}
-------------------------------------------------------------------------------
(***************************************************************************)
(* The ledger.                                                             *)
(***************************************************************************)
Release(h, n) == [h EXCEPT !.bytes = IF n > @ THEN 0 ELSE @ - n]

Fits(h, n) == h.bytes + n <= room

\* The k oldest events and the j oldest failures are given up.
Shed(h, k, j) ==
  [Release(h, SumBytes(SubSeq(h.retained, 1, k)) + j * FailureBytes) EXCEPT
     !.retained = SubSeq(@, k + 1, Len(@)),
     !.failures = SubSeq(@, j + 1, Len(@)),
     !.overflowed = @ \/ k > 0]

\* What is given up to hold no more than most: history first, then failures, and no more
\* than it takes.
ShedUntil(h, most) ==
  LET k == Min({i \in 0..Len(h.retained) : Shed(h, i, 0).bytes <= most} \cup {Len(h.retained)})
      j == Min({i \in 0..Len(h.failures) : Shed(h, k, i).bytes <= most} \cup {Len(h.failures)})
  IN  Shed(h, k, j)

\* reserve_event_history_bytes: the bytes are then taken if they fit the room it made.
MakeRoom(h, n) == ShedUntil(h, room - n)
-------------------------------------------------------------------------------
(***************************************************************************)
(* Ending a subscription.                                                  *)
(***************************************************************************)
\* The bytes of the queue are released with the subscriber.
RemoveSubscriberFault(h, s) ==
  IF s \in h.live THEN [Release(h, h.queued[s]) EXCEPT !.live = @ \ {s}, !.cancelled = @ \cup {s}]
  ELSE h

\* remove_subscriber
RemoveSubscriber(h, s) ==
  IF s \in h.live THEN [h EXCEPT !.live = @ \ {s}, !.cancelled = @ \cup {s}] ELSE h

\* The one that queues most
Slowest(h, S, rank) ==
  CHOOSE s \in S : \A t \in S \ {s} :
    \/ h.queued[t] < h.queued[s]
    \/ h.queued[t] = h.queued[s] /\ rank[t] < rank[s]

\* terminate_subscriber_for_snapshot, of the subscriber that queues most
TerminateSlowest(h, rank) ==
  IF h.live = {} THEN h
  ELSE LET slowest == Slowest(h, h.live, rank)
       IN  RemoveSubscriber([h EXCEPT !.owed[slowest] = h.next - 1], slowest)
-------------------------------------------------------------------------------
(***************************************************************************)
(* Publishing.                                                             *)
(***************************************************************************)
\* No operation adds more than one event before it trims.
Trim(h) == IF Len(h.retained) > ReplayCapacity THEN Shed(h, 1, 0) ELSE h

\* append_log: e is retained if it fits the room made for it; replaced bytes of it are reserved.
Retain(h, e, replaced, rank) ==
  IF Fits(h, e.bytes - replaced)
  THEN Trim([h EXCEPT !.bytes = @ + e.bytes - replaced, !.retained = Append(@, e)])
  ELSE [Release(TerminateSlowest(h, rank), replaced) EXCEPT !.overflowed = TRUE]

AppendLog(h, e, replaced, rank) ==
  Retain(MakeRoom([h EXCEPT !.next = @ + 1], e.bytes - replaced), e, replaced, rank)

\* The warning that history was lost.  The one of append_log may end a subscription for it,
\* the one of record_replay_overflow_warning may not.
RetainWarning(h, mayEnd, rank) ==
  IF Fits(h, 1) THEN Trim([h EXCEPT !.bytes = @ + 1, !.retained = Append(@, Event(h.next - 1, 0))])
  ELSE IF mayEnd THEN TerminateSlowest(h, rank) ELSE h

Warn(h, mayEnd, rank) == RetainWarning(MakeRoom([h EXCEPT !.next = @ + 1], 1), mayEnd, rank)

\* dispatch_live: one subscriber, once room was made for its copy
Enqueue(h, s, e) ==
  IF Fits(h, e.bytes) /\ Len(h.queue[s]) < QueueCapacity
  THEN [h EXCEPT !.bytes = @ + e.bytes, !.queue[s] = Append(@, e), !.queued[s] = @ + e.bytes]
  ELSE h

Offer(h, s, e) == Enqueue(MakeRoom(h, e.bytes), s, e)

TrimFailures(h) == IF Len(h.failures) > FailureCapacity THEN Shed(h, 0, 1) ELSE h

Failed(h, s, id) ==
  [h EXCEPT !.bytes = @ + FailureBytes, !.failures = Append(@, [sub |-> s, id |-> id])]

Owed(h, s, id) == [h EXCEPT !.owed[s] = id]

\* The failure is recorded, and the flag is set too.
RecordFailureFault(h, s, id) ==
  TrimFailures(RemoveSubscriber(
    IF Fits(h, FailureBytes) THEN Owed(Failed(h, s, id), s, id) ELSE Owed(h, s, id), s))

\* The subscriber stays registered after a delivery that failed and was recorded.
KeepSubscriberFault(h, s, id) ==
  IF Fits(h, FailureBytes) THEN TrimFailures(Failed(h, s, id))
  ELSE RemoveSubscriber(Owed(h, s, id), s)

\* dispatch_live: one terminated subscriber, once room was made to record its failure
RecordFailure(h, s, id) ==
  TrimFailures(RemoveSubscriber(
    IF Fits(h, FailureBytes) THEN Failed(h, s, id) ELSE Owed(h, s, id), s))

\* dispatch_live: every subscriber is offered e; those that queue least come first, the
\* slowest is the last one a fold adds.
OfferAll(h, e, rank) ==
  MapThenFoldSet(LAMBDA s, g : Offer(g, s, e), h, LAMBDA s : s,
                 LAMBDA S : Slowest(h, S, rank), h.live)

\* dispatch_live: who was offered e and did not get it is terminated.
Terminate(before, h, e, rank) ==
  MapThenFoldSet(LAMBDA s, g : RecordFailure(MakeRoom(g, FailureBytes), s, e.id), h, LAMBDA s : s,
                 LAMBDA S : Slowest(before, S, rank),
                 {s \in before.live : h.queue[s] = before.queue[s]})

DispatchLive(h, e, rank) == Terminate(h, OfferAll(h, e, rank), e, rank)

\* What every caller of append_log does next: deliver the event, and the warning that
\* history was lost, if that happened now, while appending or while delivering.
AfterDispatch(appended, h, e, rank) ==
  IF ~appended.overflowed /\ h.overflowed
  THEN DispatchLive(Warn(h, FALSE, rank), Event(e.id + 1, 0), rank)
  ELSE h

AfterAppend(before, h, e, rank) ==
  IF ~before.overflowed /\ h.overflowed
  THEN DispatchLive(DispatchLive(Warn(h, TRUE, rank), e, rank), Event(e.id + 1, 0), rank)
  ELSE AfterDispatch(h, DispatchLive(h, e, rank), e, rank)

EmitEvent(h, e, replaced, rank) ==
  AfterAppend(h, AppendLog(h, e, replaced, rank), e, rank)

Emit(h, payload, replaced, rank) == EmitEvent(h, Event(h.next, payload), replaced, rank)

\* flush_capture_locked
Flush(h, rank) ==
  IF h.pending = 0 THEN h ELSE Emit([h EXCEPT !.pending = 0], h.pending, h.pending, rank)

\* push_capture, once room was made for the row: it joins the batch, which may be full then,
\* or is published by itself.
AddRow(h, rank) ==
  IF ~Fits(h, 1) THEN Emit(Flush(TerminateSlowest(h, rank), rank), 1, 0, rank)
  ELSE IF h.pending + 1 < BatchSize THEN [h EXCEPT !.bytes = @ + 1, !.pending = @ + 1]
  ELSE Flush([h EXCEPT !.bytes = @ + 1, !.pending = @ + 1], rank)

\* push_capture; turned: the row is of another epoch than the pending ones.
Push(h, turned, rank) ==
  AddRow(MakeRoom(IF turned THEN Flush(h, rank) ELSE h, 1), rank)

Ranks == {r \in [Subs -> 1..Cardinality(Subs)] : \A s, t \in Subs : r[s] = r[t] => s = t}

\* Bound: ids are given until MaxId.
Open == hub.next <= MaxId

Publish ==
  /\ Open
  /\ \E payload \in Payloads, rank \in Ranks : hub' = Emit(hub, payload, 0, rank)
  /\ UNCHANGED <<room, pump>>

PushCapture ==
  /\ Open
  /\ \E turned \in BOOLEAN, rank \in Ranks : hub' = Push(hub, turned, rank)
  /\ UNCHANGED <<room, pump>>

\* flush_due of the 100 ms clock, flush_capture at its end
FlushDue ==
  /\ hub.pending > 0
  /\ \E rank \in Ranks : hub' = Flush(hub, rank)
  /\ UNCHANGED <<room, pump>>
-------------------------------------------------------------------------------
(***************************************************************************)
(* Capacity.                                                               *)
(***************************************************************************)
\* Sessions take or return memory, or the limit changes: never below what events hold.
SessionBytes ==
  /\ room' \in Rooms \ {room}
  /\ hub.bytes <= room'
  /\ UNCHANGED <<hub, pump>>

\* reclaim_for_limit: when history and failures are not enough, every subscriber goes.
ReclaimForLimit ==
  /\ \E target \in Rooms \ {room} :
       LET shed == ShedUntil(hub, target)
       IN  /\ target < hub.bytes
           /\ hub' = IF shed.bytes <= target THEN shed
                     ELSE [shed EXCEPT !.live = {}, !.cancelled = @ \cup shed.live]
  /\ UNCHANGED <<room, pump>>
-------------------------------------------------------------------------------
(***************************************************************************)
(* A subscription: the command drains the replay, the pump follows the     *)
(* live queue.                                                             *)
(***************************************************************************)
OldestId == IF hub.retained = <<>> THEN hub.next ELSE hub.retained[1].id

EventsAfter(log, id) == Among(log, {e \in Range(log) : e.id > id})

\* subscribe; a refused command leaves what it reclaimed behind.
Subscribe(s) ==
  /\ pc[s] = "none"
  /\ \E after \in 0..(hub.next - 1) :
       LET missed == EventsAfter(hub.retained, after)
           stale == after + 1 < OldestId
       IN  /\ stale \/ Cardinality(hub.live) < MaxSubscribers
           /\ IF ~stale /\ Fits(hub, SumBytes(missed))
              THEN /\ hub' = [hub EXCEPT !.bytes = @ + SumBytes(missed), !.live = @ \cup {s}]
                   /\ replay' = [replay EXCEPT ![s] = missed]
                   /\ pc' = [pc EXCEPT ![s] = "replay"]
              ELSE IF Fits(MakeRoom(hub, 1), 1)
              THEN /\ hub' = [MakeRoom(hub, 1) EXCEPT !.bytes = @ + 1]
                   /\ replay' = [replay EXCEPT ![s] = <<Snapshot(hub.next - 1)>>]
                   /\ pc' = [pc EXCEPT ![s] = "replay"]
              ELSE /\ hub' = MakeRoom(hub, 1)
                   /\ UNCHANGED <<replay, pc>>
           /\ cursor' = IF pc' = pc THEN cursor ELSE [cursor EXCEPT ![s] = after]
  /\ UNCHANGED <<room, told, quit, deaf>>

\* What the front end has once e was sent to it.
Deliver(s, e) ==
  IF s \in deaf THEN UNCHANGED <<cursor, told>>
  ELSE IF e.snapshot THEN told' = [told EXCEPT ![s] = @ + 1] /\ UNCHANGED cursor
  ELSE cursor' = [cursor EXCEPT ![s] = e.id] /\ UNCHANGED told

\* drain_with: an event is accounted for until it was sent; a failed send ends the command,
\* which releases the rest and drops the receiver.
SendReplay(s) ==
  /\ pc[s] = "replay" /\ replay[s] # <<>>
  /\ Deliver(s, Head(replay[s]))
  /\ IF s \in deaf
     THEN /\ hub' = Release(hub, SumBytes(replay[s]))
          /\ replay' = [replay EXCEPT ![s] = <<>>]
          /\ pc' = [pc EXCEPT ![s] = "drop"]
     ELSE /\ hub' = Release(hub, Head(replay[s]).bytes)
          /\ replay' = [replay EXCEPT ![s] = Tail(@)]
          /\ UNCHANGED pc
  /\ UNCHANGED <<room, quit, deaf>>

StartPump(s) ==
  /\ pc[s] = "replay" /\ replay[s] = <<>>
  /\ pc' = [pc EXCEPT ![s] = "live"]
  /\ UNCHANGED <<hub, room, replay, cursor, told, quit, deaf>>

\* recv, as long as it is not cancelled
Recv(s) ==
  /\ pc[s] = "live" /\ s \notin hub.cancelled /\ hub.queue[s] # <<>>
  /\ LET e == Head(hub.queue[s])
     IN  /\ hub' = [Release(hub, e.bytes) EXCEPT !.queue[s] = Tail(@), !.queued[s] = @ - e.bytes]
         /\ Deliver(s, e)
  /\ pc' = [pc EXCEPT ![s] = IF s \in deaf THEN "failure" ELSE "live"]
  /\ UNCHANGED <<room, replay, quit, deaf>>

\* recv, cancelled with snapshot_required_on_cancel: discard_queued_events, then SnapshotRequired
RecvSnapshot(s) ==
  /\ pc[s] = "live" /\ s \in hub.cancelled /\ hub.owed[s] # None
  /\ hub' = [Release(hub, hub.queued[s]) EXCEPT
               !.queue[s] = <<>>, !.queued[s] = 0, !.owed[s] = None]
  /\ Deliver(s, Snapshot(hub.owed[s]))
  /\ UNCHANGED <<room, pc, replay, quit, deaf>>

\* recv returns None: cancelled, or never registered and so without a sender
RecvNone(s) ==
  /\ pc[s] = "live"
  /\ \/ s \in hub.cancelled /\ hub.owed[s] = None
     \/ s \notin hub.cancelled /\ s \notin hub.live /\ hub.queue[s] = <<>>
  /\ pc' = [pc EXCEPT ![s] = "failure"]
  /\ UNCHANGED <<hub, room, replay, cursor, told, quit, deaf>>

\* take_subscription_failure; remove_subscription_failures releases all of a subscription.
FailuresOfOthers(failures, s) == Among(failures, {f \in Range(failures) : f.sub # s})

WithoutFailures(h, s) ==
  LET rest == FailuresOfOthers(h.failures, s)
  IN  [Release(h, FailureBytes * (Len(h.failures) - Len(rest))) EXCEPT !.failures = rest]

TakeFailure(s) ==
  /\ pc[s] = "failure"
  /\ hub' = WithoutFailures(hub, s)
  /\ IF \E i \in DOMAIN hub.failures : hub.failures[i].sub = s
     THEN Deliver(s, Snapshot(hub.next - 1)) ELSE UNCHANGED <<cursor, told>>
  /\ pc' = [pc EXCEPT ![s] = "unsubscribe"]
  /\ UNCHANGED <<room, replay, quit, deaf>>

Unsubscribe(s) ==
  /\ pc[s] = "unsubscribe"
  /\ hub' = RemoveSubscriber(hub, s)
  /\ pc' = [pc EXCEPT ![s] = "drop"]
  /\ UNCHANGED <<room, replay, cursor, told, quit, deaf>>

\* The receiver's drop releases what the counter holds, then waits for the state lock.
DropReceiver(s) ==
  /\ pc[s] = "drop"
  /\ hub' = [Release(hub, hub.queued[s]) EXCEPT !.cancelled = @ \cup {s}, !.queued[s] = 0]
  /\ pc' = [pc EXCEPT ![s] = "dropping"]
  /\ UNCHANGED <<room, replay, cursor, told, quit, deaf>>

FinishDrop(s) ==
  /\ pc[s] = "dropping"
  /\ hub' = [WithoutFailures(RemoveSubscriber(hub, s), s) EXCEPT !.queue[s] = <<>>]
  /\ pc' = [pc EXCEPT ![s] = "gone"]
  /\ UNCHANGED <<room, replay, cursor, told, quit, deaf>>

\* app_unsubscribe_events, once the front end has the subscription's id: without a subscriber
\* to remove it does nothing.
Quit(s) ==
  /\ pc[s] # "replay" /\ s \in hub.live
  /\ hub' = RemoveSubscriber(hub, s)
  /\ quit' = quit \cup {s}
  /\ UNCHANGED <<room, pc, replay, cursor, told, deaf>>

\* The front end's side of the channel closes.
HangUp(s) ==
  /\ pc[s] \in {"replay", "live"}
  /\ s \notin deaf
  /\ deaf' = deaf \cup {s}
  /\ UNCHANGED <<hub, room, pc, replay, cursor, told, quit>>

Next ==
  \/ Publish \/ PushCapture \/ FlushDue \/ SessionBytes \/ ReclaimForLimit
  \/ \E s \in Subs :
       \/ Subscribe(s) \/ SendReplay(s) \/ StartPump(s)
       \/ Recv(s) \/ RecvSnapshot(s) \/ RecvNone(s)
       \/ TakeFailure(s) \/ Unsubscribe(s) \/ DropReceiver(s) \/ FinishDrop(s)
       \/ Quit(s) \/ HangUp(s)

Spec == Init /\ [][Next]_vars
-------------------------------------------------------------------------------
(***************************************************************************)
(* Properties.                                                             *)
(***************************************************************************)
\* The ledger counts every byte the hub and its receivers hold, once, and never more than
\* the room there is: however reservations, reclamation, the early end of a subscription,
\* deliveries and drops interleave.
LedgerExact ==
  /\ hub.bytes = SumBytes(hub.retained) + hub.pending + FailureBytes * Len(hub.failures)
                 + SumFunction(hub.queued) + SumFunction([s \in Subs |-> SumBytes(replay[s])])
  /\ hub.bytes <= room
  /\ \A s \in Subs : pc[s] # "dropping" /\ pc[s] # "gone" => hub.queued[s] = SumBytes(hub.queue[s])

\* The replay log is the tail of the history: without a hole, ending with the last event.
\* A log that misses an event would replay around it, and no cursor would be found stale.
RetainedIsTail ==
  \A i \in DOMAIN hub.retained :
    hub.retained[i].id = hub.next - 1 - (Len(hub.retained) - i)

\* What a registered subscriber has, is being replayed and has queued are all the events
\* after its cursor, each once and in order, up to the last one: none is lost or doubled
\* between the replay boundary and the registration, or when a delivery fails.
NothingMissed ==
  RetainedIsTail /\ \A s \in hub.live \ deaf :
    LET coming == replay[s] \o hub.queue[s]
    IN  /\ \A i \in DOMAIN coming : coming[i].id = cursor[s] + i
        /\ pc[s] \in {"replay", "live"} => cursor[s] + Len(coming) = hub.next - 1

\* SnapshotRequired is the last word of a subscription: it comes once, and no event after it.
LastWord ==
  [][\A s \in Subs : told[s] > 0 => told'[s] = told[s] /\ cursor'[s] = cursor[s]]_vars

\* docs/requirements.md:1364 says a subscription that capacity ends is sent, or has recorded
\* for it, SnapshotRequired: a pump that ends although the front end neither cancelled nor
\* hung up has told the front end to take a new snapshot.
EndsAreExplained ==
  \A s \in Subs : pc[s] = "drop" /\ s \notin quit \cup deaf => told[s] > 0

\* docs/requirements.md:1364 says every way a subscription ends frees its bytes: a receiver
\* that is gone holds none.
DropFreesBytes == \A s \in Subs : pc[s] = "gone" => hub.queued[s] = 0
================================================================================
