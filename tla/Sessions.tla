------------------------------- MODULE Sessions -------------------------------
(***************************************************************************)
(* The session store (crates/application/src/sessions.rs), the byte ledger *)
(* it shares with the event hub (capacity.rs) and the connections that     *)
(* write it (begin_session, update_live_session and finish_session of      *)
(* crates/infrastructure/src/adapters/pipeline.rs).                        *)
(*                                                                         *)
(* upsert copies the limits, then takes the state lock, inserts and plans  *)
(* evictions; each question to the ledger is a step of its own, because    *)
(* the event hub reserves and releases bytes between them.  set_limits     *)
(* keeps both locks.  A record is reduced to its logical bytes, the order  *)
(* of its completion and whether a breakpoint holds it; queries only read. *)
(***************************************************************************)
EXTENDS Integers, FiniteSets, FiniteSetsExt

CONSTANTS Sessions,  (* session ids; each belongs to one connection          *)
          Sizes,     (* logical_bytes a record or an event can have          *)
          Counts,    (* max_sessions a setting can ask for                   *)
          Limits,    (* max_memory_bytes a setting can ask for               *)
          Settings,  (* the caller of set_limits, as holder of the lock      *)
          None       (* the absent value of every Option                     *)

\* done = 0 while completed_at is None.
Records == [bytes : Sizes, done : Nat, paused : BOOLEAN]

ASSUME SessionsAssumption ==
  /\ Sizes \subseteq Nat \ {0} /\ Counts \subseteq Nat \ {0} /\ Limits \subseteq Nat \ {0}
  /\ Counts # {} /\ Limits # {}
  /\ IsFiniteSet(Sessions)
  /\ Settings \notin Sessions /\ None \notin Sessions \cup {Settings} \cup Records

VARIABLES
  maxSessions,   (* CapacityLimits.max_sessions                              *)
  rec,           (* StoreState.records                                       *)
  recordBytes,   (* StoreState.record_bytes                                  *)
  holder,        (* who plans evictions under the state lock                 *)
  previous,      (* what its upsert replaced                                 *)
  plan,          (* the evictions it has planned so far                      *)
  wanted,        (* the limits set_limits was called with                    *)
  limit, sessionBytes, eventBytes,   (* CapacityState                        *)
  pc,            (* what the connection of each session does                 *)
  job, seen,     (* the record it writes, the max_sessions it has copied     *)
  completions    (* sessions completed so far: the clock of completed_at     *)

store  == <<maxSessions, rec, recordBytes>>
lock   == <<holder, previous, plan, wanted>>
ledger == <<limit, sessionBytes, eventBytes>>
conns  == <<pc, job, seen, completions>>
vars   == <<store, lock, ledger, conns>>

Pcs == {"new", "begin", "live", "update", "failing", "finish", "closed", "aborted"}

TypeOK ==
  /\ maxSessions \in Counts
  /\ rec \in [Sessions -> Records \cup {None}]
  /\ recordBytes \in Nat
  /\ holder \in Sessions \cup {Settings, None}
  /\ previous \in Records \cup {None}
  /\ plan \subseteq Sessions
  /\ wanted \in [count : Counts, bytes : Limits] \cup {None}
  /\ limit \in Limits /\ sessionBytes \in Nat /\ eventBytes \in Nat
  /\ pc \in [Sessions -> Pcs]
  /\ job \in [Sessions -> Records \cup {None}]
  /\ seen \in [Sessions -> Counts \cup {None}]
  /\ completions \in Nat

Init ==
  /\ maxSessions \in Counts
  /\ rec = [s \in Sessions |-> None] /\ recordBytes = 0
  /\ holder = None /\ previous = None /\ plan = {} /\ wanted = None
  /\ limit \in Limits /\ sessionBytes = 0 /\ eventBytes = 0
  /\ pc = [s \in Sessions |-> "new"]
  /\ job = [s \in Sessions |-> None]
  /\ seen = [s \in Sessions |-> None]
  /\ completions = 0
-------------------------------------------------------------------------------
(***************************************************************************)
(* Helpers.                                                                *)
(***************************************************************************)
Stored == {s \in Sessions : rec[s] # None}
BytesOf(r) == IF r = None THEN 0 ELSE r.bytes
Total(S) == MapThenSumSet(LAMBDA s : BytesOf(rec[s]), S)

\* What eviction_plan compares: the records that would be left, and the limits in force.
Left == Stored \ plan
LeftBytes == recordBytes - Total(plan)
CountLimit == IF holder = Settings THEN wanted.count ELSE seen[holder]
ByteLimit == IF holder = Settings THEN wanted.bytes ELSE limit
Fits == Cardinality(Left) <= CountLimit /\ LeftBytes + eventBytes <= ByteLimit
-------------------------------------------------------------------------------
(***************************************************************************)
(* Seeded faults: what the definition each is named after would be with a  *)
(* bug.  The properties are checked to tell them apart; no specification   *)
(* uses them.                                                              *)
(***************************************************************************)
\* A session that is being processed may be evicted as long as no breakpoint holds it.
VictimsFault == {s \in Left : s # holder /\ ~rec[s].paused}

\* The refused record leaves, the one it replaced is forgotten.
PutBackFault(s) ==
  /\ rec' = [rec EXCEPT ![s] = previous]
  /\ recordBytes' = recordBytes - BytesOf(rec[s])

-------------------------------------------------------------------------------
(***************************************************************************)
(* The connections.                                                        *)
(***************************************************************************)
\* upsert, its first line: the limits are copied, and not looked at again.
Upsert(s, r, to) ==
  /\ holder # Settings
  /\ job' = [job EXCEPT ![s] = r]
  /\ seen' = [seen EXCEPT ![s] = maxSessions]
  /\ pc' = [pc EXCEPT ![s] = to]
  /\ UNCHANGED <<store, lock, ledger>>

Begin(s) ==
  /\ pc[s] = "new"
  /\ \E b \in Sizes : Upsert(s, [bytes |-> b, done |-> 0, paused |-> FALSE], "begin")
  /\ UNCHANGED completions

\* The request or the response was rewritten, a breakpoint holds it, or lets it go.
Update(s) ==
  /\ pc[s] = "live"
  /\ \E b \in Sizes, p \in BOOLEAN :
       Upsert(s, [bytes |-> b, done |-> 0, paused |-> p], "update")
  /\ UNCHANGED completions

\* connection_closed; the live session is forgotten before its record is written.
Finish(s) ==
  /\ pc[s] \in {"live", "failing"}
  /\ completions' = completions + 1
  /\ \E b \in Sizes :
       Upsert(s, [bytes |-> b, done |-> completions + 1, paused |-> FALSE], "finish")

\* The task is aborted at an await: connection_closed never runs.
Abort(s) ==
  /\ pc[s] = "live"
  /\ pc' = [pc EXCEPT ![s] = "aborted"]
  /\ UNCHANGED <<store, lock, ledger, job, seen, completions>>
-------------------------------------------------------------------------------
(***************************************************************************)
(* eviction_plan, for upsert and for set_limits.                           *)
(***************************************************************************)
\* A completed session that no breakpoint holds and that is not the one being written.
Victims == {s \in Left : s # holder /\ rec[s].done > 0 /\ ~rec[s].paused}

Oldest(S) == {s \in S : \A t \in S : rec[s].done <= rec[t].done}

Release ==
  /\ holder' = None /\ previous' = None /\ plan' = {} /\ wanted' = None

\* upsert under the state lock: the new record replaces the old one.
Insert(s) ==
  /\ pc[s] \in {"begin", "update", "finish"} /\ holder = None
  /\ holder' = s
  /\ previous' = rec[s]
  /\ rec' = [rec EXCEPT ![s] = job[s]]
  /\ recordBytes' = recordBytes - BytesOf(rec[s]) + BytesOf(job[s])
  /\ UNCHANGED <<maxSessions, plan, wanted, ledger, conns>>

\* set_limits with both locks.
SetLimits ==
  /\ holder = None
  /\ holder' = Settings
  /\ wanted' \in [count : Counts, bytes : Limits]
  /\ UNCHANGED <<store, previous, plan, ledger, conns>>

\* Too many sessions, or the ledger said no: one more has to go.
PlanEviction ==
  /\ holder # None /\ ~Fits
  /\ \E s \in Oldest(Victims) : plan' = plan \cup {s}
  /\ UNCHANGED <<store, holder, previous, wanted, ledger, conns>>

\* The ledger said yes: apply_evictions.
Evict ==
  /\ Fits
  /\ rec' = [s \in Sessions |-> IF s \in plan THEN None ELSE rec[s]]
  /\ recordBytes' = LeftBytes
  /\ sessionBytes' = LeftBytes
  /\ limit' = ByteLimit
  /\ Release
  /\ UNCHANGED eventBytes

Return(s, to) ==
  /\ pc' = [pc EXCEPT ![s] = IF @ = "finish" THEN "closed" ELSE to]
  /\ job' = [job EXCEPT ![s] = None]
  /\ seen' = [seen EXCEPT ![s] = None]
  /\ UNCHANGED completions

Upserted(s) ==
  /\ holder = s
  /\ Evict
  /\ Return(s, "live")
  /\ UNCHANGED maxSessions

LimitsSet ==
  /\ holder = Settings
  /\ Evict
  /\ maxSessions' = wanted.count
  /\ UNCHANGED conns

PutBack(s) ==
  /\ rec' = [rec EXCEPT ![s] = previous]
  /\ recordBytes' = recordBytes - BytesOf(rec[s]) + BytesOf(previous)

\* RESOURCE_EXHAUSTED: the store is as it was; a request that had begun fails.
Refused(s) ==
  /\ holder = s
  /\ ~Fits /\ Victims = {}
  /\ PutBack(s)
  /\ Release
  /\ Return(s, IF pc[s] = "begin" THEN "closed" ELSE "failing")
  /\ UNCHANGED <<maxSessions, ledger>>

LimitsRefused ==
  /\ holder = Settings
  /\ ~Fits /\ Victims = {}
  /\ Release
  /\ UNCHANGED <<store, ledger, conns>>

\* clear_completed.
Cleared == {s \in Stored : rec[s].done > 0 /\ ~rec[s].paused}

ClearCompleted ==
  /\ holder = None
  /\ rec' = [s \in Sessions |-> IF s \in Cleared THEN None ELSE rec[s]]
  /\ recordBytes' = Total(Stored \ Cleared)
  /\ sessionBytes' = IF recordBytes' + eventBytes <= limit THEN recordBytes'
                     ELSE sessionBytes
  /\ UNCHANGED <<maxSessions, lock, limit, eventBytes, conns>>
-------------------------------------------------------------------------------
(***************************************************************************)
(* The event hub's side of the ledger, whatever it stores there.           *)
(***************************************************************************)
ReserveEvents(bytes) ==
  /\ sessionBytes + eventBytes + bytes <= limit
  /\ eventBytes' = eventBytes + bytes
  /\ UNCHANGED <<store, lock, limit, sessionBytes, conns>>

\* Capture rows become one envelope: the reservation is transferred in one step.
ReplaceEvents(current, replacement) ==
  /\ current <= eventBytes
  /\ sessionBytes + eventBytes - current + replacement <= limit
  /\ eventBytes' = eventBytes - current + replacement
  /\ UNCHANGED <<store, lock, limit, sessionBytes, conns>>

ReleaseEvents(bytes) ==
  /\ bytes <= eventBytes
  /\ eventBytes' = eventBytes - bytes
  /\ UNCHANGED <<store, lock, limit, sessionBytes, conns>>

EventStep ==
  \/ \E b \in Sizes : ReserveEvents(b) \/ ReleaseEvents(b)
  \/ \E b, c \in Sizes : ReplaceEvents(b, c)
-------------------------------------------------------------------------------
SessionStep(s) ==
  \/ Begin(s) \/ Update(s) \/ Finish(s) \/ Abort(s)
  \/ Insert(s) \/ Upserted(s) \/ Refused(s)

Next ==
  \/ \E s \in Sessions : SessionStep(s)
  \/ SetLimits \/ PlanEviction \/ LimitsSet \/ LimitsRefused
  \/ ClearCompleted
  \/ EventStep

Spec == Init /\ [][Next]_vars
-------------------------------------------------------------------------------
(***************************************************************************)
(* Properties.                                                             *)
(***************************************************************************)
\* Sessions and events together never exceed the memory limit, the moment the limit is
\* lowered and the moment capture rows turn into an event included.
WithinLimit == sessionBytes + eventBytes <= limit

\* The ledger accounts for exactly the records in the store: an upsert that is undecided
\* counts with what it replaced, and one that was refused has left no trace.
LedgerAgrees ==
  sessionBytes = Total(Stored \ {holder}) +
                 (IF holder \in Sessions THEN BytesOf(previous) ELSE 0)

\* Only a completed session that no breakpoint holds leaves the store, or one that was
\* never admitted; and eviction spares no older completed session for a newer one.
OldestFinishedLeave ==
  [][\A s \in Sessions : rec[s] # None /\ rec'[s] = None =>
       /\ (rec[s].done > 0 /\ ~rec[s].paused) \/ pc[s] = "begin"
       /\ pc[s] # "begin" =>
            \A t \in Sessions \ {holder} :
              rec'[t] # None => rec'[t].done = 0 \/ rec[s].done < rec'[t].done]_vars

\* A connection that is still served finds its session in the store, not completed.
LiveIsStored ==
  \A s \in Sessions :
    pc[s] \in {"live", "update", "failing"} \/ (pc[s] = "finish" /\ holder # s) =>
      rec[s] # None /\ rec[s].done = 0

\* The ledger is exact and within its limit, and eviction never takes the session of a
\* connection that is still served.
StoreIsSound == WithinLimit /\ LedgerAgrees /\ LiveIsStored

\* The store holds no more sessions than the limit in force allows (requirements
\* DATA-007; sessions.rs:35), whenever nobody is inside it.
WithinCount == holder = None => Cardinality(Stored) <= maxSessions

\* A session whose connection has been closed shows how it ended (DATA-006), or is gone.
ClosedIsCompleted ==
  \A s \in Sessions : pc[s] = "closed" /\ rec[s] # None => rec[s].done > 0
================================================================================
