------------------------------ MODULE RuleProofs ------------------------------
(***************************************************************************)
(* Proofs about RuleRuntime, for any rules, terminals, connections, runs,  *)
(* files and bounds: what an evaluation counts and matches, what an edit   *)
(* writes, and what a run starts with.  CountedOnce and RunStartsClean     *)
(* need that evaluations are joined (~Overrun); EditsKept, OneShotOnce and *)
(* NeverStale hold without it.                                             *)
(***************************************************************************)
EXTENDS RuleRuntime, FiniteSetTheorems, TLAPS

-----------------------------------------------------------------------------
(* The inductive invariant. *)

\* The runtime lock and the epoch lock have one holder each, and whoever holds the runtime
\* lock has a runtime.
LockInv ==
    /\ \A c, d \in Conns : pc[c] = "commit" /\ pc[d] = "commit" => c = d
    /\ \A c, d \in Conns : pc[c] = "resetting" /\ pc[d] = "resetting" => c = d
    /\ (\E c \in Conns : pc[c] = "commit") => runtime # Nothing

\* The snapshot is of the past; at the revision of the table it is the table.
SyncInv ==
    runtime # Nothing =>
        /\ runtime.coll <= db.coll
        /\ runtime.coll = db.coll => runtime.rows = db.rows

\* Every evaluation is one of the current run, and works with a runtime of it.
EpochInv ==
    /\ \A c \in Conns : pc[c] # "idle" => msg[c].epoch = current.epoch
    /\ current.stage = "stopped" => \A c \in Conns : pc[c] = "idle"
    /\ epoch # Nothing => epoch <= current.epoch
    /\ runtime # Nothing => runtime.epoch <= current.epoch
    /\ (\/ epoch = current.epoch
        \/ \E c \in Conns : pc[c] \in {"evaluate", "commit"}) =>
          (runtime # Nothing => runtime.epoch = current.epoch)

\* What RULE-007 makes the engine forget, it has not counted since: a rule that the next
\* snapshot resets was edited so after the last one.
CountInv ==
    /\ runtime = Nothing => \A r \in Rules, t \in Terminals : seen[r][t] = 0
    /\ \A r \in recounted, t \in Terminals : seen[r][t] = 0
    /\ runtime # Nothing =>
          \A r \in Rules \ recounted : db.rows[r] # Absent => Kept(runtime.rows, db.rows, r)
    /\ CountedOnce

\* The messages of the run whose evaluation is over.
Busy == {c \in Conns : pc[c] # "idle"}
Done == current.arrived - Cardinality(Busy)

\* Neither a hit nor a count exceeds them.
CleanHits(rows) ==
    \A r \in Rules : rows[r] # Absent => rows[r].hits <= Done + current.brought[r]

CleanInv ==
    /\ IsFiniteSet(Busy)
    /\ Done >= 0
    /\ (\/ epoch = current.epoch
        \/ \E c \in Conns : pc[c] \in {"resetting", "evaluate", "commit"}) =>
          CleanHits(db.rows)
    /\ (\E c \in Conns : pc[c] = "commit") => CleanHits(runtime.rows)
    /\ runtime # Nothing /\ runtime.epoch = current.epoch =>
          \A r \in Rules, t \in Terminals : runtime.counters[r][t] <= Done

-----------------------------------------------------------------------------
(* What a step may do to the table, to the runtime and to the ghosts. *)

Quiet == UNCHANGED <<db, runtime, seen, total, wanted, fired, recounted>>

HitsCleared ==
    /\ db' = ResetHits(db)
    /\ UNCHANGED <<runtime, seen, total, wanted, fired, recounted>>

Dropped ==
    /\ runtime' = Nothing /\ seen' = Forget /\ total' = Forget
    /\ UNCHANGED <<db, wanted, fired, recounted>>

\* An edit leaves a rule the hits it had, or fewer, or those of a file.
Edited ==
    \E new \in Database :
        /\ new.coll = db.coll + 1
        /\ db' = new /\ Recount(db.rows, new.rows)
        /\ UNCHANGED <<runtime, total>>
        /\ \A r \in Rules : new.rows[r] # Absent =>
              \/ new.rows[r].hits <= current'.brought[r]
              \/ db.rows[r] # Absent /\ new.rows[r].hits <= db.rows[r].hits

DataStep ==
    \/ Quiet \/ HitsCleared \/ Dropped \/ Edited
    \/ \E c \in Conns : TakeSnapshot(c) \/ EvaluateNoMatch(c) \/ Commit(c)

-----------------------------------------------------------------------------
(* The operators of the engine and of the store. *)

LEMMA Zeroes == NoCounters \in Counters /\ NoHits \in [Rules -> Nat]
BY DEF NoCounters, Counters, NoHits

LEMMA PresentRow ==
    ASSUME NEW rows \in Table, NEW r \in Rules, rows[r] # Absent
    PROVE  rows[r] \in Row
BY DEF Table

\* A hit changes three fields of a row.
LEMMA HitRow ==
    ASSUME NEW row \in Row
    PROVE  /\ Hit(row) \in Row
           /\ Hit(row).hits = row.hits + 1
           /\ Hit(row).enabled = (row.enabled /\ ~row.oneShot)
           /\ Hit(row).nth = row.nth
           /\ Hit(row).oneShot = row.oneShot
           /\ Hit(row).terminal = row.terminal
           /\ Hit(row).priority = row.priority
           /\ Hit(row).rev \in Nat
<1> DEFINE e == row.enabled /\ ~row.oneShot
           v == IF row.oneShot THEN row.rev + 1 ELSE row.rev
<1>1. e \in BOOLEAN OBVIOUS
<1>2. v \in Nat BY DEF Row
<1>3. Hit(row) = [row EXCEPT !.hits = row.hits + 1, !.enabled = e, !.rev = v]
  BY DEF Hit, Row
<1> HIDE DEF e, v
<1>4. Hit(row) \in Row
  <2>1. Hit(row) = [rev |-> v, enabled |-> e, nth |-> row.nth, oneShot |-> row.oneShot,
                    terminal |-> row.terminal, priority |-> row.priority,
                    hits |-> row.hits + 1]
    BY <1>3 DEF Row
  <2>2. /\ row.nth \in Nat /\ row.oneShot \in BOOLEAN /\ row.terminal \in BOOLEAN
        /\ row.priority \in Nat /\ row.hits + 1 \in Nat
    BY DEF Row
  <2> QED BY <1>1, <1>2, <2>1, <2>2 DEF Row
<1>5. /\ Hit(row).hits = row.hits + 1
      /\ Hit(row).enabled = e
      /\ Hit(row).nth = row.nth
      /\ Hit(row).oneShot = row.oneShot
      /\ Hit(row).terminal = row.terminal
      /\ Hit(row).priority = row.priority
      /\ Hit(row).rev = v
  BY <1>3 DEF Row
<1> QED BY <1>2, <1>3, <1>4, <1>5 DEF e

LEMMA RowNotAbsent == Absent \notin Row
BY RulesAssumption

LEMMA HitTable ==
    ASSUME NEW rows \in Table, NEW matched \in SUBSET Present(rows)
    PROVE  /\ AfterHits(rows, matched) \in Table
           /\ \A r \in Rules : AfterHits(rows, matched)[r] = Absent <=> rows[r] = Absent
<1>1. ASSUME NEW r \in Rules
      PROVE  /\ AfterHits(rows, matched)[r] \in Row \cup {Absent}
             /\ AfterHits(rows, matched)[r] = Absent <=> rows[r] = Absent
  <2>1. CASE r \in matched
    <3>1. rows[r] \in Row /\ rows[r] # Absent BY <2>1, PresentRow DEF Present
    <3> QED BY <2>1, <3>1, HitRow, RowNotAbsent DEF AfterHits
  <2>2. CASE r \notin matched BY <2>2 DEF AfterHits, Table
  <2> QED BY <2>1, <2>2
<1> QED BY <1>1 DEF AfterHits, Table

\* What the transaction that resets the hits leaves of each row.
LEMMA ResetRows ==
    ASSUME NEW d \in Database
    PROVE  /\ ResetHits(d) \in Database
           /\ ResetHits(d).coll = d.coll + 1
           /\ \A r \in Rules :
                 /\ ResetHits(d).rows[r] = Absent <=> d.rows[r] = Absent
                 /\ d.rows[r] # Absent =>
                       /\ ResetHits(d).rows[r].hits = 0
                       /\ ResetHits(d).rows[r].nth = d.rows[r].nth
                       /\ ResetHits(d).rows[r].enabled = d.rows[r].enabled
                       /\ ResetHits(d).rows[r].oneShot = d.rows[r].oneShot
                       /\ DraftOf(ResetHits(d).rows[r]) = DraftOf(d.rows[r])
<1> DEFINE clear == [r \in Rules |-> IF d.rows[r] = Absent THEN Absent
                                     ELSE [d.rows[r] EXCEPT !.hits = 0]]
           new == [r \in Rules |->
                     IF clear[r] = Absent THEN d.rows[r]
                     ELSE [d.rows[r] EXCEPT !.hits = clear[r].hits,
                                            !.rev = clear[r].rev,
                                            !.enabled = clear[r].enabled]]
<1>1. ResetHits(d) = [coll |-> d.coll + 1, rows |-> new] BY DEF ResetHits, CommitRuntime
<1>2. d.rows \in Table /\ d.coll \in Nat BY DEF Database
<1>3. ASSUME NEW r \in Rules, d.rows[r] = Absent PROVE new[r] = Absent
  BY <1>3
<1>4. ASSUME NEW r \in Rules, d.rows[r] # Absent
      PROVE  /\ new[r] = [d.rows[r] EXCEPT !.hits = 0]
             /\ new[r] \in Row
  <2>1. d.rows[r] \in Row BY <1>2, <1>4, PresentRow
  <2>2. clear[r] = [d.rows[r] EXCEPT !.hits = 0] BY <1>4
  <2>3. [d.rows[r] EXCEPT !.hits = 0] \in Row BY <2>1 DEF Row
  <2>4. clear[r] # Absent BY <2>2, <2>3, RowNotAbsent
  <2>5. new[r] = [d.rows[r] EXCEPT !.hits = clear[r].hits, !.rev = clear[r].rev,
                                   !.enabled = clear[r].enabled]
    BY <2>4
  <2>6. clear[r].hits = 0 /\ clear[r].rev = d.rows[r].rev
        /\ clear[r].enabled = d.rows[r].enabled
    BY <2>1, <2>2 DEF Row
  <2>7. [d.rows[r] EXCEPT !.hits = 0, !.rev = d.rows[r].rev, !.enabled = d.rows[r].enabled]
        = [d.rows[r] EXCEPT !.hits = 0]
    BY <2>1 DEF Row
  <2> QED BY <2>3, <2>5, <2>6, <2>7
<1>5. new \in Table BY <1>3, <1>4 DEF Table
<1> HIDE DEF new
<1>6. ASSUME NEW r \in Rules, d.rows[r] # Absent
      PROVE  /\ new[r].hits = 0
             /\ new[r].nth = d.rows[r].nth
             /\ new[r].enabled = d.rows[r].enabled
             /\ new[r].oneShot = d.rows[r].oneShot
             /\ DraftOf(new[r]) = DraftOf(d.rows[r])
  <2>1. d.rows[r] \in Row BY <1>2, <1>6, PresentRow
  <2>2. new[r] = [d.rows[r] EXCEPT !.hits = 0] BY <1>4, <1>6
  <2>3. /\ new[r].enabled = d.rows[r].enabled
        /\ new[r].nth = d.rows[r].nth
        /\ new[r].oneShot = d.rows[r].oneShot
        /\ new[r].terminal = d.rows[r].terminal
        /\ new[r].priority = d.rows[r].priority
        /\ new[r].hits = 0
    BY <2>1, <2>2 DEF Row
  <2> QED BY <2>3 DEF DraftOf
<1>7. \A r \in Rules : new[r] = Absent <=> d.rows[r] = Absent
  BY <1>3, <1>4, RowNotAbsent
<1>8. [coll |-> d.coll + 1, rows |-> new] \in Database BY <1>2, <1>5 DEF Database
<1> QED BY <1>1, <1>6, <1>7, <1>8

LEMMA SavedRow ==
    ASSUME NEW row \in Row, NEW draft \in Drafts
    PROVE  /\ Saved(row, draft) \in Row
           /\ Saved(row, draft).hits <= row.hits
BY DEF Saved, Row, Drafts

LEMMA DraftOfRow ==
    ASSUME NEW row \in Row
    PROVE  DraftOf(row) \in Drafts
BY DEF Row, Drafts, DraftOf

LEMMA CreatedRow ==
    ASSUME NEW draft \in Drafts
    PROVE  Created(draft) \in Row /\ Created(draft).hits = 0
BY DEF Created, Row, Drafts

\* Rules that match are present, enabled, and rules.
LEMMA MatchedRules ==
    ASSUME NEW rows, NEW counters, NEW message, NEW t
    PROVE  /\ Matched(rows, counters, message, t) \in SUBSET Present(rows)
           /\ \A r \in Matched(rows, counters, message, t) :
                 r \in Rules /\ rows[r] # Absent /\ rows[r].enabled
BY DEF Matched, Reached, Candidates, Present

\* The transaction that stores hits makes the table what the engine has.
LEMMA CommittedRows ==
    ASSUME NEW d \in Database, NEW matched \in SUBSET Present(d.rows)
    PROVE  /\ CommitRuntime(d, AfterHits(d.rows, matched)).rows = AfterHits(d.rows, matched)
           /\ CommitRuntime(d, AfterHits(d.rows, matched)).coll = d.coll + 1
           /\ CommitRuntime(d, AfterHits(d.rows, matched)) \in Database
<1> DEFINE after == AfterHits(d.rows, matched)
           new == [r \in Rules |->
                     IF after[r] = Absent THEN d.rows[r]
                     ELSE [d.rows[r] EXCEPT !.hits = after[r].hits, !.rev = after[r].rev,
                                            !.enabled = after[r].enabled]]
<1>1. d.rows \in Table /\ d.coll \in Nat BY DEF Database
<1>2. /\ after \in Table
      /\ \A r \in Rules : after[r] = Absent <=> d.rows[r] = Absent
  BY <1>1, HitTable
<1>3. ASSUME NEW r \in Rules PROVE new[r] = after[r]
  <2>1. CASE d.rows[r] = Absent BY <1>2, <2>1
  <2>2. CASE r \in matched /\ d.rows[r] # Absent
    <3>1. d.rows[r] \in Row BY <1>1, <2>2, PresentRow
    <3>2. after[r] = Hit(d.rows[r]) BY <2>2 DEF AfterHits
    <3>3. /\ Hit(d.rows[r]) \in Row
          /\ Hit(d.rows[r]).nth = d.rows[r].nth
          /\ Hit(d.rows[r]).oneShot = d.rows[r].oneShot
          /\ Hit(d.rows[r]).terminal = d.rows[r].terminal
          /\ Hit(d.rows[r]).priority = d.rows[r].priority
      BY <3>1, HitRow
    <3>4. new[r] = [d.rows[r] EXCEPT !.hits = after[r].hits, !.rev = after[r].rev,
                                     !.enabled = after[r].enabled]
      BY <1>2, <2>2
    <3> HIDE DEF new, after
    <3>5. \A row \in Row, old \in Row :
             /\ row.nth = old.nth /\ row.oneShot = old.oneShot
             /\ row.terminal = old.terminal /\ row.priority = old.priority
             => [old EXCEPT !.hits = row.hits, !.rev = row.rev, !.enabled = row.enabled] = row
      BY DEF Row
    <3>6. [d.rows[r] EXCEPT !.hits = Hit(d.rows[r]).hits, !.rev = Hit(d.rows[r]).rev,
                            !.enabled = Hit(d.rows[r]).enabled] = Hit(d.rows[r])
      BY <3>1, <3>3, <3>5
    <3> QED BY <3>2, <3>4, <3>6
  <2>3. CASE r \notin matched /\ d.rows[r] # Absent
    <3>1. d.rows[r] \in Row BY <1>1, <2>3, PresentRow
    <3>2. after[r] = d.rows[r] BY <2>3 DEF AfterHits
    <3>3. new[r] = [d.rows[r] EXCEPT !.hits = after[r].hits, !.rev = after[r].rev,
                                     !.enabled = after[r].enabled]
      BY <1>2, <2>3
    <3> HIDE DEF new, after
    <3>4. \A row \in Row :
             [row EXCEPT !.hits = row.hits, !.rev = row.rev, !.enabled = row.enabled] = row
      BY DEF Row
    <3> QED BY <3>1, <3>2, <3>3, <3>4
  <2> QED BY <2>1, <2>2, <2>3
<1>4. CommitRuntime(d, after) = [coll |-> d.coll + 1, rows |-> new]
  BY DEF CommitRuntime
<1>5. new \in [Rules -> Row \cup {Absent}] /\ after \in [Rules -> Row \cup {Absent}]
  BY <1>2, <1>3 DEF Table
<1> HIDE DEF new, after
<1>6. new = after BY <1>3, <1>5
<1>7. [coll |-> d.coll + 1, rows |-> after] \in Database BY <1>1, <1>2 DEF Database
<1> QED BY <1>4, <1>6, <1>7 DEF after
-----------------------------------------------------------------------------
(* The kinds of steps. *)

\* A write that puts one row where another was, or none.
LEMMA OneRow ==
    ASSUME TypeOK, current'.brought \in [Rules -> Nat],
           NEW r \in Rules, NEW row \in Row \cup {Absent}, NEW new,
           new = [coll |-> db.coll + 1, rows |-> [db.rows EXCEPT ![r] = row]],
           \/ row = Absent
           \/ row.hits = 0
           \/ db.rows[r] # Absent /\ row.hits <= db.rows[r].hits,
           Written(new)
    PROVE  Edited
<1>1. db.coll \in Nat /\ db.rows \in Table BY DEF TypeOK, Database
<1>2. [db.rows EXCEPT ![r] = row] \in Table BY <1>1 DEF Table
<1>3. /\ new \in Database
      /\ new.coll = db.coll + 1
      /\ new.rows = [db.rows EXCEPT ![r] = row]
  BY <1>1, <1>2 DEF Database
<1>4. ASSUME NEW q \in Rules, new.rows[q] # Absent
      PROVE  \/ new.rows[q].hits <= current'.brought[q]
             \/ db.rows[q] # Absent /\ new.rows[q].hits <= db.rows[q].hits
  <2>1. CASE q = r
    <3>1. new.rows[q] = row BY <1>1, <1>3, <2>1 DEF Table
    <3> QED BY <1>4, <2>1, <3>1
  <2>2. CASE q # r
    <3>1. new.rows[q] = db.rows[q] BY <1>1, <1>3, <2>2 DEF Table
    <3>2. db.rows[q] \in Row BY <1>1, <1>4, <3>1, PresentRow
    <3>3. db.rows[q].hits \in Nat BY <3>2 DEF Row
    <3> QED BY <1>4, <3>1, <3>3
  <2> QED BY <2>1, <2>2
<1> QED BY <1>3, <1>4 DEF Edited, Written

LEMMA SaveEdits ==
    ASSUME TypeOK, NEW draft \in Drafts, NEW r \in Rules,
           CanSwap(db, r, user.rev), UNCHANGED current,
           Written(SwapRule(db, r, Saved(db.rows[r], draft)))
    PROVE  Edited
<1>1. db.rows \in Table /\ db.rows[r] # Absent BY DEF TypeOK, Database, CanSwap
<1>2. db.rows[r] \in Row BY <1>1, PresentRow
<1>3. /\ Saved(db.rows[r], draft) \in Row
      /\ Saved(db.rows[r], draft).hits <= db.rows[r].hits
  BY <1>2, SavedRow
<1>4. current'.brought \in [Rules -> Nat] BY DEF TypeOK
<1> QED BY <1>1, <1>3, <1>4, OneRow DEF SwapRule

LEMMA EditSteps ==
    ASSUME TypeOK, Edit
    PROVE  Quiet \/ Edited
<1>1. CASE \E r \in Rules : OpenForm(r) BY <1>1 DEF OpenForm, Quiet, ghosts
<1>2. CASE EditRefused \/ BeginImport \/ ImportEnds
  BY <1>2 DEF EditRefused, BeginImport, ImportEnds, Quiet, ghosts
<1>3. ASSUME NEW d \in UserDrafts, Save(d) PROVE Edited
  BY <1>3, SaveEdits, RuntimeAssumption DEF Save, TypeOK
<1>4. CASE Toggle
  <2>1. /\ user.rule \in Rules /\ CanSwap(db, user.rule, user.rev) /\ UNCHANGED current
    BY <1>4 DEF Toggle, TypeOK
  <2>2. db.rows[user.rule] \in Row BY <2>1, PresentRow DEF TypeOK, Database, CanSwap
  <2>3. DraftOf(db.rows[user.rule]) \in Drafts BY <2>2, DraftOfRow
  <2>4. [DraftOf(db.rows[user.rule]) EXCEPT !.enabled = ~@] \in Drafts
    BY <2>3 DEF Drafts
  <2> QED BY <1>4, <2>1, <2>4, SaveEdits DEF Toggle
<1>5. CASE Delete
  <2>1. user.rule \in Rules /\ current'.brought \in [Rules -> Nat]
    BY <1>5 DEF Delete, TypeOK
  <2> QED BY <1>5, <2>1, OneRow DEF Delete, DeleteRule
<1>6. ASSUME NEW r \in Rules, NEW d \in UserDrafts, Create(r, d) PROVE Edited
  <2>1. Created(d) \in Row /\ Created(d).hits = 0
    BY CreatedRow, RuntimeAssumption
  <2>2. current'.brought \in [Rules -> Nat] BY <1>6 DEF Create, TypeOK
  <2> QED BY <1>6, <2>1, <2>2, OneRow DEF Create, InsertRule
<1>7. ASSUME NEW rows \in Files, FinishImport(rows) PROVE Edited
  <2>1. rows \in Table /\ db.coll \in Nat BY RuntimeAssumption DEF TypeOK, Database
  <2>2. /\ ReplaceRules(db, rows) \in Database
        /\ ReplaceRules(db, rows).coll = db.coll + 1
        /\ ReplaceRules(db, rows).rows = rows
    BY <2>1 DEF ReplaceRules, Database
  <2>3. ASSUME NEW r \in Rules, rows[r] # Absent
        PROVE  rows[r].hits <= current'.brought[r]
    <3>1. rows[r].hits \in Nat BY <2>1, <2>3, PresentRow DEF Row
    <3>2. current.brought[r] \in Nat BY DEF TypeOK
    <3>3. current'.brought[r] = IF rows[r] # Absent /\ rows[r].hits > current.brought[r]
                                THEN rows[r].hits ELSE current.brought[r]
      BY <1>7 DEF FinishImport, TypeOK
    <3> QED BY <2>3, <3>1, <3>2, <3>3
  <2> QED BY <1>7, <2>2, <2>3 DEF FinishImport, Written, Edited
<1> QED BY <1>1, <1>2, <1>3, <1>4, <1>5, <1>6, <1>7 DEF Edit

LEMMA DataSteps ==
    ASSUME TypeOK, [Next]_vars
    PROVE  DataStep
<1>1. ASSUME NEW c \in Conns, Message(c) PROVE DataStep
  <2>1. CASE (\E fits \in Messages : Arrive(c, fits)) \/ EpochFits(c) \/ EpochRefused(c)
             \/ SnapshotFails(c) \/ Conflict(c)
    BY <2>1 DEF Arrive, EpochFits, EpochRefused, SnapshotFails, Conflict, Quiet, ghosts,
                DataStep
  <2>2. CASE EpochResets(c) BY <2>2 DEF EpochResets, HitsCleared, ghosts, DataStep
  <2>3. CASE EpochEntered(c) \/ CommitFails(c)
    BY <2>3 DEF EpochEntered, CommitFails, Dropped, DataStep
  <2>4. CASE TakeSnapshot(c) \/ EvaluateNoMatch(c) \/ Commit(c) BY <2>4 DEF DataStep
  <2> QED BY <1>1, <2>1, <2>2, <2>3, <2>4 DEF Message
<1>2. CASE RunEnds
  <2>1. CASE StopBegins \/ StopForgets \/ Cancel \/ Join \/ StartNext
    BY <2>1 DEF StopBegins, StopForgets, Cancel, Join, StartNext, Quiet, ghosts, DataStep
  <2>2. CASE StopResets BY <2>2 DEF StopResets, HitsCleared, Quiet, ghosts, DataStep
  <2>3. CASE StopClears BY <2>3 DEF StopClears, Dropped, DataStep
  <2> QED BY <1>2, <2>1, <2>2, <2>3 DEF RunEnds
<1>3. CASE Edit BY <1>3, EditSteps DEF DataStep
<1>4. CASE RunsOver \/ UNCHANGED vars BY <1>4 DEF RunsOver, vars, Quiet, DataStep
<1> QED BY <1>1, <1>2, <1>3, <1>4 DEF Next

-----------------------------------------------------------------------------
(* What the steps of an evaluation do, in the terms of the invariant. *)

LEMMA SnapshotTaken ==
    ASSUME TypeOK, SyncInv, NEW c \in Conns, TakeSnapshot(c)
    PROVE  /\ runtime' \in Runtime
           /\ runtime'.epoch = msg[c].epoch
           /\ runtime'.coll = db.coll
           /\ runtime'.rows = db.rows
           /\ \/ ~RuntimeFits(c) /\ runtime'.counters = NoCounters /\ total' = Forget
              \/ /\ RuntimeFits(c) /\ total' = total
                 /\ \A r \in Rules :
                       \/ /\ runtime'.counters[r] = runtime.counters[r]
                          /\ db.rows[r] # Absent => runtime.rows[r] # Absent
                       \/ /\ runtime'.counters[r] = [t \in Terminals |-> 0]
                          /\ ~Kept(runtime.rows, db.rows, r)
<1>1. /\ db.rows \in Table /\ db.coll \in Nat /\ msg[c].epoch \in Epochs
      /\ runtime # Nothing => runtime \in Runtime
  BY DEF TypeOK, Database
<1>2. CASE ~RuntimeFits(c)
  <2>1. /\ runtime' = [epoch |-> msg[c].epoch, coll |-> db.coll, rows |-> db.rows,
                       counters |-> NoCounters]
        /\ total' = Forget
    BY <1>2 DEF TakeSnapshot
  <2> QED BY <1>1, <1>2, <2>1, Zeroes DEF Runtime
<1>3. CASE RuntimeFits(c)
  <2>1. runtime \in Runtime /\ runtime # Nothing /\ runtime.epoch = msg[c].epoch
    BY <1>1, <1>3 DEF RuntimeFits
  <2>2. total' = total BY <1>3 DEF TakeSnapshot
  <2>3. CASE runtime.coll # db.coll \/ Signature(runtime.rows) # Signature(db.rows)
    <3> DEFINE counts == Reconciled(runtime.rows, db.rows, runtime.counters)
    <3>1. runtime' = [runtime EXCEPT !.coll = db.coll, !.rows = db.rows,
                                     !.counters = counts]
      BY <1>3, <2>3 DEF TakeSnapshot
    <3>2. counts \in Counters BY <2>1 DEF Reconciled, Runtime, Counters
    <3>3. \A r \in Rules :
             \/ counts[r] = runtime.counters[r] /\ Kept(runtime.rows, db.rows, r)
             \/ counts[r] = [t \in Terminals |-> 0] /\ ~Kept(runtime.rows, db.rows, r)
      BY DEF Reconciled
    <3> HIDE DEF counts
    <3>4. /\ runtime' \in Runtime
          /\ runtime'.epoch = msg[c].epoch
          /\ runtime'.coll = db.coll
          /\ runtime'.rows = db.rows
          /\ runtime'.counters = counts
      BY <1>1, <2>1, <3>1, <3>2 DEF Runtime
    <3>5. \A r \in Rules : Kept(runtime.rows, db.rows, r) => runtime.rows[r] # Absent
      BY DEF Kept
    <3> QED BY <1>3, <2>2, <3>3, <3>4, <3>5
  <2>4. CASE ~(runtime.coll # db.coll \/ Signature(runtime.rows) # Signature(db.rows))
    <3>1. runtime' = runtime /\ runtime.coll = db.coll
      BY <1>3, <2>4 DEF TakeSnapshot
    <3>2. runtime.rows = db.rows BY <2>1, <3>1 DEF SyncInv
    <3> QED BY <1>3, <2>1, <2>2, <3>1, <3>2
  <2> QED BY <2>3, <2>4
<1> QED BY <1>2, <1>3

\* Both ways an evaluation can end well.
LEMMA CountsTaken ==
    ASSUME TypeOK, LockInv, NEW c \in Conns, pc[c] = "commit"
    PROVE  /\ runtime \in Runtime /\ runtime # Nothing
           /\ TermOf[c] \in Terminals
           /\ CountersAfter(c) \in Counters
           /\ \A r \in Rules :
                 \/ CountersAfter(c)[r] = runtime.counters[r]
                 \/ /\ CountersAfter(c)[r] # runtime.counters[r]
                    /\ CountersAfter(c)[r] = [runtime.counters[r] EXCEPT ![TermOf[c]] = @ + 1]
<1>1. runtime \in Runtime /\ runtime # Nothing BY DEF TypeOK, LockInv
<1>2. runtime.counters \in Counters BY <1>1 DEF Runtime
<1>3. TermOf[c] \in Terminals BY RuntimeAssumption
<1>4. ASSUME NEW r \in Rules
      PROVE  /\ [runtime.counters[r] EXCEPT ![TermOf[c]] = @ + 1] \in [Terminals -> Nat]
             /\ [runtime.counters[r] EXCEPT ![TermOf[c]] = @ + 1] # runtime.counters[r]
             /\ runtime.counters[r] \in [Terminals -> Nat]
  <2>1. runtime.counters[r] \in [Terminals -> Nat] BY <1>2 DEF Counters
  <2>2. \A f \in [Terminals -> Nat], t \in Terminals :
           [f EXCEPT ![t] = @ + 1] \in [Terminals -> Nat] /\ [f EXCEPT ![t] = @ + 1] # f
    <3>1. SUFFICES ASSUME NEW f \in [Terminals -> Nat], NEW t \in Terminals
                   PROVE  /\ [f EXCEPT ![t] = @ + 1] \in [Terminals -> Nat]
                          /\ [f EXCEPT ![t] = @ + 1] # f
      OBVIOUS
    <3>2. f[t] \in Nat /\ [f EXCEPT ![t] = @ + 1][t] = f[t] + 1 OBVIOUS
    <3>3. [f EXCEPT ![t] = @ + 1] \in [Terminals -> Nat] BY <3>2
    <3> QED BY <3>2, <3>3
  <2> QED BY <1>3, <2>1, <2>2
<1>5. ASSUME NEW r \in Rules
      PROVE  \/ CountersAfter(c)[r] = runtime.counters[r]
             \/ CountersAfter(c)[r] = [runtime.counters[r] EXCEPT ![TermOf[c]] = @ + 1]
  BY DEF CountersAfter, Counted
<1>6. CountersAfter(c) \in Counters
  BY <1>4, <1>5 DEF Counters, CountersAfter, Counted
<1> QED BY <1>1, <1>3, <1>4, <1>5, <1>6

LEMMA NoMatchEnds ==
    ASSUME TypeOK, LockInv, NEW c \in Conns, EvaluateNoMatch(c)
    PROVE  /\ runtime' \in Runtime
           /\ runtime'.epoch = runtime.epoch
           /\ runtime'.coll = runtime.coll
           /\ runtime'.rows = runtime.rows
           /\ runtime'.counters = CountersAfter(c)
           /\ fired' = fired
<1>1. pc[c] = "commit" /\ runtime' = [runtime EXCEPT !.counters = CountersAfter(c)]
  BY DEF EvaluateNoMatch
<1>2. runtime \in Runtime /\ CountersAfter(c) \in Counters BY <1>1, CountsTaken
<1>3. fired' = [r \in Rules |-> IF r \in {} THEN fired[r] + 1 ELSE fired[r]]
  BY DEF EvaluateNoMatch, Deliver
<1>4. fired' = fired BY <1>3 DEF TypeOK
<1> QED BY <1>1, <1>2, <1>4 DEF Runtime

LEMMA CommitEnds ==
    ASSUME TypeOK, LockInv, SyncInv, NEW c \in Conns, Commit(c)
    PROVE  /\ db.rows = runtime.rows
           /\ db' \in Database
           /\ db'.coll = db.coll + 1
           /\ db'.rows = AfterHits(db.rows, MatchedBy(c))
           /\ runtime' \in Runtime
           /\ runtime'.epoch = runtime.epoch
           /\ runtime'.coll = db'.coll
           /\ runtime'.rows = db'.rows
           /\ runtime'.counters = CountersAfter(c)
           /\ MatchedBy(c) \in SUBSET Present(db.rows)
           /\ \A r \in MatchedBy(c) : r \in Rules /\ db.rows[r] \in Row /\ db.rows[r].enabled
           /\ fired' = [r \in Rules |-> IF r \in MatchedBy(c) THEN fired[r] + 1 ELSE fired[r]]
<1>1. /\ pc[c] = "commit" /\ runtime.coll = db.coll
      /\ db' = CommitRuntime(db, RowsAfter(c))
      /\ runtime' = [runtime EXCEPT !.coll = db.coll + 1, !.rows = RowsAfter(c),
                                    !.counters = CountersAfter(c)]
  BY DEF Commit, CanCommit
<1>2. runtime \in Runtime /\ runtime # Nothing /\ CountersAfter(c) \in Counters
  BY <1>1, CountsTaken
<1>3. db.rows = runtime.rows BY <1>1, <1>2 DEF SyncInv
<1>4. db \in Database /\ db.rows \in Table /\ db.coll \in Nat BY DEF TypeOK, Database
<1>5. /\ MatchedBy(c) \in SUBSET Present(db.rows)
      /\ \A r \in MatchedBy(c) : r \in Rules /\ db.rows[r] # Absent /\ db.rows[r].enabled
  BY <1>3, MatchedRules DEF MatchedBy
<1>6. RowsAfter(c) = AfterHits(db.rows, MatchedBy(c)) BY <1>3 DEF RowsAfter
<1>7. /\ db'.rows = RowsAfter(c)
      /\ db'.coll = db.coll + 1
      /\ db' \in Database
  BY <1>1, <1>4, <1>5, <1>6, CommittedRows
<1>8. RowsAfter(c) \in Table BY <1>7 DEF Database
<1>9. /\ runtime' \in Runtime
      /\ runtime'.epoch = runtime.epoch
      /\ runtime'.coll = db.coll + 1
      /\ runtime'.rows = RowsAfter(c)
      /\ runtime'.counters = CountersAfter(c)
  <2>1. db.coll + 1 \in Nat BY <1>4
  <2>2. runtime' = [runtime EXCEPT !.coll = db.coll + 1, !.rows = RowsAfter(c),
                                   !.counters = CountersAfter(c)]
    BY <1>1
  <2>3. runtime' = [epoch |-> runtime.epoch, coll |-> db.coll + 1, rows |-> RowsAfter(c),
                    counters |-> CountersAfter(c)]
    BY <1>2, <2>2 DEF Runtime
  <2>4. runtime.epoch \in Epochs BY <1>2 DEF Runtime
  <2> QED BY <1>2, <1>8, <2>1, <2>3, <2>4 DEF Runtime
<1>10. \A r \in MatchedBy(c) : db.rows[r] \in Row BY <1>4, <1>5, PresentRow
<1>11. fired' = [r \in Rules |-> IF r \in MatchedBy(c) THEN fired[r] + 1 ELSE fired[r]]
  BY DEF Commit, Deliver
<1> QED BY <1>3, <1>5, <1>6, <1>7, <1>9, <1>10, <1>11

-----------------------------------------------------------------------------
(* Types. *)

DataTypes ==
    /\ db \in Database
    /\ runtime \in Runtime \cup {Nothing}
    /\ seen \in Counters /\ total \in Counters
    /\ wanted \in [Rules -> Drafts \cup {Absent}]
    /\ fired \in [Rules -> Nat]
    /\ recounted \subseteq Rules

ControlTypes ==
    /\ epoch \in Epochs \cup {Nothing}
    /\ pc \in [Conns -> Places]
    /\ msg \in [Conns -> [fits : SUBSET Rules, epoch : Epochs, retries : 0..MaxRetries]]
    /\ user \in [rule : Rules \cup {Nothing}, rev : Nat, import : Nat \cup {Nothing}]
    /\ current \in [epoch : Epochs, stage : Stages, arrived : Nat, brought : [Rules -> Nat]]
    /\ spent \in [messages : 0..MaxMessages, writes : 0..MaxWrites, faults : 0..MaxFaults]
    /\ used \subseteq Rules

LEMMA Types == TypeOK <=> DataTypes /\ ControlTypes
BY DEF TypeOK, DataTypes, ControlTypes

LEMMA Tallied ==
    ASSUME TypeOK, LockInv, NEW c \in Conns, pc[c] = "commit",
           NEW counts \in Counters, NEW rules
    PROVE  /\ Tally(counts, c, rules) \in Counters
           /\ \A r \in Rules :
                 Tally(counts, c, rules)[r] =
                     IF r \in rules /\ CountersAfter(c)[r] # runtime.counters[r]
                     THEN [counts[r] EXCEPT ![TermOf[c]] = @ + 1] ELSE counts[r]
<1>1. TermOf[c] \in Terminals BY CountsTaken
<1>2. ASSUME NEW r \in Rules
      PROVE  [counts[r] EXCEPT ![TermOf[c]] = @ + 1] \in [Terminals -> Nat]
  BY <1>1 DEF Counters
<1> QED BY <1>2 DEF Tally, Counters

LEMMA DataTypesKeep ==
    ASSUME TypeOK, LockInv, SyncInv, DataStep
    PROVE  DataTypes'
<1> USE DEF DataTypes
<1>1. CASE Quiet BY <1>1 DEF Quiet, TypeOK
<1>2. CASE HitsCleared BY <1>2, ResetRows DEF HitsCleared, TypeOK
<1>3. CASE Dropped BY <1>3, Zeroes DEF Dropped, TypeOK, Forget
<1>4. CASE Edited
  <2>1. PICK new \in Database :
           db' = new /\ Recount(db.rows, new.rows) /\ UNCHANGED <<runtime, total>>
    BY <1>4 DEF Edited
  <2>2. new.rows \in Table BY DEF Database
  <2>3. ASSUME NEW r \in Rules
        PROVE  wanted'[r] \in Drafts \cup {Absent}
    <3>1. new.rows[r] # Absent => DraftOf(new.rows[r]) \in Drafts
      BY <2>2, PresentRow, DraftOfRow
    <3>2. wanted'[r] = IF new.rows[r] = db.rows[r] THEN wanted[r]
                       ELSE IF new.rows[r] = Absent THEN Absent ELSE DraftOf(new.rows[r])
      BY <2>1 DEF Recount
    <3> QED BY <3>1, <3>2 DEF TypeOK
  <2>4. wanted' \in [Rules -> Drafts \cup {Absent}]
    BY <2>1, <2>3 DEF Recount
  <2>5. seen' \in Counters /\ fired' \in [Rules -> Nat] /\ recounted' \subseteq Rules
    BY <2>1 DEF Recount, TypeOK, Counters, MustRecount
  <2> QED BY <2>1, <2>4, <2>5 DEF TypeOK
<1>5. ASSUME NEW c \in Conns, TakeSnapshot(c) PROVE DataTypes'
  <2>1. runtime' \in Runtime /\ (total' = Forget \/ total' = total)
    BY <1>5, SnapshotTaken
  <2> QED BY <1>5, <2>1, Zeroes DEF TakeSnapshot, TypeOK, Forget
<1>6. ASSUME NEW c \in Conns, EvaluateNoMatch(c) PROVE DataTypes'
  <2>1. runtime' \in Runtime /\ fired' = fired BY <1>6, NoMatchEnds
  <2>2. /\ pc[c] = "commit"
        /\ seen' = Tally(seen, c, Rules \ recounted) /\ total' = Tally(total, c, Rules)
        /\ UNCHANGED <<db, wanted, recounted>>
    BY <1>6 DEF EvaluateNoMatch, Deliver
  <2>3. seen' \in Counters /\ total' \in Counters BY <2>2, Tallied DEF TypeOK
  <2> QED BY <2>1, <2>2, <2>3 DEF TypeOK
<1>7. ASSUME NEW c \in Conns, Commit(c) PROVE DataTypes'
  <2>1. /\ runtime' \in Runtime /\ db' \in Database
        /\ fired' = [r \in Rules |-> IF r \in MatchedBy(c) THEN fired[r] + 1 ELSE fired[r]]
    BY <1>7, CommitEnds
  <2>2. /\ pc[c] = "commit"
        /\ seen' = Tally(seen, c, Rules \ recounted) /\ total' = Tally(total, c, Rules)
        /\ UNCHANGED <<wanted, recounted>>
    BY <1>7 DEF Commit, Deliver
  <2>3. seen' \in Counters /\ total' \in Counters BY <2>2, Tallied DEF TypeOK
  <2>4. fired' \in [Rules -> Nat] BY <2>1 DEF TypeOK
  <2> QED BY <2>1, <2>2, <2>3, <2>4 DEF TypeOK
<1> QED BY <1>1, <1>2, <1>3, <1>4, <1>5, <1>6, <1>7 DEF DataStep

LEMMA Spending ==
    ASSUME TypeOK
    PROVE  /\ DatabaseFails \/ Writes \/ UNCHANGED spent
              => spent' \in [messages : 0..MaxMessages, writes : 0..MaxWrites,
                             faults : 0..MaxFaults]
           /\ spent.messages < MaxMessages /\ spent' = [spent EXCEPT !.messages = @ + 1]
              => spent' \in [messages : 0..MaxMessages, writes : 0..MaxWrites,
                             faults : 0..MaxFaults]
BY RuntimeAssumption DEF TypeOK, DatabaseFails, Writes

LEMMA MessageTypes ==
    ASSUME TypeOK, NEW c \in Conns, Message(c)
    PROVE  ControlTypes'
<1> USE DEF ControlTypes, TypeOK, Places
<1>1. ASSUME NEW fits \in Messages, Arrive(c, fits) PROVE ControlTypes'
  <2>1. [fits |-> fits, epoch |-> current.epoch, retries |-> MaxRetries]
          \in [fits : SUBSET Rules, epoch : Epochs, retries : 0..MaxRetries]
    BY RuntimeAssumption
  <2>2. msg' \in [Conns -> [fits : SUBSET Rules, epoch : Epochs, retries : 0..MaxRetries]]
    BY <1>1, <2>1 DEF Arrive
  <2>3. current' \in [epoch : Epochs, stage : Stages, arrived : Nat, brought : [Rules -> Nat]]
    BY <1>1 DEF Arrive
  <2> QED BY <1>1, <2>2, <2>3, Spending DEF Arrive
<1>2. CASE EpochFits(c) BY <1>2 DEF EpochFits, ghosts
<1>3. CASE EpochResets(c) BY <1>3 DEF EpochResets, ghosts
<1>4. CASE EpochEntered(c) BY <1>4 DEF EpochEntered
<1>5. CASE EpochRefused(c) BY <1>5, Spending DEF EpochRefused, ghosts
<1>6. CASE TakeSnapshot(c) BY <1>6 DEF TakeSnapshot
<1>7. CASE SnapshotFails(c) BY <1>7, Spending DEF SnapshotFails, ghosts
<1>8. CASE EvaluateNoMatch(c) BY <1>8 DEF EvaluateNoMatch, Deliver
<1>9. CASE Commit(c) BY <1>9 DEF Commit, Deliver
<1>10. CASE Conflict(c)
  <2>1. msg[c].retries - 1 \in 0..MaxRetries BY <1>10, RuntimeAssumption DEF Conflict
  <2>2. msg' \in [Conns -> [fits : SUBSET Rules, epoch : Epochs, retries : 0..MaxRetries]]
    BY <1>10, <2>1 DEF Conflict
  <2> QED BY <1>10, <2>2 DEF Conflict, ghosts
<1>11. CASE CommitFails(c) BY <1>11, Spending DEF CommitFails
<1> QED BY <1>1, <1>2, <1>3, <1>4, <1>5, <1>6, <1>7, <1>8, <1>9, <1>10, <1>11 DEF Message

LEMMA RunTypes ==
    ASSUME TypeOK, RunEnds
    PROVE  ControlTypes'
<1> USE DEF ControlTypes, TypeOK, Stages
<1>1. CASE StopBegins BY <1>1 DEF StopBegins, ghosts
<1>2. CASE StopResets BY <1>2, Spending DEF StopResets, ghosts
<1>3. CASE StopClears BY <1>3 DEF StopClears
<1>4. CASE StopForgets BY <1>4 DEF StopForgets, ghosts
<1>5. CASE Cancel BY <1>5 DEF Cancel, ghosts
<1>6. CASE Join BY <1>6 DEF Join, ghosts
<1>7. CASE StartNext BY <1>7, Zeroes DEF StartNext, ghosts
<1> QED BY <1>1, <1>2, <1>3, <1>4, <1>5, <1>6, <1>7 DEF RunEnds

LEMMA EditTypes ==
    ASSUME TypeOK, Edit
    PROVE  ControlTypes'
<1> USE DEF ControlTypes, TypeOK
<1> DEFINE User == [rule : Rules \cup {Nothing}, rev : Nat, import : Nat \cup {Nothing}]
<1>1. ASSUME NEW new, Written(new), Writes, UNCHANGED current PROVE ControlTypes'
  <2>1. user' \in User BY <1>1 DEF Written
  <2>2. used' \subseteq Rules BY <1>1 DEF Written, Present
  <2> QED BY <1>1, <2>1, <2>2, Spending DEF Written
<1>2. ASSUME NEW r \in Rules, OpenForm(r) PROVE ControlTypes'
  <2>1. db.rows[r] \in Row BY <1>2, PresentRow DEF OpenForm, Database
  <2>2. db.rows[r].rev \in Nat BY <2>1 DEF Row
  <2>3. user' \in User BY <1>2, <2>2 DEF OpenForm
  <2> QED BY <1>2, <2>3 DEF OpenForm, ghosts
<1>3. CASE EditRefused \/ ImportEnds
  <2>1. user' \in User BY <1>3 DEF EditRefused, ImportEnds
  <2> QED BY <1>3, <2>1 DEF EditRefused, ImportEnds, ghosts
<1>4. CASE BeginImport
  <2>1. user' \in User BY <1>4 DEF BeginImport, Database
  <2> QED BY <1>4, <2>1, Spending DEF BeginImport, ghosts
<1>5. ASSUME NEW rows \in Files, FinishImport(rows) PROVE ControlTypes'
  <2>1. rows \in Table BY RuntimeAssumption
  <2>2. \A r \in Rules : rows[r] # Absent => rows[r].hits \in Nat
    BY <2>1, PresentRow DEF Row
  <2>3. [r \in Rules |-> IF rows[r] # Absent /\ rows[r].hits > current.brought[r]
                         THEN rows[r].hits ELSE current.brought[r]] \in [Rules -> Nat]
    BY <2>2
  <2>4. current' \in [epoch : Epochs, stage : Stages, arrived : Nat, brought : [Rules -> Nat]]
    BY <1>5, <2>3 DEF FinishImport
  <2>5. user' \in User BY <1>5 DEF FinishImport, Written
  <2>6. used' \subseteq Rules BY <1>5 DEF FinishImport, Written, Present
  <2> QED BY <1>5, <2>4, <2>5, <2>6, Spending DEF FinishImport, Written
<1> HIDE DEF ControlTypes, TypeOK
<1> QED BY <1>1, <1>2, <1>3, <1>4, <1>5 DEF Edit, Save, Toggle, Delete, Create

LEMMA ControlTypesKeep ==
    ASSUME TypeOK, [Next]_vars
    PROVE  ControlTypes'
<1>1. CASE RunsOver \/ UNCHANGED vars BY <1>1 DEF RunsOver, vars, TypeOK, ControlTypes
<1> QED BY <1>1, MessageTypes, RunTypes, EditTypes DEF Next

\* Locks and snapshots.
LEMMA LockKeeps ==
    ASSUME TypeOK, LockInv, SyncInv, [Next]_vars
    PROVE  LockInv'
<1> USE DEF LockInv, RuntimeLockFree, EpochLockFree
<1>1. ASSUME NEW c \in Conns, TakeSnapshot(c) PROVE LockInv'
  <2>1. runtime' \in Runtime /\ runtime' # Nothing
    BY <1>1, SnapshotTaken, RuntimeAssumption
  <2> QED BY <1>1, <2>1 DEF TakeSnapshot, TypeOK
<1>2. ASSUME NEW c \in Conns, Message(c), ~TakeSnapshot(c) PROVE LockInv'
  <2> USE DEF TypeOK
  <2>1. CASE (\E fits \in Messages : Arrive(c, fits)) \/ EpochFits(c) \/ EpochResets(c)
    BY <2>1 DEF Arrive, EpochFits, EpochResets
  <2>2. CASE EpochEntered(c) BY <2>2 DEF EpochEntered
  <2>3. CASE EpochRefused(c) \/ SnapshotFails(c) \/ Conflict(c)
    BY <2>3 DEF EpochRefused, SnapshotFails, Conflict, ghosts
  <2>5. CASE CommitFails(c)
    <3>1. pc[c] = "commit" /\ pc' = [pc EXCEPT ![c] = "idle"]
      BY <2>5 DEF CommitFails
    <3>2. \A d \in Conns : pc'[d] # "commit" /\ (pc'[d] = "resetting" => pc[d] = "resetting")
      BY <3>1
    <3> QED BY <3>2
  <2>4. CASE EvaluateNoMatch(c) \/ Commit(c)
    <3>1. pc[c] = "commit" /\ pc' = [pc EXCEPT ![c] = "idle"]
      BY <2>4 DEF EvaluateNoMatch, Commit, Deliver
    <3>2. \A d \in Conns : pc'[d] # "commit" /\ (pc'[d] = "resetting" => pc[d] = "resetting")
      BY <3>1
    <3> QED BY <3>2
  <2> QED BY <1>2, <2>1, <2>2, <2>3, <2>4, <2>5 DEF Message
<1>3. CASE RunEnds
  BY <1>3 DEF RunEnds, StopBegins, StopResets, StopClears, StopForgets, Cancel, Join,
              StartNext
<1>4. CASE Edit
  BY <1>4 DEF Edit, OpenForm, Save, Toggle, Delete, EditRefused, Create, BeginImport,
              ImportEnds, FinishImport, Written
<1>5. CASE RunsOver \/ UNCHANGED vars BY <1>5 DEF RunsOver, vars
<1> QED BY <1>1, <1>2, <1>3, <1>4, <1>5 DEF Next

LEMMA SyncKeeps ==
    ASSUME TypeOK, LockInv, SyncInv, DataStep
    PROVE  SyncInv'
<1> USE DEF SyncInv
<1>1. db \in Database /\ db.coll \in Nat /\ (runtime # Nothing => runtime.coll \in Nat)
  BY DEF TypeOK, Database, Runtime
<1>2. CASE Quiet BY <1>2 DEF Quiet
<1>3. CASE HitsCleared BY <1>1, <1>3, ResetRows DEF HitsCleared
<1>4. CASE Dropped BY <1>4 DEF Dropped
<1>5. CASE Edited BY <1>1, <1>5 DEF Edited
<1>6. ASSUME NEW c \in Conns, TakeSnapshot(c) PROVE SyncInv'
  <2>1. db' = db BY <1>6 DEF TakeSnapshot
  <2>2. runtime'.coll = db.coll /\ runtime'.rows = db.rows BY <1>6, SnapshotTaken
  <2> QED BY <1>1, <2>1, <2>2
<1>7. ASSUME NEW c \in Conns, EvaluateNoMatch(c) PROVE SyncInv'
  <2>1. pc[c] = "commit" /\ db' = db BY <1>7 DEF EvaluateNoMatch
  <2>2. runtime # Nothing BY <2>1 DEF LockInv
  <2>3. runtime'.coll = runtime.coll /\ runtime'.rows = runtime.rows BY <1>7, NoMatchEnds
  <2> QED BY <2>1, <2>2, <2>3
<1>8. ASSUME NEW c \in Conns, Commit(c) PROVE SyncInv'
  BY <1>1, <1>8, CommitEnds
<1> QED BY <1>2, <1>3, <1>4, <1>5, <1>6, <1>7, <1>8 DEF DataStep

-----------------------------------------------------------------------------
(* What the user wrote, and the shots of a one-shot rule. *)

\* EditsKept for one rule.
KeptEdit(r) ==
    \/ db.rows[r] = Absent /\ wanted[r] = Absent
    \/ /\ db.rows[r] # Absent /\ wanted[r] # Absent
       /\ DraftOf(db.rows[r]) =
            [wanted[r] EXCEPT !.enabled = @ /\ ~(wanted[r].oneShot /\ fired[r] > 0)]

\* The same field by field.
LEMMA KeptEditFields ==
    ASSUME NEW row \in Row, NEW want \in Drafts, NEW n \in Nat
    PROVE  DraftOf(row) = [want EXCEPT !.enabled = @ /\ ~(want.oneShot /\ n > 0)]
           <=> /\ row.enabled <=> want.enabled /\ ~(want.oneShot /\ n > 0)
               /\ row.nth = want.nth
               /\ row.oneShot = want.oneShot
               /\ row.terminal = want.terminal
               /\ row.priority = want.priority
<1> DEFINE e == want.enabled /\ ~(want.oneShot /\ n > 0)
<1>1. e \in BOOLEAN OBVIOUS
<1>2. [want EXCEPT !.enabled = e] =
        [enabled |-> e, nth |-> want.nth, oneShot |-> want.oneShot,
         terminal |-> want.terminal, priority |-> want.priority]
  BY DEF Drafts
<1>3. [want EXCEPT !.enabled = @ /\ ~(want.oneShot /\ n > 0)] = [want EXCEPT !.enabled = e]
  OBVIOUS
<1> HIDE DEF e
<1>4. DraftOf(row) = [want EXCEPT !.enabled = e]
      <=> /\ row.enabled = e
          /\ row.nth = want.nth
          /\ row.oneShot = want.oneShot
          /\ row.terminal = want.terminal
          /\ row.priority = want.priority
  BY <1>2 DEF DraftOf
<1>5. row.enabled \in BOOLEAN BY DEF Row
<1>6. (row.enabled = e) <=> (row.enabled <=> e) BY <1>1, <1>5
<1> QED BY <1>3, <1>4, <1>6 DEF e

LEMMA FreshDraft ==
    ASSUME NEW row \in Row, NEW n, n = 0, NEW want, want = DraftOf(row)
    PROVE  DraftOf(row) = [want EXCEPT !.enabled = @ /\ ~(want.oneShot /\ n > 0)]
<1>1. want \in Drafts /\ n \in Nat /\ ~(n > 0) BY DraftOfRow
<1>2. /\ row.enabled <=> want.enabled
      /\ row.nth = want.nth
      /\ row.oneShot = want.oneShot
      /\ row.terminal = want.terminal
      /\ row.priority = want.priority
  BY DEF DraftOf
<1> QED BY <1>1, <1>2, KeptEditFields

LEMMA EditsKeep ==
    ASSUME TypeOK, LockInv, SyncInv, EditsKept, OneShotOnce, DataStep
    PROVE  EditsKept' /\ OneShotOnce'
<1> DEFINE Shot(r) == db.rows[r] # Absent /\ db.rows[r].oneShot => fired[r] <= 1
<1>1. SUFFICES ASSUME NEW r \in Rules PROVE KeptEdit(r)' /\ Shot(r)'
  BY DEF EditsKept, OneShotOnce, KeptEdit
<1>2. KeptEdit(r) /\ Shot(r) BY DEF EditsKept, OneShotOnce, KeptEdit
<1>3. /\ db \in Database /\ db.rows \in Table
      /\ wanted[r] # Absent => wanted[r] \in Drafts
      /\ fired[r] \in Nat
  BY DEF TypeOK, Database
<1>4. CASE UNCHANGED <<db, wanted, fired>> BY <1>2, <1>4 DEF KeptEdit
<1>5. CASE HitsCleared
  <2>1. /\ db'.rows[r] = Absent <=> db.rows[r] = Absent
        /\ db.rows[r] # Absent => /\ db'.rows[r].oneShot = db.rows[r].oneShot
                                  /\ DraftOf(db'.rows[r]) = DraftOf(db.rows[r])
        /\ wanted' = wanted /\ fired' = fired
    BY <1>3, <1>5, ResetRows DEF HitsCleared
  <2> QED BY <1>2, <2>1 DEF KeptEdit
<1>6. CASE Edited
  <2>1. PICK new \in Database : db' = new /\ Recount(db.rows, new.rows)
    BY <1>6 DEF Edited
  <2>2. CASE new.rows[r] = db.rows[r]
    <3>1. wanted'[r] = wanted[r] /\ fired'[r] = fired[r] BY <2>1, <2>2 DEF Recount
    <3> QED BY <1>2, <2>1, <2>2, <3>1 DEF KeptEdit
  <2>3. CASE new.rows[r] # db.rows[r] /\ new.rows[r] = Absent
    <3>1. wanted'[r] = Absent BY <2>1, <2>3 DEF Recount
    <3> QED BY <2>1, <2>3, <3>1 DEF KeptEdit
  <2>4. CASE new.rows[r] # db.rows[r] /\ new.rows[r] # Absent
    <3>1. wanted'[r] = DraftOf(new.rows[r]) /\ fired'[r] = 0 BY <2>1, <2>4 DEF Recount
    <3>2. new.rows[r] \in Row BY <2>4, PresentRow DEF Database
    <3>3. DraftOf(new.rows[r]) \in Drafts BY <3>2, DraftOfRow
    <3>4. DraftOf(new.rows[r]) # Absent BY <3>3, RulesAssumption
    <3> QED BY <2>1, <2>4, <3>1, <3>2, <3>3, <3>4, KeptEditFields DEF KeptEdit, DraftOf
  <2> QED BY <2>2, <2>3, <2>4
<1>7. ASSUME NEW c \in Conns, Commit(c) PROVE KeptEdit(r)' /\ Shot(r)'
  <2>1. /\ db'.rows = AfterHits(db.rows, MatchedBy(c))
        /\ \A q \in MatchedBy(c) : q \in Rules /\ db.rows[q] \in Row /\ db.rows[q].enabled
        /\ fired' = [q \in Rules |-> IF q \in MatchedBy(c) THEN fired[q] + 1 ELSE fired[q]]
        /\ wanted' = wanted
    BY <1>7, CommitEnds DEF Commit
  <2>2. CASE r \in MatchedBy(c)
    <3>1. db.rows[r] \in Row /\ db.rows[r].enabled /\ db.rows[r] # Absent
      BY <2>1, <2>2, RowNotAbsent
    <3>2. db'.rows[r] = Hit(db.rows[r]) /\ fired'[r] = fired[r] + 1
      BY <2>1, <2>2 DEF AfterHits
    <3>3. wanted[r] \in Drafts /\ wanted[r] # Absent BY <1>2, <1>3, <3>1 DEF KeptEdit
    <3>4. /\ db.rows[r].enabled <=> wanted[r].enabled /\ ~(wanted[r].oneShot /\ fired[r] > 0)
          /\ db.rows[r].nth = wanted[r].nth
          /\ db.rows[r].oneShot = wanted[r].oneShot
          /\ db.rows[r].terminal = wanted[r].terminal
          /\ db.rows[r].priority = wanted[r].priority
      BY <1>2, <1>3, <3>1, <3>3, KeptEditFields DEF KeptEdit
    <3>5. /\ Hit(db.rows[r]) \in Row /\ Hit(db.rows[r]) # Absent
          /\ Hit(db.rows[r]).enabled <=> db.rows[r].enabled /\ ~db.rows[r].oneShot
          /\ Hit(db.rows[r]).nth = db.rows[r].nth
          /\ Hit(db.rows[r]).oneShot = db.rows[r].oneShot
          /\ Hit(db.rows[r]).terminal = db.rows[r].terminal
          /\ Hit(db.rows[r]).priority = db.rows[r].priority
      BY <3>1, HitRow, RowNotAbsent
    <3>6. fired[r] + 1 > 0 /\ fired[r] + 1 \in Nat BY <1>3
    <3>7. DraftOf(Hit(db.rows[r])) =
            [wanted[r] EXCEPT !.enabled = @ /\ ~(wanted[r].oneShot /\ fired[r] + 1 > 0)]
      BY <3>1, <3>3, <3>4, <3>5, <3>6, KeptEditFields
    <3>8. KeptEdit(r)' BY <2>1, <3>2, <3>3, <3>5, <3>7 DEF KeptEdit
    <3>9. Shot(r)' BY <1>3, <3>1, <3>2, <3>4, <3>5
    <3> QED BY <3>8, <3>9
  <2>3. CASE r \notin MatchedBy(c)
    <3>1. db'.rows[r] = db.rows[r] /\ fired'[r] = fired[r]
      BY <2>1, <2>3 DEF AfterHits
    <3> QED BY <1>2, <2>1, <3>1 DEF KeptEdit
  <2> QED BY <2>2, <2>3
<1>8. ASSUME NEW c \in Conns, EvaluateNoMatch(c) PROVE UNCHANGED <<db, wanted, fired>>
  BY <1>8, NoMatchEnds DEF EvaluateNoMatch
<1> QED
  BY <1>4, <1>5, <1>6, <1>7, <1>8 DEF DataStep, Quiet, Dropped, TakeSnapshot

\* A step delivers a match only if it commits it.
LEMMA OnlyCommitsDeliver ==
    ASSUME TypeOK, LockInv, SyncInv, DataStep, Delivered # {}
    PROVE  \E c \in Conns : Commit(c) /\ Delivered = MatchedBy(c)
<1>1. fired \in [Rules -> Nat] BY DEF TypeOK
<1>2. CASE UNCHANGED fired BY <1>1, <1>2 DEF Delivered
<1>3. CASE Edited
  <2>1. \A r \in Rules : fired'[r] = fired[r] \/ fired'[r] = 0
    BY <1>3 DEF Edited, Recount
  <2> QED BY <1>1, <2>1 DEF Delivered
<1>4. ASSUME NEW c \in Conns, Commit(c) PROVE Delivered = MatchedBy(c)
  <2>1. fired' = [r \in Rules |-> IF r \in MatchedBy(c) THEN fired[r] + 1 ELSE fired[r]]
    BY <1>4, CommitEnds
  <2>2. \A r \in MatchedBy(c) : r \in Rules BY <1>4, CommitEnds
  <2> QED BY <1>1, <2>1, <2>2 DEF Delivered
<1>5. ASSUME NEW c \in Conns, EvaluateNoMatch(c) PROVE UNCHANGED fired
  BY <1>5, NoMatchEnds
<1> QED
  BY <1>2, <1>3, <1>4, <1>5 DEF DataStep, Quiet, HitsCleared, Dropped, TakeSnapshot

LEMMA StepIsFresh ==
    ASSUME TypeOK, LockInv, SyncInv, DataStep, Delivered # {}
    PROVE  /\ \A r \in Delivered : /\ db.rows[r] # Absent /\ db.rows[r].enabled
                                   /\ db'.rows[r].hits = db.rows[r].hits + 1
           /\ \A r \in Rules \ Delivered : db'.rows[r] = db.rows[r]
<1>1. PICK c \in Conns : Commit(c) /\ Delivered = MatchedBy(c) BY OnlyCommitsDeliver
<1>2. /\ db'.rows = AfterHits(db.rows, MatchedBy(c))
      /\ \A r \in MatchedBy(c) : r \in Rules /\ db.rows[r] \in Row /\ db.rows[r].enabled
  BY <1>1, CommitEnds
<1>3. ASSUME NEW r \in Delivered
      PROVE  /\ db.rows[r] # Absent /\ db.rows[r].enabled
             /\ db'.rows[r].hits = db.rows[r].hits + 1
  <2>1. r \in Rules /\ db.rows[r] \in Row /\ db.rows[r].enabled BY <1>1, <1>2
  <2>2. db'.rows[r] = Hit(db.rows[r]) BY <1>1, <1>2, <2>1 DEF AfterHits
  <2> QED BY <2>1, <2>2, HitRow, RowNotAbsent
<1>4. ASSUME NEW r \in Rules \ Delivered PROVE db'.rows[r] = db.rows[r]
  BY <1>1, <1>2 DEF AfterHits
<1> QED BY <1>3, <1>4

-----------------------------------------------------------------------------
(* Runs. *)

LEMMA EpochKeeps ==
    ASSUME ~Overrun, TypeOK, LockInv, SyncInv, EpochInv, [Next]_vars
    PROVE  EpochInv'
<1> USE DEF EpochInv, EpochLockFree, RuntimeLockFree
<1>1. /\ current.epoch \in Nat /\ (epoch # Nothing => epoch \in Nat)
      /\ runtime # Nothing => runtime.epoch \in Nat
      /\ pc \in [Conns -> Places]
      /\ \A c \in Conns : msg[c].epoch \in Nat
      /\ Nothing \notin Epochs /\ current.epoch \in Epochs
  BY RuntimeAssumption DEF TypeOK, Runtime
<1>2. ASSUME NEW c \in Conns, Message(c) PROVE EpochInv'
  <2>1. ASSUME NEW fits \in Messages, Arrive(c, fits) PROVE EpochInv'
    <3>1. /\ pc[c] = "idle" /\ pc' = [pc EXCEPT ![c] = "ensure"]
          /\ msg' = [msg EXCEPT ![c] = [fits |-> fits, epoch |-> current.epoch,
                                        retries |-> MaxRetries]]
          /\ current.stage # "stopped"
          /\ current'.epoch = current.epoch /\ current'.stage = current.stage
          /\ UNCHANGED <<epoch, runtime>>
      BY <2>1 DEF Arrive, TypeOK
    <3>2. msg'[c].epoch = current.epoch /\ \A d \in Conns \ {c} : msg'[d] = msg[d]
      BY <3>1 DEF TypeOK
    <3> QED BY <1>1, <3>1, <3>2
  <2>2. CASE EpochFits(c) BY <1>1, <2>2 DEF EpochFits
  <2>3. CASE EpochResets(c) BY <1>1, <2>3 DEF EpochResets
  <2>4. CASE EpochEntered(c) BY <1>1, <2>4 DEF EpochEntered
  <2>5. CASE EpochRefused(c) \/ SnapshotFails(c) \/ CommitFails(c)
    BY <1>1, <2>5 DEF EpochRefused, SnapshotFails, CommitFails
  <2>6. CASE TakeSnapshot(c)
    <3>1. runtime'.epoch = msg[c].epoch BY <2>6, SnapshotTaken
    <3>2. /\ pc[c] = "evaluate" /\ pc' = [pc EXCEPT ![c] = "commit"]
          /\ UNCHANGED <<epoch, msg, current>>
      BY <2>6 DEF TakeSnapshot
    <3> QED BY <1>1, <3>1, <3>2
  <2>7. CASE EvaluateNoMatch(c) \/ Commit(c)
    <3>1. /\ pc[c] = "commit" /\ pc' = [pc EXCEPT ![c] = "idle"]
          /\ UNCHANGED <<epoch, msg, current>>
      BY <2>7 DEF EvaluateNoMatch, Commit, Deliver
    <3>2. runtime'.epoch = runtime.epoch /\ runtime # Nothing
      BY <2>7, <3>1, NoMatchEnds, CommitEnds, CountsTaken
    <3> QED BY <1>1, <3>1, <3>2
  <2>8. CASE Conflict(c)
    <3>1. /\ pc[c] = "commit" /\ pc' = [pc EXCEPT ![c] = "ensure"]
          /\ \A d \in Conns : msg'[d].epoch = msg[d].epoch
          /\ UNCHANGED <<epoch, runtime, current>>
      BY <2>8 DEF Conflict, TypeOK
    <3> QED BY <1>1, <3>1
  <2> QED BY <1>2, <2>1, <2>2, <2>3, <2>4, <2>5, <2>6, <2>7, <2>8 DEF Message
<1>3. CASE RunEnds
  <2>1. CASE StopBegins \/ StopResets \/ StopClears \/ Cancel
    BY <1>1, <2>1 DEF StopBegins, StopResets, StopClears, Cancel, ghosts, TypeOK
  <2>2. CASE StopForgets BY <1>1, <2>2 DEF StopForgets, TypeOK
  <2>3. CASE Join BY <1>1, <2>3 DEF Join, TypeOK
  <2>4. CASE StartNext BY <1>1, <2>4 DEF StartNext, TypeOK
  <2> QED BY <1>3, <2>1, <2>2, <2>3, <2>4 DEF RunEnds
<1>4. CASE Edit
  <2>1. /\ UNCHANGED <<epoch, runtime, pc, msg>>
        /\ current'.epoch = current.epoch /\ current'.stage = current.stage
    BY <1>4 DEF Edit, OpenForm, Save, Toggle, Delete, EditRefused, Create, BeginImport,
                ImportEnds, FinishImport, Written, TypeOK
  <2> QED BY <1>1, <2>1
<1>5. CASE RunsOver \/ UNCHANGED vars BY <1>5 DEF RunsOver, vars
<1> QED BY <1>2, <1>3, <1>4, <1>5 DEF Next

-----------------------------------------------------------------------------
(* Counts. *)

\* RULE-007 for one edit: what stays counted is kept by the next snapshot.
LEMMA KeptThrough ==
    ASSUME TypeOK, CountInv, NEW new \in Database, NEW r \in Rules,
           runtime # Nothing, new.rows[r] # Absent,
           r \notin recounted, r \notin MustRecount(db.rows, new.rows)
    PROVE  Kept(runtime.rows, new.rows, r)
<1>1. /\ db.rows[r] # Absent
      /\ ~MustReset(db.rows[r], DraftOf(new.rows[r]))
  BY DEF MustRecount
<1>2. Kept(runtime.rows, db.rows, r) BY <1>1 DEF CountInv
<1>3. /\ runtime.rows[r] \in Row /\ db.rows[r] \in Row /\ new.rows[r] \in Row
  BY <1>1, <1>2, PresentRow DEF TypeOK, Database, Runtime, Kept
<1>4. /\ db.rows[r].nth = new.rows[r].nth
      /\ db.rows[r].enabled \/ ~new.rows[r].enabled
  BY <1>1 DEF MustReset, DraftOf
<1> QED BY <1>1, <1>2, <1>3, <1>4 DEF Kept

LEMMA CountsZero == \A r \in Rules, t \in Terminals : Forget[r][t] = 0
BY DEF Forget, NoCounters

\* One candidate more, for the engine and for the ghosts.
LEMMA CountsAgree ==
    ASSUME TypeOK, LockInv, CountInv, NEW c \in Conns, pc[c] = "commit",
           NEW r \in Rules, NEW t \in Terminals, runtime # Nothing
    PROVE  /\ CountersAfter(c)[r][t] <= Tally(total, c, Rules)[r][t]
           /\ r \in recounted => Tally(seen, c, Rules \ recounted)[r] = seen[r]
           /\ seen[r][t] <= runtime.counters[r][t]
                => Tally(seen, c, Rules \ recounted)[r][t] <= CountersAfter(c)[r][t]
<1>1. /\ runtime \in Runtime
      /\ seen \in Counters /\ total \in Counters /\ runtime.counters \in Counters
      /\ TermOf[c] \in Terminals
  BY CountsTaken DEF TypeOK, Runtime
<1>2. /\ runtime.counters[r] \in [Terminals -> Nat]
      /\ seen[r] \in [Terminals -> Nat] /\ total[r] \in [Terminals -> Nat]
      /\ \A q \in Terminals : runtime.counters[r][q] \in Nat /\ seen[r][q] \in Nat
                              /\ total[r][q] \in Nat
  BY <1>1 DEF Counters
<1>3. runtime.counters[r][t] <= total[r][t] BY DEF CountInv, CountedOnce
<1>4. /\ Tally(total, c, Rules)[r] =
            IF CountersAfter(c)[r] # runtime.counters[r]
            THEN [total[r] EXCEPT ![TermOf[c]] = @ + 1] ELSE total[r]
      /\ Tally(seen, c, Rules \ recounted)[r] =
            IF r \notin recounted /\ CountersAfter(c)[r] # runtime.counters[r]
            THEN [seen[r] EXCEPT ![TermOf[c]] = @ + 1] ELSE seen[r]
  BY <1>1, Tallied
<1>5. CASE CountersAfter(c)[r] = runtime.counters[r]
  BY <1>2, <1>3, <1>4, <1>5
<1>6. CASE /\ CountersAfter(c)[r] # runtime.counters[r]
           /\ CountersAfter(c)[r] = [runtime.counters[r] EXCEPT ![TermOf[c]] = @ + 1]
  BY <1>1, <1>2, <1>3, <1>4, <1>6
<1> QED BY <1>5, <1>6, CountsTaken

\* Both ways an evaluation can end well, for the counts.
LEMMA EvaluationCounts ==
    ASSUME TypeOK, LockInv, CountInv, NEW c \in Conns, pc[c] = "commit",
           seen' = Tally(seen, c, Rules \ recounted), total' = Tally(total, c, Rules),
           recounted' = recounted, runtime' # Nothing,
           runtime'.counters = CountersAfter(c),
           \A r \in Rules : /\ db'.rows[r] = Absent <=> db.rows[r] = Absent
                            /\ runtime'.rows[r] = Absent <=> runtime.rows[r] = Absent,
           \A r \in Rules \ recounted :
                db'.rows[r] # Absent /\ Kept(runtime.rows, db.rows, r)
                  => Kept(runtime'.rows, db'.rows, r)
    PROVE  CountInv'
<1>1. runtime # Nothing BY DEF LockInv
<1>2. \A r \in recounted, t \in Terminals : seen'[r][t] = 0
  <2>1. SUFFICES ASSUME NEW r \in recounted, NEW t \in Terminals PROVE seen'[r][t] = 0
    OBVIOUS
  <2>2. r \in Rules /\ seen[r][t] = 0 BY DEF TypeOK, CountInv
  <2>3. Tally(seen, c, Rules \ recounted)[r] = seen[r] BY <1>1, <2>2, CountsAgree
  <2> QED BY <2>2, <2>3
<1>3. \A r \in Rules \ recounted : db'.rows[r] # Absent => Kept(runtime'.rows, db'.rows, r)
  BY <1>1 DEF CountInv
<1>4. CountedOnce'
  <2>1. SUFFICES ASSUME NEW r \in Rules, NEW t \in Terminals
                 PROVE  /\ runtime'.counters[r][t] <= total'[r][t]
                        /\ db'.rows[r] # Absent /\ runtime'.rows[r] # Absent
                             => seen'[r][t] <= runtime'.counters[r][t]
    BY DEF CountedOnce
  <2>2. db.rows[r] # Absent /\ runtime.rows[r] # Absent
          => seen[r][t] <= runtime.counters[r][t]
    BY <1>1 DEF CountInv, CountedOnce
  <2> QED BY <1>1, <2>2, CountsAgree
<1> QED BY <1>2, <1>3, <1>4 DEF CountInv

LEMMA CountKeeps ==
    ASSUME TypeOK, LockInv, SyncInv, EpochInv, CountInv, DataStep
    PROVE  CountInv'
<1>1. /\ db \in Database /\ db.rows \in Table /\ seen \in Counters /\ total \in Counters
      /\ \A r \in Rules, t \in Terminals : seen[r][t] \in Nat /\ total[r][t] \in Nat
      /\ runtime # Nothing => /\ runtime.rows \in Table /\ runtime.counters \in Counters
                              /\ \A r \in Rules, t \in Terminals :
                                    runtime.counters[r][t] \in Nat
  BY DEF TypeOK, Database, Runtime, Counters
<1>2. CASE Quiet BY <1>2 DEF Quiet, CountInv, CountedOnce
<1>3. CASE HitsCleared
  <2>1. \A r \in Rules :
           /\ db'.rows[r] = Absent <=> db.rows[r] = Absent
           /\ db.rows[r] # Absent => /\ db'.rows[r].nth = db.rows[r].nth
                                     /\ db'.rows[r].enabled = db.rows[r].enabled
    BY <1>1, <1>3, ResetRows DEF HitsCleared
  <2>2. \A r \in Rules : Kept(runtime.rows, db.rows, r) => Kept(runtime.rows, db'.rows, r)
    BY <2>1 DEF Kept
  <2> QED BY <1>3, <2>1, <2>2 DEF HitsCleared, CountInv, CountedOnce
<1>4. CASE Dropped BY <1>4, CountsZero DEF Dropped, CountInv, CountedOnce, TypeOK
<1>5. CASE Edited
  <2>1. PICK new \in Database :
           /\ db' = new /\ Recount(db.rows, new.rows) /\ UNCHANGED <<runtime, total>>
    BY <1>5 DEF Edited
  <2> DEFINE again == MustRecount(db.rows, new.rows)
  <2>2. /\ recounted' = recounted \cup again
        /\ \A r \in Rules, t \in Terminals :
              /\ r \in again => seen'[r][t] = 0
              /\ r \notin again => seen'[r][t] = seen[r][t]
        /\ \A r \in Rules : new.rows[r] # Absent /\ r \notin again => db.rows[r] # Absent
    BY <2>1 DEF Recount, MustRecount
  <2>3. ASSUME runtime # Nothing, NEW r \in Rules \ recounted', db'.rows[r] # Absent
        PROVE  Kept(runtime.rows, db'.rows, r)
    BY <2>1, <2>2, <2>3, KeptThrough
  <2> HIDE DEF again
  <2>4. \A r \in recounted', t \in Terminals : r \in Rules => seen'[r][t] = 0
    BY <2>2 DEF CountInv
  <2>5. recounted' \subseteq Rules BY <2>2 DEF TypeOK, again, MustRecount
  <2>6. CountedOnce'
    BY <1>1, <2>1, <2>2 DEF CountInv, CountedOnce
  <2>7. runtime = Nothing => \A r \in Rules, t \in Terminals : seen'[r][t] = 0
    BY <2>2 DEF CountInv
  <2> QED BY <2>1, <2>3, <2>4, <2>5, <2>6, <2>7 DEF CountInv
<1>6. ASSUME NEW c \in Conns, TakeSnapshot(c) PROVE CountInv'
  <2>1. /\ pc[c] = "evaluate" /\ recounted' = {} /\ seen' = seen /\ db' = db
    BY <1>6 DEF TakeSnapshot
  <2>2. /\ runtime' \in Runtime /\ runtime' # Nothing
        /\ runtime'.rows = db.rows
        /\ \/ ~RuntimeFits(c) /\ runtime'.counters = NoCounters /\ total' = Forget
           \/ /\ RuntimeFits(c) /\ total' = total
              /\ \A r \in Rules :
                    \/ /\ runtime'.counters[r] = runtime.counters[r]
                       /\ db.rows[r] # Absent => runtime.rows[r] # Absent
                    \/ /\ runtime'.counters[r] = [t \in Terminals |-> 0]
                       /\ ~Kept(runtime.rows, db.rows, r)
    BY <1>6, SnapshotTaken, RuntimeAssumption
  <2>3. ASSUME NEW r \in Rules, db.rows[r] # Absent
        PROVE  Kept(runtime'.rows, db'.rows, r)
    BY <2>1, <2>2, <2>3, PresentRow, <1>1 DEF Kept, Row
  <2>4. CASE ~RuntimeFits(c)
    <3>1. runtime = Nothing BY <2>1, <2>4 DEF RuntimeFits, EpochInv
    <3>2. \A r \in Rules, t \in Terminals : seen[r][t] = 0 BY <3>1 DEF CountInv
    <3>3. runtime'.counters = NoCounters /\ total' = Forget BY <2>2, <2>4
    <3>4. CountedOnce' BY <2>1, <3>2, <3>3, CountsZero DEF CountedOnce, Forget
    <3> QED BY <2>1, <2>2, <2>3, <3>2, <3>4 DEF CountInv
  <2>5. CASE RuntimeFits(c)
    <3>1. runtime # Nothing BY <2>5 DEF RuntimeFits
    <3>2. ASSUME NEW r \in Rules, NEW t \in Terminals
          PROVE  /\ runtime'.counters[r][t] <= total[r][t]
                 /\ db.rows[r] # Absent => seen[r][t] <= runtime'.counters[r][t]
      <4>1. CASE /\ runtime'.counters[r] = runtime.counters[r]
                 /\ db.rows[r] # Absent => runtime.rows[r] # Absent
        BY <3>1, <4>1 DEF CountInv, CountedOnce
      <4>2. CASE /\ runtime'.counters[r] = [q \in Terminals |-> 0]
                 /\ ~Kept(runtime.rows, db.rows, r)
        <5>1. db.rows[r] # Absent => seen[r][t] = 0 BY <3>1, <4>2 DEF CountInv
        <5> QED BY <1>1, <4>2, <5>1
      <4> QED BY <2>2, <2>5, <4>1, <4>2
    <3>3. total' = total BY <2>2, <2>5
    <3>4. CountedOnce' BY <2>1, <3>2, <3>3 DEF CountedOnce
    <3> QED BY <2>1, <2>2, <2>3, <3>4 DEF CountInv
  <2> QED BY <2>4, <2>5
<1>7. ASSUME NEW c \in Conns, EvaluateNoMatch(c) PROVE CountInv'
  <2>1. /\ pc[c] = "commit" /\ db' = db /\ recounted' = recounted
        /\ seen' = Tally(seen, c, Rules \ recounted) /\ total' = Tally(total, c, Rules)
    BY <1>7 DEF EvaluateNoMatch, Deliver
  <2>2. /\ runtime' # Nothing /\ runtime'.rows = runtime.rows
        /\ runtime'.counters = CountersAfter(c)
    BY <1>7, NoMatchEnds, RuntimeAssumption
  <2> QED BY <2>1, <2>2, EvaluationCounts
<1>8. ASSUME NEW c \in Conns, Commit(c) PROVE CountInv'
  <2>1. /\ pc[c] = "commit" /\ recounted' = recounted
        /\ seen' = Tally(seen, c, Rules \ recounted) /\ total' = Tally(total, c, Rules)
    BY <1>8 DEF Commit, Deliver
  <2>2. /\ runtime' # Nothing /\ runtime'.rows = db'.rows /\ db.rows = runtime.rows
        /\ db'.rows = AfterHits(db.rows, MatchedBy(c))
        /\ MatchedBy(c) \in SUBSET Present(db.rows)
        /\ runtime'.counters = CountersAfter(c) /\ db' \in Database
    BY <1>8, CommitEnds, RuntimeAssumption
  <2>3. \A r \in Rules : db'.rows[r] = Absent <=> db.rows[r] = Absent
    BY <1>1, <2>2, HitTable
  <2>4. ASSUME NEW r \in Rules, db'.rows[r] # Absent
        PROVE  Kept(runtime'.rows, db'.rows, r)
    <3>1. db'.rows[r] \in Row BY <2>2, <2>4, PresentRow DEF Database
    <3> QED BY <2>2, <2>4, <3>1 DEF Kept, Row
  <2> QED BY <2>1, <2>2, <2>3, <2>4, EvaluationCounts
<1> QED BY <1>2, <1>3, <1>4, <1>5, <1>6, <1>7, <1>8 DEF DataStep

-----------------------------------------------------------------------------
(* What a run starts with. *)

LEMMA BusyGrows ==
    ASSUME TypeOK, CleanInv, NEW c \in Conns, pc[c] = "idle", NEW place \in Places \ {"idle"},
           pc' = [pc EXCEPT ![c] = place]
    PROVE  IsFiniteSet(Busy') /\ Cardinality(Busy') = Cardinality(Busy) + 1
<1>1. Busy' = Busy \cup {c} BY DEF Busy, TypeOK
<1>2. c \notin Busy BY DEF Busy
<1> QED BY <1>1, <1>2, FS_AddElement DEF CleanInv

LEMMA BusyShrinks ==
    ASSUME TypeOK, CleanInv, NEW c \in Conns, pc[c] # "idle", pc' = [pc EXCEPT ![c] = "idle"]
    PROVE  IsFiniteSet(Busy') /\ Cardinality(Busy') = Cardinality(Busy) - 1
<1>1. Busy' = Busy \ {c} BY DEF Busy, TypeOK
<1>2. c \in Busy BY DEF Busy
<1> QED BY <1>1, <1>2, FS_RemoveElement DEF CleanInv

LEMMA BusyStays ==
    ASSUME TypeOK, CleanInv, NEW c \in Conns, pc[c] # "idle", NEW place \in Places \ {"idle"},
           pc' = [pc EXCEPT ![c] = place]
    PROVE  Busy' = Busy
BY DEF Busy, TypeOK

\* Within a run messages are done with, never undone.
Onward(n) ==
    /\ IsFiniteSet(Busy')
    /\ Done' \in Int /\ Done' >= Done + n
    /\ current'.epoch = current.epoch
    /\ \A r \in Rules : current'.brought[r] >= current.brought[r]

LEMMA OnwardSame ==
    ASSUME TypeOK, CleanInv, Busy' = Busy, current'.arrived = current.arrived,
           current'.epoch = current.epoch, current'.brought = current.brought
    PROVE  Onward(0)
<1>1. /\ IsFiniteSet(Busy') /\ Cardinality(Busy) \in Nat
      /\ Cardinality(Busy') = Cardinality(Busy)
      /\ current.arrived \in Nat /\ current.brought \in [Rules -> Nat]
  BY FS_CardinalityType DEF CleanInv, TypeOK
<1> QED BY <1>1 DEF Onward, Done

LEMMA OnwardDone ==
    ASSUME TypeOK, CleanInv, NEW c \in Conns, pc[c] # "idle", pc' = [pc EXCEPT ![c] = "idle"],
           current' = current
    PROVE  Onward(1) /\ Onward(0)
<1>1. /\ IsFiniteSet(Busy') /\ Cardinality(Busy) \in Nat
      /\ Cardinality(Busy') = Cardinality(Busy) - 1
      /\ current.arrived \in Nat /\ current.brought \in [Rules -> Nat]
  BY BusyShrinks, FS_CardinalityType DEF CleanInv, TypeOK
<1> QED BY <1>1 DEF Onward, Done

LEMMA MessageOnward ==
    ASSUME TypeOK, CleanInv, NEW c \in Conns, Message(c)
    PROVE  Onward(0)
<1>1. ASSUME NEW fits \in Messages, Arrive(c, fits) PROVE Onward(0)
  <2>1. /\ pc[c] = "idle" /\ pc' = [pc EXCEPT ![c] = "ensure"]
        /\ current' = [current EXCEPT !.arrived = @ + 1]
    BY <1>1 DEF Arrive
  <2>2. "ensure" \in Places \ {"idle"} BY DEF Places
  <2>3. IsFiniteSet(Busy') /\ Cardinality(Busy') = Cardinality(Busy) + 1
    BY <2>1, <2>2, BusyGrows
  <2>4. /\ Cardinality(Busy) \in Nat
        /\ current.arrived \in Nat /\ current.brought \in [Rules -> Nat]
        /\ current'.arrived = current.arrived + 1 /\ current'.brought = current.brought
        /\ current'.epoch = current.epoch
    BY <2>1, FS_CardinalityType DEF CleanInv, TypeOK
  <2> QED BY <2>3, <2>4 DEF Onward, Done
<1>2. CASE EpochFits(c) \/ EpochResets(c) \/ EpochEntered(c) \/ TakeSnapshot(c) \/ Conflict(c)
  <2>1. /\ pc[c] # "idle" /\ current' = current
        /\ \E place \in Places \ {"idle"} : pc' = [pc EXCEPT ![c] = place]
    BY <1>2 DEF EpochFits, EpochResets, EpochEntered, TakeSnapshot, Conflict, Places
  <2> QED BY <2>1, BusyStays, OnwardSame
<1>3. CASE \/ EpochRefused(c) \/ SnapshotFails(c) \/ CommitFails(c)
           \/ EvaluateNoMatch(c) \/ Commit(c)
  <2>1. pc[c] # "idle" /\ current' = current /\ pc' = [pc EXCEPT ![c] = "idle"]
    BY <1>3 DEF EpochRefused, SnapshotFails, CommitFails, EvaluateNoMatch, Commit, Deliver
  <2> QED BY <2>1, OnwardDone
<1> QED BY <1>1, <1>2, <1>3 DEF Message

LEMMA StepsOnward ==
    ASSUME TypeOK, CleanInv, [Next]_vars
    PROVE  Onward(0) \/ StartNext
<1>1. CASE \E c \in Conns : Message(c) BY <1>1, MessageOnward
<1>2. CASE RunEnds /\ ~StartNext
  <2>1. /\ pc' = pc /\ current'.arrived = current.arrived
        /\ current'.epoch = current.epoch /\ current'.brought = current.brought
    BY <1>2 DEF RunEnds, StopBegins, StopResets, StopClears, StopForgets, Cancel, Join, TypeOK
  <2> QED BY <2>1, OnwardSame DEF Busy
<1>3. ASSUME NEW rows \in Files, FinishImport(rows) PROVE Onward(0)
  <2>1. /\ pc' = pc
        /\ current' = [current EXCEPT !.brought = [r \in Rules |->
                          IF rows[r] # Absent /\ rows[r].hits > @[r]
                          THEN rows[r].hits ELSE @[r]]]
    BY <1>3 DEF FinishImport, Written
  <2>2. /\ Busy' = Busy /\ Cardinality(Busy) \in Nat /\ IsFiniteSet(Busy)
        /\ current.arrived \in Nat /\ current.brought \in [Rules -> Nat]
    BY <2>1, FS_CardinalityType DEF CleanInv, TypeOK, Busy
  <2>3. /\ current'.arrived = current.arrived /\ current'.epoch = current.epoch
        /\ \A r \in Rules :
              current'.brought[r] = IF rows[r] # Absent /\ rows[r].hits > current.brought[r]
                                    THEN rows[r].hits ELSE current.brought[r]
    BY <2>1 DEF TypeOK
  <2>4. \A r \in Rules : rows[r] # Absent => rows[r].hits \in Nat
    BY RuntimeAssumption, PresentRow DEF Row
  <2>5. \A r \in Rules : current'.brought[r] >= current.brought[r]
    BY <2>2, <2>3, <2>4
  <2> QED BY <2>2, <2>3, <2>5 DEF Onward, Done
<1>4. CASE Edit /\ ~(\E rows \in Files : FinishImport(rows))
  <2>1. pc' = pc /\ current' = current
    BY <1>4 DEF Edit, OpenForm, Save, Toggle, Delete, EditRefused, Create, BeginImport,
                ImportEnds, Written
  <2> QED BY <2>1, OnwardSame DEF Busy
<1>5. CASE RunsOver \/ UNCHANGED vars
  BY <1>5, OnwardSame DEF RunsOver, vars, Busy
<1> QED BY <1>1, <1>2, <1>3, <1>4, <1>5 DEF Next

\* Whoever works with the table in this run found it reset in this run.
Active ==
    \/ epoch = current.epoch
    \/ \E c \in Conns : pc[c] \in {"resetting", "evaluate", "commit"}

LEMMA ActiveSteps ==
    ASSUME TypeOK, EpochInv, [Next]_vars, ~StartNext, Active'
    PROVE  Active \/ HitsCleared
<1> USE DEF Active
<1>1. ASSUME NEW c \in Conns, Message(c) PROVE Active \/ HitsCleared
  <2> USE DEF TypeOK
  <2>1. CASE \E fits \in Messages : Arrive(c, fits) BY <2>1 DEF Arrive
  <2>2. CASE EpochFits(c) BY <2>2 DEF EpochFits, ghosts, EpochInv
  <2>3. CASE EpochResets(c) BY <2>3 DEF EpochResets, HitsCleared, ghosts
  <2>4. CASE EpochEntered(c) \/ TakeSnapshot(c) \/ Conflict(c)
    BY <2>4 DEF EpochEntered, TakeSnapshot, Conflict
  <2>5. CASE \/ EpochRefused(c) \/ SnapshotFails(c) \/ CommitFails(c)
             \/ EvaluateNoMatch(c) \/ Commit(c)
    BY <2>5 DEF EpochRefused, SnapshotFails, CommitFails, EvaluateNoMatch, Commit, Deliver
  <2> QED BY <1>1, <2>1, <2>2, <2>3, <2>4, <2>5 DEF Message
<1>2. CASE StopForgets
  <2>1. epoch' = Nothing /\ current'.epoch \in Epochs /\ pc' = pc
    BY <1>2 DEF StopForgets, TypeOK
  <2> QED BY <2>1, RuntimeAssumption
<1>3. CASE StopBegins \/ StopResets \/ StopClears \/ Cancel \/ Join
  BY <1>3 DEF StopBegins, StopResets, StopClears, Cancel, Join, TypeOK
<1>4. CASE Edit
  BY <1>4 DEF Edit, OpenForm, Save, Toggle, Delete, EditRefused, Create, BeginImport,
              ImportEnds, FinishImport, Written, TypeOK
<1>5. CASE RunsOver \/ UNCHANGED vars BY <1>5 DEF RunsOver, vars
<1> QED BY <1>1, <1>2, <1>3, <1>4, <1>5 DEF Next, RunEnds

\* The lock is taken by a snapshot.
LEMMA CommitPlace ==
    ASSUME TypeOK, [Next]_vars, NEW c \in Conns, pc'[c] = "commit"
    PROVE  pc[c] = "commit" \/ TakeSnapshot(c)
<1>1. ASSUME NEW d \in Conns, Message(d) PROVE pc[c] = "commit" \/ TakeSnapshot(c)
  BY <1>1 DEF Message, Arrive, EpochFits, EpochResets, EpochEntered, EpochRefused,
              TakeSnapshot, SnapshotFails, EvaluateNoMatch, Commit, Conflict, CommitFails,
              Deliver, TypeOK
<1>2. CASE RunEnds
  BY <1>2 DEF RunEnds, StopBegins, StopResets, StopClears, StopForgets, Cancel, Join,
              StartNext
<1>3. CASE Edit
  BY <1>3 DEF Edit, OpenForm, Save, Toggle, Delete, EditRefused, Create, BeginImport,
              ImportEnds, FinishImport, Written
<1>4. CASE RunsOver \/ UNCHANGED vars BY <1>4 DEF RunsOver, vars
<1> QED BY <1>1, <1>2, <1>3, <1>4 DEF Next

LEMMA DoneType ==
    ASSUME TypeOK, CleanInv
    PROVE  /\ Done \in Nat /\ current.brought \in [Rules -> Nat] /\ current.epoch \in Nat
           /\ \A r \in Rules : current.brought[r] \in Nat
<1>1. Cardinality(Busy) \in Nat /\ current.arrived \in Nat /\ Done >= 0
  BY FS_CardinalityType DEF CleanInv, TypeOK
<1>2. Done \in Nat BY <1>1 DEF Done
<1>3. current.brought \in [Rules -> Nat] /\ current.epoch \in Nat
  BY RuntimeAssumption DEF TypeOK
<1> QED BY <1>2, <1>3

\* The hits of the table, over one step.
LEMMA HitsStayClean ==
    ASSUME TypeOK, LockInv, SyncInv, CleanInv, Onward(0), DataStep, TypeOK',
           Active \/ HitsCleared
    PROVE  CleanHits(db.rows)'
<1>1. /\ Done \in Nat /\ Done' \in Int /\ Done' >= Done
      /\ \A r \in Rules : /\ current.brought[r] \in Nat /\ current'.brought[r] \in Nat
                          /\ current'.brought[r] >= current.brought[r]
  BY DoneType DEF Onward, TypeOK
<1>2. /\ db \in Database /\ db.rows \in Table
      /\ \A r \in Rules : db.rows[r] # Absent => db.rows[r].hits \in Nat
  BY PresentRow DEF TypeOK, Database, Row
<1>3. CASE HitsCleared BY <1>1, <1>2, <1>3, ResetRows DEF HitsCleared, CleanHits
<1>4. CASE Active /\ UNCHANGED db BY <1>1, <1>2, <1>4 DEF Active, CleanInv, CleanHits
<1>5. CASE Active /\ Edited
  <2>1. CleanHits(db.rows) BY <1>5 DEF Active, CleanInv
  <2>2. PICK new \in Database :
           /\ db' = new
           /\ \A r \in Rules : new.rows[r] # Absent =>
                 \/ new.rows[r].hits <= current'.brought[r]
                 \/ db.rows[r] # Absent /\ new.rows[r].hits <= db.rows[r].hits
    BY <1>5 DEF Edited
  <2>3. \A r \in Rules : new.rows[r] # Absent => new.rows[r].hits \in Nat
    BY PresentRow DEF Database, Row
  <2> QED BY <1>1, <1>2, <2>1, <2>2, <2>3 DEF CleanHits
<1>6. ASSUME Active, NEW c \in Conns, Commit(c) PROVE CleanHits(db.rows)'
  <2>1. CleanHits(db.rows) BY <1>6 DEF Active, CleanInv
  <2>2. /\ db'.rows = AfterHits(db.rows, MatchedBy(c))
        /\ \A r \in MatchedBy(c) : r \in Rules /\ db.rows[r] \in Row
    BY <1>6, CommitEnds
  <2>3. Done' >= Done + 1
    <3>1. pc[c] # "idle" /\ pc' = [pc EXCEPT ![c] = "idle"] /\ current' = current
      BY <1>6 DEF Commit, Deliver
    <3> QED BY <3>1, OnwardDone DEF Onward
  <2>4. ASSUME NEW r \in Rules, db'.rows[r] # Absent
        PROVE  db'.rows[r].hits <= Done' + current'.brought[r]
    <3>1. CASE r \in MatchedBy(c)
      <4>1. db'.rows[r] = Hit(db.rows[r]) /\ db.rows[r] \in Row /\ db.rows[r] # Absent
        BY <2>2, <3>1, RowNotAbsent DEF AfterHits
      <4>2. db'.rows[r].hits = db.rows[r].hits + 1 BY <4>1, HitRow
      <4>3. db.rows[r].hits <= Done + current.brought[r] BY <2>1, <4>1 DEF CleanHits
      <4> QED BY <1>1, <1>2, <2>3, <4>1, <4>2, <4>3
    <3>2. CASE r \notin MatchedBy(c)
      <4>1. db'.rows[r] = db.rows[r] BY <2>2, <3>2 DEF AfterHits
      <4>2. db.rows[r].hits <= Done + current.brought[r] BY <2>1, <2>4, <4>1 DEF CleanHits
      <4> QED BY <1>1, <1>2, <2>4, <4>1, <4>2
    <3> QED BY <3>1, <3>2
  <2> QED BY <2>4 DEF CleanHits
<1> QED
  BY <1>3, <1>4, <1>5, <1>6 DEF DataStep, Quiet, Dropped, TakeSnapshot, EvaluateNoMatch

LEMMA SnapshotStaysClean ==
    ASSUME TypeOK, LockInv, SyncInv, CleanInv, Onward(0), DataStep, TypeOK', LockInv',
           [Next]_vars, NEW c \in Conns, pc'[c] = "commit"
    PROVE  CleanHits(runtime.rows)'
<1>1. /\ Done \in Nat /\ Done' \in Int /\ Done' >= Done
      /\ \A r \in Rules : /\ current.brought[r] \in Nat /\ current'.brought[r] \in Nat
                          /\ current'.brought[r] >= current.brought[r]
  BY DoneType DEF Onward, TypeOK
<1>2. ASSUME NEW rows \in Table, CleanHits(rows), runtime'.rows = rows
      PROVE  CleanHits(runtime.rows)'
  <2>1. \A r \in Rules : rows[r] # Absent => rows[r].hits \in Nat
    BY PresentRow DEF Row
  <2> QED BY <1>1, <1>2, <2>1 DEF CleanHits
<1>3. CASE TakeSnapshot(c)
  <2>1. pc[c] = "evaluate" /\ runtime'.rows = db.rows /\ db.rows \in Table
    BY <1>3, SnapshotTaken DEF TakeSnapshot, TypeOK, Database
  <2>2. CleanHits(db.rows) BY <2>1 DEF CleanInv
  <2> QED BY <1>2, <2>1, <2>2
<1>4. CASE pc[c] = "commit" /\ ~TakeSnapshot(c)
  <2>1. runtime \in Runtime /\ CleanHits(runtime.rows) /\ runtime.rows \in Table
    BY <1>4 DEF CleanInv, LockInv, TypeOK, Runtime
  <2>2. CASE UNCHANGED runtime BY <1>2, <2>1, <2>2
  <2>3. CASE Dropped BY <2>3 DEF Dropped, LockInv
  <2>4. ASSUME NEW d \in Conns, TakeSnapshot(d) PROVE FALSE
    BY <1>4, <2>4 DEF TakeSnapshot, RuntimeLockFree
  <2>5. ASSUME NEW d \in Conns, EvaluateNoMatch(d) \/ Commit(d) PROVE FALSE
    <3>1. pc[d] = "commit" /\ pc' = [pc EXCEPT ![d] = "idle"]
      BY <2>5 DEF EvaluateNoMatch, Commit, Deliver
    <3>2. d = c BY <1>4, <3>1 DEF LockInv
    <3> QED BY <3>1, <3>2 DEF TypeOK
  <2> QED
    BY <2>2, <2>3, <2>4, <2>5 DEF DataStep, Quiet, HitsCleared, Edited
<1> QED BY <1>3, <1>4, CommitPlace

LEMMA CountersStayClean ==
    ASSUME TypeOK, LockInv, SyncInv, EpochInv, CleanInv, Onward(0), DataStep, TypeOK',
           runtime' # Nothing, runtime'.epoch = current'.epoch,
           NEW r \in Rules, NEW t \in Terminals
    PROVE  runtime'.counters[r][t] <= Done'
<1>1. /\ Done \in Nat /\ Done' \in Int /\ Done' >= Done
      /\ current'.epoch = current.epoch
  BY DoneType DEF Onward
<1>2. runtime # Nothing => /\ runtime \in Runtime
                           /\ runtime.counters[r] \in [Terminals -> Nat]
                           /\ runtime.counters[r][t] \in Nat
  BY DEF TypeOK, Runtime, Counters
<1>3. runtime # Nothing /\ runtime.epoch = current.epoch => runtime.counters[r][t] <= Done
  BY DEF CleanInv
<1>4. CASE UNCHANGED runtime BY <1>1, <1>2, <1>3, <1>4
<1>5. CASE Dropped BY <1>5 DEF Dropped
<1>6. ASSUME NEW c \in Conns, TakeSnapshot(c) PROVE runtime'.counters[r][t] <= Done'
  <2>1. CASE runtime'.counters = NoCounters BY <1>1, <2>1 DEF NoCounters
  <2>2. CASE runtime'.counters[r] = [q \in Terminals |-> 0] BY <1>1, <2>2
  <2>3. CASE RuntimeFits(c) /\ runtime'.counters[r] = runtime.counters[r]
    <3>1. pc[c] = "evaluate" BY <1>6 DEF TakeSnapshot
    <3>2. runtime # Nothing /\ runtime.epoch = current.epoch
      BY <2>3, <3>1 DEF RuntimeFits, EpochInv
    <3> QED BY <1>1, <1>2, <1>3, <2>3, <3>2
  <2> QED BY <1>6, <2>1, <2>2, <2>3, SnapshotTaken
<1>7. ASSUME NEW c \in Conns, EvaluateNoMatch(c) \/ Commit(c)
      PROVE  runtime'.counters[r][t] <= Done'
  <2>1. /\ runtime'.epoch = runtime.epoch /\ runtime'.counters = CountersAfter(c)
        /\ pc[c] = "commit" /\ pc' = [pc EXCEPT ![c] = "idle"] /\ current' = current
    BY <1>7, NoMatchEnds, CommitEnds DEF EvaluateNoMatch, Commit, Deliver
  <2>2. Done' >= Done + 1 BY <2>1, OnwardDone DEF Onward
  <2>3. runtime # Nothing /\ TermOf[c] \in Terminals BY <2>1, CountsTaken
  <2>4. runtime.counters[r][t] <= Done BY <1>1, <1>3, <2>1, <2>3
  <2>5. CASE CountersAfter(c)[r] = runtime.counters[r]
    BY <1>1, <1>2, <2>1, <2>2, <2>3, <2>4, <2>5
  <2>6. CASE CountersAfter(c)[r] = [runtime.counters[r] EXCEPT ![TermOf[c]] = @ + 1]
    <3>1. CountersAfter(c)[r][t] <= runtime.counters[r][t] + 1
      BY <1>2, <2>3, <2>6
    <3>2. CountersAfter(c)[r][t] \in Nat BY <1>2, <2>3, <2>6
    <3> QED BY <1>1, <1>2, <2>1, <2>2, <2>3, <2>4, <3>1, <3>2
  <2> QED BY <2>1, <2>5, <2>6, CountsTaken
<1> QED BY <1>4, <1>5, <1>6, <1>7 DEF DataStep, Quiet, HitsCleared, Edited

LEMMA NextRunIsClean ==
    ASSUME TypeOK, EpochInv, StartNext
    PROVE  CleanInv'
<1>1. /\ \A c \in Conns : pc[c] = "idle"
      /\ UNCHANGED <<epoch, runtime, pc>>
      /\ current'.epoch = current.epoch + 1 /\ current'.arrived = 0
  BY DEF StartNext, EpochInv
<1>2. /\ current.epoch \in Nat
      /\ epoch # Nothing => epoch \in Nat
      /\ runtime # Nothing => runtime.epoch \in Nat
      /\ current.epoch + 1 # Nothing
  BY RuntimeAssumption DEF TypeOK, Runtime, StartNext
<1>3. Busy' = {} BY <1>1 DEF Busy
<1>4. IsFiniteSet(Busy') /\ Cardinality(Busy') = 0 BY <1>3, FS_EmptySet
<1>5. Done' = 0 BY <1>1, <1>4 DEF Done
<1>6. epoch' # current'.epoch BY <1>1, <1>2 DEF EpochInv
<1>7. runtime' # Nothing => runtime'.epoch # current'.epoch BY <1>1, <1>2 DEF EpochInv
<1> QED BY <1>1, <1>4, <1>5, <1>6, <1>7 DEF CleanInv

LEMMA CleanKeeps ==
    ASSUME TypeOK, LockInv, SyncInv, EpochInv, CleanInv, TypeOK', LockInv', [Next]_vars
    PROVE  CleanInv'
<1>1. DataStep BY DataSteps
<1>2. CASE Onward(0) /\ ~StartNext
  <2>1. IsFiniteSet(Busy') /\ Done' >= 0 BY <1>2, DoneType DEF Onward
  <2>2. Active' => CleanHits(db.rows)' BY <1>1, <1>2, ActiveSteps, HitsStayClean
  <2>3. (\E c \in Conns : pc'[c] = "commit") => CleanHits(runtime.rows)'
    BY <1>1, <1>2, SnapshotStaysClean
  <2>4. runtime' # Nothing /\ runtime'.epoch = current'.epoch =>
           \A r \in Rules, t \in Terminals : runtime'.counters[r][t] <= Done'
    BY <1>1, <1>2, CountersStayClean
  <2> QED BY <2>1, <2>2, <2>3, <2>4 DEF CleanInv, Active
<1>3. CASE StartNext BY <1>3, NextRunIsClean
<1> QED BY <1>2, <1>3, StepsOnward

-----------------------------------------------------------------------------
(* The theorems. *)

\* Without a hypothesis: types, locks, snapshots, what the user wrote, and the shots.
Inv == TypeOK /\ LockInv /\ SyncInv /\ EditsKept /\ OneShotOnce

\* As long as evaluations are joined.
RunInv == EpochInv /\ CountInv /\ CleanInv

LEMMA InitHolds ==
    ASSUME Init
    PROVE  Inv /\ RunInv
<1> USE DEF Init
<1>1. PICK rows \in Files :
         /\ db = [coll |-> 0, rows |-> rows]
         /\ wanted = [r \in Rules |-> IF rows[r] = Absent THEN Absent ELSE DraftOf(rows[r])]
  OBVIOUS
<1>2. /\ rows \in Table /\ db \in Database /\ db.rows = rows
      /\ \A r \in Rules : rows[r] # Absent => rows[r] \in Row
  BY <1>1, RuntimeAssumption, PresentRow DEF Database
<1>3. \A r \in Rules : rows[r] # Absent => DraftOf(rows[r]) \in Drafts
                                           /\ DraftOf(rows[r]) # Absent
  BY <1>2, DraftOfRow, RulesAssumption
<1>4. TypeOK
  <2>1. wanted \in [Rules -> Drafts \cup {Absent}] BY <1>1, <1>3
  <2>2. msg \in [Conns -> [fits : SUBSET Rules, epoch : Epochs, retries : 0..MaxRetries]]
    BY RuntimeAssumption
  <2>3. current \in [epoch : Epochs, stage : Stages, arrived : Nat, brought : [Rules -> Nat]]
    BY RuntimeAssumption, Zeroes DEF Stages
  <2>4. spent \in [messages : 0..MaxMessages, writes : 0..MaxWrites, faults : 0..MaxFaults]
    BY RuntimeAssumption
  <2>5. seen \in Counters /\ total \in Counters BY Zeroes DEF Forget
  <2>6. used \subseteq Rules BY DEF Present
  <2>7. fired \in [Rules -> Nat] /\ pc \in [Conns -> Places] BY DEF Places
  <2> QED BY <1>2, <2>1, <2>2, <2>3, <2>4, <2>5, <2>6, <2>7 DEF TypeOK
<1>5. LockInv /\ SyncInv BY DEF LockInv, SyncInv
<1>6. EditsKept /\ OneShotOnce
  <2>1. ASSUME NEW r \in Rules, rows[r] # Absent
        PROVE  DraftOf(rows[r]) = [wanted[r] EXCEPT
                                     !.enabled = @ /\ ~(wanted[r].oneShot /\ fired[r] > 0)]
    <3>1. rows[r] \in Row /\ wanted[r] = DraftOf(rows[r]) /\ fired[r] = 0
      BY <1>1, <1>2, <2>1
    <3> QED BY <3>1, FreshDraft
  <2>2. \A r \in Rules : fired[r] = 0 OBVIOUS
  <2> QED BY <1>1, <1>2, <1>3, <2>1, <2>2 DEF EditsKept, OneShotOnce
<1>7. EpochInv
  <2>1. 1 # Nothing /\ \A c \in Conns : pc[c] = "idle" BY RuntimeAssumption
  <2> QED BY <2>1 DEF EpochInv
<1>8. CountInv BY CountsZero DEF CountInv, CountedOnce
<1>9. CleanInv
  <2>1. Busy = {} /\ \A c \in Conns : pc[c] = "idle" BY DEF Busy
  <2>2. IsFiniteSet(Busy) /\ Done = 0 BY <2>1, FS_EmptySet DEF Done
  <2>3. epoch # current.epoch BY RuntimeAssumption
  <2> QED BY <2>1, <2>2, <2>3 DEF CleanInv
<1> QED BY <1>4, <1>5, <1>6, <1>7, <1>8, <1>9 DEF Inv, RunInv

LEMMA InvKeeps == Inv /\ [Next]_vars => Inv'
<1> SUFFICES ASSUME Inv, [Next]_vars PROVE Inv'
  OBVIOUS
<1>1. DataStep BY DataSteps DEF Inv
<1>2. DataTypes' /\ ControlTypes' BY <1>1, DataTypesKeep, ControlTypesKeep DEF Inv
<1>3. TypeOK' BY <1>2 DEF TypeOK, DataTypes, ControlTypes
<1>4. LockInv' BY LockKeeps DEF Inv
<1>5. SyncInv' BY <1>1, SyncKeeps DEF Inv
<1>6. EditsKept' /\ OneShotOnce' BY <1>1, EditsKeep DEF Inv
<1> QED BY <1>3, <1>4, <1>5, <1>6 DEF Inv

LEMMA RunInvKeeps ==
    ASSUME ~Overrun
    PROVE  Inv /\ Inv' /\ RunInv /\ [Next]_vars => RunInv'
<1> SUFFICES ASSUME Inv, Inv', RunInv, [Next]_vars PROVE RunInv'
  OBVIOUS
<1>1. DataStep BY DataSteps DEF Inv
<1>2. EpochInv' BY EpochKeeps DEF Inv, RunInv
<1>3. CountInv' BY <1>1, CountKeeps DEF Inv, RunInv
<1>4. CleanInv' BY CleanKeeps DEF Inv, RunInv
<1> QED BY <1>2, <1>3, <1>4 DEF RunInv

\* What the two locks and the compare-and-swap achieve for evaluations of any run: the
\* inductive invariant of evaluate_with_retries, runtime_stopping and the editor's commands.
THEOREM Invariant == Spec => []Inv
<1>1. Init => Inv BY InitHolds
<1> QED BY <1>1, InvKeeps, PTL DEF Spec

\* compare_and_swap_rule_runtime never undoes what rule_save, rule_toggle or rule_import
\* wrote, in any interleaving, also of evaluations that outlive their run.
THEOREM EditsSurvive == Spec => []EditsKept
<1>1. Inv => EditsKept BY DEF Inv
<1> QED BY <1>1, Invariant, PTL

\* A one-shot rule fires at most once after each edit.
THEOREM OneShotFiresOnce == Spec => []OneShotOnce
<1>1. Inv => OneShotOnce BY DEF Inv
<1> QED BY <1>1, Invariant, PTL

\* Whoever delivers a match has committed it against the table as it is.
THEOREM DeliveredIsCurrent == Spec => NeverStale
<1>1. Inv /\ [Next]_vars =>
        [Delivered # {} =>
          /\ \A r \in Delivered : /\ db.rows[r] # Absent /\ db.rows[r].enabled
                                  /\ db'.rows[r].hits = db.rows[r].hits + 1
          /\ \A r \in Rules \ Delivered : db'.rows[r] = db.rows[r]]_vars
  BY DataSteps, StepIsFresh DEF Inv
<1> QED BY <1>1, Invariant, PTL DEF Spec, NeverStale

\* What it achieves besides, if a stop joins its evaluations.
LEMMA RunInvariant ==
    ASSUME ~Overrun
    PROVE  Spec => []RunInv
<1>1. Init => RunInv BY InitHolds
<1>2. Inv /\ Inv' /\ RunInv /\ [Next]_vars => RunInv' BY RunInvKeeps
<1> QED BY <1>1, <1>2, Invariant, PTL DEF Spec

\* No candidate is counted twice and no count that RULE-007 keeps is lost, whatever
\* conflicts, if evaluations are joined before the next run.
THEOREM CountsAreExact == ~Overrun => (Spec => []FiresOnce)
<1> SUFFICES ASSUME ~Overrun PROVE Spec => []FiresOnce
  OBVIOUS
<1>1. Inv /\ RunInv => FiresOnce BY DEF Inv, RunInv, CountInv, FiresOnce
<1> QED BY <1>1, Invariant, RunInvariant, PTL

\* A run works with hits and counts of its own messages, and of files imported during it.
THEOREM RunsAreClean == ~Overrun => (Spec => []RunStartsClean)
<1> SUFFICES ASSUME ~Overrun PROVE Spec => []RunStartsClean
  OBVIOUS
<1>1. Inv /\ RunInv => RunStartsClean
  <2>1. SUFFICES ASSUME Inv, RunInv, NEW c \in Conns, NEW r \in Rules, pc[c] = "commit",
                        runtime.rows[r] # Absent
                 PROVE  /\ runtime.rows[r].hits < current.arrived + current.brought[r]
                        /\ \A t \in Terminals : runtime.counters[r][t] < current.arrived
    BY DEF RunStartsClean
  <2>2. runtime \in Runtime /\ runtime # Nothing /\ runtime.epoch = current.epoch
    BY <2>1 DEF Inv, RunInv, LockInv, EpochInv, TypeOK
  <2>3. IsFiniteSet(Busy) /\ c \in Busy BY <2>1 DEF RunInv, CleanInv, Busy
  <2>4. Cardinality(Busy) \in Nat /\ Cardinality(Busy) # 0
    BY <2>3, FS_CardinalityType, FS_EmptySet
  <2>5. /\ runtime.rows[r].hits <= Done + current.brought[r]
        /\ \A t \in Terminals : runtime.counters[r][t] <= Done
    BY <2>1, <2>2 DEF RunInv, CleanInv, CleanHits
  <2>6. /\ runtime.rows[r].hits \in Nat
        /\ \A t \in Terminals : runtime.counters[r][t] \in Nat
    BY <2>1, <2>2, PresentRow DEF Runtime, Row, Counters
  <2>7. current.arrived \in Nat /\ current.brought[r] \in Nat
    BY <2>1 DEF Inv, TypeOK
  <2>8. Done < current.arrived /\ Done \in Int BY <2>4, <2>7 DEF Done
  <2> QED BY <2>5, <2>6, <2>7, <2>8
<1> QED BY <1>1, Invariant, RunInvariant, PTL
====
