----------------------------- MODULE RuleRuntime -----------------------------
(***************************************************************************)
(* RuleRuntimeService of                                                   *)
(* infrastructure/src/adapters/pipeline/rule_runtime.rs between the        *)
(* connections that evaluate messages, the user who edits rules, and the   *)
(* supervisor that ends the run; with the rule store of                    *)
(* adapters/rules.rs and sqlite.rs, one transaction per step.              *)
(*                                                                         *)
(* An evaluation holds the runtime lock from its snapshot to its commit,   *)
(* but the store has a lock of its own: an edit can fall between the two.  *)
(***************************************************************************)
EXTENDS RuleEngine

CONSTANTS
    Conns,       \* connections, each with one message at a time
    TermOf,      \* the terminal of a connection
    Epochs,      \* 1..n: the runs of the proxy, in order
    Messages,    \* what may arrive: sets of rules whose fields fit
    UserDrafts,  \* what the user may type: a set of Drafts
    Files,       \* the tables a file to import may hold, and the proxy may start with
    MaxRetries,  \* evaluate_with_retries(..., 3)
    MaxMessages, \* bound: messages that arrive
    MaxWrites,   \* bound: edits the user starts
    MaxFaults,   \* bound: database errors
    Nothing,     \* None
    Overrun      \* whether an evaluation may outlive the grace period of a stop

Runtime == [epoch : Epochs, coll : Nat, rows : Table, counters : Counters]

ASSUME RuntimeAssumption ==
    /\ TermOf \in [Conns -> Terminals]
    /\ Epochs \subseteq Nat /\ 1 \in Epochs
    /\ Messages \subseteq SUBSET Rules
    /\ UserDrafts \subseteq Drafts /\ Files \subseteq Table
    /\ {MaxRetries, MaxMessages, MaxWrites, MaxFaults} \subseteq Nat
    /\ Nothing \notin Epochs /\ Nothing \notin Runtime
    /\ Overrun \in BOOLEAN

VARIABLES
    db,        \* the rules table and the revision of the collection
    epoch,     \* RuleRuntimeService.epoch
    runtime,   \* RuleRuntimeService.runtime: the engine and the snapshot it works on
    pc,        \* where the message of a connection is
    msg,       \* the rules whose fields it fits, the run it belongs to, the retries left
    user,      \* the command of the user: what it read, and whether it waits for a file
    current,   \* the run: its number, how far its end has come; ghosts: its messages, and the
               \* most hits a file that was imported during it has given each rule
    spent,     \* messages, edits and errors used up
    used,      \* ids that were given out: a new rule gets another
    seen,      \* ghost: candidates counted since RULE-007 last reset them
    total,     \* ghost: candidates counted since the runtime was last created
    wanted,    \* ghost: the rules as the user last wrote them
    fired,     \* ghost: matches delivered since the user last wrote the rule
    recounted  \* ghost: rules RULE-007 has reset since the last snapshot

vars == <<db, epoch, runtime, pc, msg, user, current, spent, used, seen, total, wanted, fired, recounted>>
ghosts == <<used, seen, total, wanted, fired, recounted>>

Places == {"idle", "ensure", "resetting", "evaluate", "commit"}

Stages == {"running",     \* connections evaluate
           "resetting",   \* runtime_stopping, before each of its three steps
           "clearing",
           "forgetting",
           "notified",    \* the callback is over, connections are not yet cancelled
           "cancelled",   \* no new messages
           "stopped"}

TypeOK ==
    /\ db \in Database
    /\ epoch \in Epochs \cup {Nothing}
    /\ runtime \in Runtime \cup {Nothing}
    /\ pc \in [Conns -> Places]
    /\ msg \in [Conns -> [fits : SUBSET Rules, epoch : Epochs, retries : 0..MaxRetries]]
    /\ user \in [rule : Rules \cup {Nothing}, rev : Nat, import : Nat \cup {Nothing}]
    /\ current \in [epoch : Epochs, stage : Stages, arrived : Nat, brought : [Rules -> Nat]]
    /\ spent \in [messages : 0..MaxMessages, writes : 0..MaxWrites, faults : 0..MaxFaults]
    /\ seen \in Counters /\ total \in Counters
    /\ used \subseteq Rules
    /\ wanted \in [Rules -> Drafts \cup {Absent}]
    /\ fired \in [Rules -> Nat]
    /\ recounted \subseteq Rules

-----------------------------------------------------------------------------
(* The locks.  They are held by whoever is at the places below. *)

RuntimeLockFree == \A c \in Conns : pc[c] # "commit"
EpochLockFree == \A c \in Conns : pc[c] # "resetting"

DatabaseFails == /\ spent.faults < MaxFaults
                 /\ spent' = [spent EXCEPT !.faults = @ + 1]

Forget == NoCounters
NoHits == [r \in Rules |-> 0]

Init ==
    /\ \E rows \in Files :
          /\ db = [coll |-> 0, rows |-> rows]
          /\ wanted = [r \in Rules |-> IF rows[r] = Absent THEN Absent ELSE DraftOf(rows[r])]
    /\ epoch = Nothing /\ runtime = Nothing
    /\ pc = [c \in Conns |-> "idle"]
    /\ msg = [c \in Conns |-> [fits |-> {}, epoch |-> 1, retries |-> 0]]
    /\ user = [rule |-> Nothing, rev |-> 0, import |-> Nothing]
    /\ current = [epoch |-> 1, stage |-> "running", arrived |-> 0, brought |-> NoHits]
    /\ spent = [messages |-> 0, writes |-> 0, faults |-> 0]
    /\ used = Present(db.rows)
    /\ seen = Forget /\ total = Forget
    /\ fired = [r \in Rules |-> 0]
    /\ recounted = {}

-----------------------------------------------------------------------------
(* A message: evaluate_with_retries and ensure_epoch. *)

\* evaluate(): three retries for a conflict
Arrive(c, fits) ==
    /\ pc[c] = "idle"
    /\ current.stage \notin {"cancelled", "stopped"}
    /\ spent.messages < MaxMessages
    /\ spent' = [spent EXCEPT !.messages = @ + 1]
    /\ current' = [current EXCEPT !.arrived = @ + 1]
    /\ pc' = [pc EXCEPT ![c] = "ensure"]
    /\ msg' = [msg EXCEPT ![c] = [fits |-> fits, epoch |-> current.epoch, retries |-> MaxRetries]]
    /\ UNCHANGED <<db, epoch, runtime, user, used, seen, total, wanted, fired, recounted>>

\* ensure_epoch, the epoch is the message's
EpochFits(c) ==
    /\ pc[c] = "ensure" /\ EpochLockFree
    /\ epoch = msg[c].epoch
    /\ pc' = [pc EXCEPT ![c] = "evaluate"]
    /\ UNCHANGED <<db, epoch, runtime, msg, user, current, spent, ghosts>>

\* (Fault: it relies on the reset that the end of the last run has made.)
EpochResetsFault(c) ==
    /\ pc[c] = "ensure" /\ EpochLockFree
    /\ epoch # msg[c].epoch
    /\ pc' = [pc EXCEPT ![c] = "resetting"]
    /\ UNCHANGED <<db, epoch, runtime, msg, user, current, spent, ghosts>>

\* ensure_epoch, it is not: the hits in the store are reset under the epoch lock,
EpochResets(c) ==
    /\ pc[c] = "ensure" /\ EpochLockFree
    /\ epoch # msg[c].epoch
    /\ db' = ResetHits(db)
    /\ pc' = [pc EXCEPT ![c] = "resetting"]
    /\ UNCHANGED <<epoch, runtime, msg, user, current, spent, ghosts>>

\* then the runtime is dropped as soon as its lock is free, and the epoch set.
EpochEntered(c) ==
    /\ pc[c] = "resetting" /\ RuntimeLockFree
    /\ runtime' = Nothing
    /\ epoch' = msg[c].epoch
    /\ seen' = Forget /\ total' = Forget
    /\ pc' = [pc EXCEPT ![c] = "evaluate"]
    /\ UNCHANGED <<db, msg, user, current, spent, used, wanted, fired, recounted>>

\* The reset fails: the message does, and the epoch stays.
EpochRefused(c) ==
    /\ pc[c] = "ensure" /\ EpochLockFree
    /\ epoch # msg[c].epoch
    /\ DatabaseFails
    /\ pc' = [pc EXCEPT ![c] = "idle"]
    /\ UNCHANGED <<db, epoch, runtime, msg, user, current, ghosts>>

RuntimeFits(c) == runtime # Nothing /\ runtime.epoch = msg[c].epoch

\* runtime.lock() and runtime_snapshot(): a runtime of another epoch is replaced, one
\* whose rules have changed is reconciled.
TakeSnapshot(c) ==
    /\ pc[c] = "evaluate" /\ RuntimeLockFree
    /\ pc' = [pc EXCEPT ![c] = "commit"]
    /\ \/ /\ ~RuntimeFits(c)
          /\ runtime' = [epoch |-> msg[c].epoch, coll |-> db.coll, rows |-> db.rows,
                         counters |-> NoCounters]
          /\ total' = Forget
       \/ /\ RuntimeFits(c)
          /\ runtime' =
                IF runtime.coll # db.coll \/ Signature(runtime.rows) # Signature(db.rows)
                THEN [runtime EXCEPT
                        !.coll = db.coll, !.rows = db.rows,
                        !.counters = Reconciled(runtime.rows, db.rows, runtime.counters)]
                ELSE runtime
          /\ UNCHANGED total
    /\ recounted' = {}
    /\ UNCHANGED <<db, epoch, msg, user, current, spent, used, seen, wanted, fired>>

SnapshotFails(c) ==
    /\ pc[c] = "evaluate" /\ RuntimeLockFree
    /\ DatabaseFails
    /\ pc' = [pc EXCEPT ![c] = "idle"]
    /\ UNCHANGED <<db, epoch, runtime, msg, user, current, ghosts>>

-----------------------------------------------------------------------------
(* The evaluation itself, with the runtime lock held. *)

MatchedBy(c) == Matched(runtime.rows, runtime.counters, msg[c].fits, TermOf[c])
CountersAfter(c) == Counted(runtime.rows, runtime.counters, msg[c].fits, TermOf[c])

\* Ghosts: a candidate the engine reached and counted is one candidate more.  If the
\* counts of a rule were reset after the snapshot, the message came before that.
Tally(counts, c, rules) ==
    [r \in Rules |->
        IF r \in rules /\ CountersAfter(c)[r] # runtime.counters[r]
        THEN [counts[r] EXCEPT ![TermOf[c]] = @ + 1] ELSE counts[r]]

Deliver(c, matched) ==
    /\ pc' = [pc EXCEPT ![c] = "idle"]
    /\ seen' = Tally(seen, c, Rules \ recounted) /\ total' = Tally(total, c, Rules)
    /\ fired' = [r \in Rules |-> IF r \in matched THEN fired[r] + 1 ELSE fired[r]]

\* Nothing matched: the counters stay advanced, nothing is written.
EvaluateNoMatch(c) ==
    /\ pc[c] = "commit"
    /\ MatchedBy(c) = {}
    /\ runtime' = [runtime EXCEPT !.counters = CountersAfter(c)]
    /\ Deliver(c, {})
    /\ UNCHANGED <<db, epoch, msg, user, current, spent, used, wanted, recounted>>

\* A match is committed before its actions are returned.
RowsAfter(c) == AfterHits(runtime.rows, MatchedBy(c))

Commit(c) ==
    /\ pc[c] = "commit"
    /\ MatchedBy(c) # {}
    /\ MetadataOnly(runtime.rows, RowsAfter(c))
    /\ CanCommit(db, runtime.coll, runtime.rows)
    /\ db' = CommitRuntime(db, RowsAfter(c))
    /\ runtime' = [runtime EXCEPT !.coll = db.coll + 1, !.rows = RowsAfter(c),
                                  !.counters = CountersAfter(c)]
    /\ Deliver(c, MatchedBy(c))
    /\ UNCHANGED <<epoch, msg, user, current, spent, used, wanted, recounted>>

\* (Fault: the engine keeps the counts of the evaluation that conflicted.)
ConflictFault(c) ==
    /\ pc[c] = "commit"
    /\ MatchedBy(c) # {}
    /\ ~CanCommit(db, runtime.coll, runtime.rows)
    /\ msg[c].retries > 0
    /\ msg' = [msg EXCEPT ![c].retries = @ - 1]
    /\ runtime' = [runtime EXCEPT !.counters = CountersAfter(c)]
    /\ pc' = [pc EXCEPT ![c] = "ensure"]
    /\ UNCHANGED <<db, epoch, user, current, spent, ghosts>>

\* REVISION_CONFLICT: the engine is put back as it was before the evaluation, and the
\* message starts over.
Conflict(c) ==
    /\ pc[c] = "commit"
    /\ MatchedBy(c) # {}
    /\ ~CanCommit(db, runtime.coll, runtime.rows)
    /\ msg[c].retries > 0
    /\ msg' = [msg EXCEPT ![c].retries = @ - 1]
    /\ pc' = [pc EXCEPT ![c] = "ensure"]
    /\ UNCHANGED <<db, epoch, runtime, user, current, spent, ghosts>>

\* No retry left, or another error: the runtime is dropped with all its counters.
CommitFails(c) ==
    /\ pc[c] = "commit"
    /\ MatchedBy(c) # {}
    /\ \/ /\ ~CanCommit(db, runtime.coll, runtime.rows)
          /\ msg[c].retries = 0
          /\ UNCHANGED spent
       \/ DatabaseFails
    /\ runtime' = Nothing
    /\ seen' = Forget /\ total' = Forget
    /\ pc' = [pc EXCEPT ![c] = "idle"]
    /\ UNCHANGED <<db, epoch, msg, user, current, used, wanted, fired, recounted>>

-----------------------------------------------------------------------------
(* The end of a run: runtime_stopping, the cancellation, the next start. *)

StopBegins ==
    /\ current.stage = "running"
    /\ current' = [current EXCEPT !.stage = "resetting"]
    /\ UNCHANGED <<db, epoch, runtime, pc, msg, user, spent, ghosts>>

\* The hits are reset; a failure is published and otherwise ignored.
StopResets ==
    /\ current.stage = "resetting"
    /\ current' = [current EXCEPT !.stage = "clearing"]
    /\ \/ db' = ResetHits(db) /\ UNCHANGED spent
       \/ DatabaseFails /\ UNCHANGED db
    /\ UNCHANGED <<epoch, runtime, pc, msg, user, ghosts>>

StopClears ==
    /\ current.stage = "clearing" /\ RuntimeLockFree
    /\ runtime' = Nothing
    /\ seen' = Forget /\ total' = Forget
    /\ current' = [current EXCEPT !.stage = "forgetting"]
    /\ UNCHANGED <<db, epoch, pc, msg, user, spent, used, wanted, fired, recounted>>

StopForgets ==
    /\ current.stage = "forgetting" /\ EpochLockFree
    /\ epoch' = Nothing
    /\ current' = [current EXCEPT !.stage = "notified"]
    /\ UNCHANGED <<db, runtime, pc, msg, user, spent, ghosts>>

Cancel ==
    /\ current.stage = "notified"
    /\ current' = [current EXCEPT !.stage = "cancelled"]
    /\ UNCHANGED <<db, epoch, runtime, pc, msg, user, spent, ghosts>>

\* An evaluation has no await: a connection that is in one is joined after it, unless it
\* takes longer than the grace period.
Join ==
    /\ current.stage = "cancelled"
    /\ Overrun \/ \A c \in Conns : pc[c] = "idle"
    /\ current' = [current EXCEPT !.stage = "stopped"]
    /\ UNCHANGED <<db, epoch, runtime, pc, msg, user, spent, ghosts>>

StartNext ==
    /\ current.stage = "stopped"
    /\ current.epoch + 1 \in Epochs
    /\ current' = [epoch |-> current.epoch + 1, stage |-> "running", arrived |-> 0,
                   brought |-> NoHits]
    /\ UNCHANGED <<db, epoch, runtime, pc, msg, user, spent, ghosts>>

-----------------------------------------------------------------------------
(* The user.  A user's own stop holds mutation_gate and so excludes edits; the watchdog *)
(* of a run that dies does not, so edits may come at every stage of an end.             *)

Idle == user.import = Nothing

\* rule_get: the form is filled without the gate.
OpenForm(r) ==
    /\ Idle /\ spent.writes < MaxWrites
    /\ db.rows[r] # Absent
    /\ user' = [user EXCEPT !.rule = r, !.rev = db.rows[r].rev]
    /\ UNCHANGED <<db, epoch, runtime, pc, msg, current, spent, ghosts>>

Writes == /\ spent.writes < MaxWrites
          /\ spent' = [spent EXCEPT !.writes = @ + 1]

\* Ghosts of an edit: RULE-007 resets the counts, a one-shot rule may fire again.
MustRecount(rows, new) ==
    {r \in Rules : \/ rows[r] = Absent \/ new[r] = Absent
                   \/ MustReset(rows[r], DraftOf(new[r]))}

Recount(rows, new) ==
    /\ wanted' = [r \in Rules |->
          IF new[r] = rows[r] THEN wanted[r]
          ELSE IF new[r] = Absent THEN Absent ELSE DraftOf(new[r])]
    /\ recounted' = recounted \cup MustRecount(rows, new)
    /\ seen' = [r \in Rules |->
          IF r \in MustRecount(rows, new) THEN [t \in Terminals |-> 0] ELSE seen[r]]
    /\ fired' = [r \in Rules |-> IF new[r] = rows[r] THEN fired[r] ELSE 0]

Written(new) ==
    /\ db' = new
    /\ Recount(db.rows, new.rows)
    /\ used' = used \cup Present(new.rows)
    /\ user' = [user EXCEPT !.rule = Nothing, !.import = Nothing]
    /\ UNCHANGED <<epoch, runtime, pc, msg, total>>

\* rule_save of a form that was opened, rule_toggle (a draft that differs in "enabled" only)
Save(draft) ==
    /\ Idle /\ user.rule # Nothing
    /\ CanSwap(db, user.rule, user.rev)
    /\ Writes
    /\ Written(SwapRule(db, user.rule, Saved(db.rows[user.rule], draft)))
    /\ UNCHANGED current

Toggle ==
    /\ Idle /\ user.rule # Nothing
    /\ CanSwap(db, user.rule, user.rev)
    /\ Writes
    /\ Written(SwapRule(db, user.rule,
                        Saved(db.rows[user.rule],
                              [DraftOf(db.rows[user.rule]) EXCEPT !.enabled = ~@])))
    /\ UNCHANGED current

Delete ==
    /\ Idle /\ user.rule # Nothing
    /\ CanSwap(db, user.rule, user.rev)
    /\ Writes
    /\ Written(DeleteRule(db, user.rule))
    /\ UNCHANGED current

\* Any of them with a stale revision: REVISION_CONFLICT, nothing changes.
EditRefused ==
    /\ Idle /\ user.rule # Nothing
    /\ ~CanSwap(db, user.rule, user.rev)
    /\ user' = [user EXCEPT !.rule = Nothing]
    /\ UNCHANGED <<db, epoch, runtime, pc, msg, current, spent, ghosts>>

\* rule_save of a new rule, rule_copy
Create(r, draft) ==
    /\ Idle /\ r \notin used
    /\ Writes
    /\ Written(InsertRule(db, r, Created(draft)))
    /\ UNCHANGED current

\* rule_import reads the collection revision, then waits for the file dialog with the
\* gate held.
BeginImport ==
    /\ Idle
    /\ Writes
    /\ user' = [rule |-> Nothing, rev |-> 0, import |-> db.coll]
    /\ UNCHANGED <<db, epoch, runtime, pc, msg, current, ghosts>>

FinishImport(rows) ==
    /\ ~Idle
    /\ user.import = db.coll
    /\ Written(ReplaceRules(db, rows))
    /\ current' = [current EXCEPT !.brought = [r \in Rules |->
                     IF rows[r] # Absent /\ rows[r].hits > @[r] THEN rows[r].hits ELSE @[r]]]
    /\ UNCHANGED spent

\* The dialog was cancelled, or the collection has moved on.
ImportEnds ==
    /\ ~Idle
    /\ user' = [user EXCEPT !.import = Nothing]
    /\ UNCHANGED <<db, epoch, runtime, pc, msg, current, spent, ghosts>>

-----------------------------------------------------------------------------
Message(c) ==
    \/ \E fits \in Messages : Arrive(c, fits)
    \/ EpochFits(c) \/ EpochResets(c) \/ EpochEntered(c) \/ EpochRefused(c)
    \/ TakeSnapshot(c) \/ SnapshotFails(c)
    \/ EvaluateNoMatch(c) \/ Commit(c) \/ Conflict(c) \/ CommitFails(c)

RunEnds ==
    StopBegins \/ StopResets \/ StopClears \/ StopForgets \/ Cancel \/ Join \/ StartNext

Edit ==
    \/ \E r \in Rules : OpenForm(r)
    \/ \E d \in UserDrafts : Save(d)
    \/ Toggle \/ Delete \/ EditRefused
    \/ \E r \in Rules, d \in UserDrafts : Create(r, d)
    \/ BeginImport \/ ImportEnds
    \/ \E rows \in Files : FinishImport(rows)

\* A finite instance has used up its runs.
RunsOver == /\ current.stage = "stopped"
            /\ current.epoch + 1 \notin Epochs
            /\ UNCHANGED vars

Next == (\E c \in Conns : Message(c)) \/ RunEnds \/ Edit \/ RunsOver

Spec == Init /\ [][Next]_vars

-----------------------------------------------------------------------------
(* Properties. *)

\* A count is neither lost nor taken twice: the engine has counted at least what RULE-007
\* still counts and at most every candidate since the runtime was created, however often a
\* conflict made it evaluate a message again.
CountedOnce ==
    runtime # Nothing =>
        \A r \in Rules, t \in Terminals :
            /\ runtime.counters[r][t] <= total[r][t]
            /\ db.rows[r] # Absent /\ runtime.rows[r] # Absent
                 => seen[r][t] <= runtime.counters[r][t]

\* What the engine commits never undoes an edit: the stored rule is what the user wrote
\* last, except that a one-shot rule is switched off after it fired.
EditsKept ==
    \A r \in Rules :
        \/ db.rows[r] = Absent /\ wanted[r] = Absent
        \/ /\ db.rows[r] # Absent /\ wanted[r] # Absent
           /\ DraftOf(db.rows[r]) =
                [wanted[r] EXCEPT !.enabled = @ /\ ~(wanted[r].oneShot /\ fired[r] > 0)]

\* A one-shot rule fires once after each edit, whatever conflicts and whoever competes.
OneShotOnce ==
    \A r \in Rules : db.rows[r] # Absent /\ db.rows[r].oneShot => fired[r] <= 1

\* Both: whatever conflicts, no message is counted twice and no shot fired twice.
FiresOnce == CountedOnce /\ OneShotOnce

Delivered == {r \in Rules : fired'[r] > fired[r]}

\* A connection never gets the verdict of rules that are not the stored ones any more:
\* whoever delivers a match has just committed it against the table as it is.
NeverStale ==
    [][Delivered # {} =>
          /\ \A r \in Delivered : /\ db.rows[r] # Absent /\ db.rows[r].enabled
                                  /\ db'.rows[r].hits = db.rows[r].hits + 1
          /\ \A r \in Rules \ Delivered : db'.rows[r] = db.rows[r]]_vars

\* A run starts clean and stays so: the counts an evaluation works with come from messages
\* of its own run that were evaluated before; the hits it shows also from a file that was
\* imported during the run, which keeps the hits of its rules.  runtime_stopping alone does
\* not achieve it, because messages are evaluated after it, until the cancellation.
RunStartsClean ==
    \A c \in Conns, r \in Rules :
        pc[c] = "commit" /\ msg[c].epoch = current.epoch /\ runtime.rows[r] # Absent =>
            /\ runtime.rows[r].hits < current.arrived + current.brought[r]
            /\ \A t \in Terminals : runtime.counters[r][t] < current.arrived

\* RULE-007 (docs/requirements.md:414): a rule that is switched off and on again, or whose
\* conditions change, counts from zero.  It fires at its n-th candidate since then.
NthOnTime ==
    [][\A c \in Conns, r \in Delivered :
          pc[c] = "commit" /\ pc'[c] = "idle" /\ db.rows[r].nth # 0 =>
              seen'[r][TermOf[c]] = db.rows[r].nth]_vars
=============================================================================
