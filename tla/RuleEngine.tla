----------------------------- MODULE RuleEngine -----------------------------
(***************************************************************************)
(* The rule engine of domain/src/rule.rs and the rows of rules in SQLite,  *)
(* as functions: what an evaluation matches and counts, what an edit does  *)
(* to a rule, and what each transaction of the store does to the table.    *)
(*                                                                         *)
(* A rule's fields other than the ones below (its name, what it compares   *)
(* in a message, what its actions do) are not told apart.  nth = 0 stands  *)
(* for a rule without an NthHit condition; terminal says that its last     *)
(* action is a terminal one.  A message is the set of the rules whose      *)
(* channel, stage and field conditions it satisfies.                       *)
(***************************************************************************)
EXTENDS Integers, FiniteSets

CONSTANTS
    Rules,      \* rule ids: numbers, because the last sort key is the id
    Terminals,  \* source address and client certificate
    Absent      \* no such rule

\* What a user writes in the form of a rule.
Drafts == [enabled : BOOLEAN, nth : Nat, oneShot : BOOLEAN, terminal : BOOLEAN, priority : Nat]

\* A stored rule.
Row == [rev : Nat, enabled : BOOLEAN, nth : Nat, oneShot : BOOLEAN, terminal : BOOLEAN,
        priority : Nat, hits : Nat]

ASSUME RulesAssumption == Rules \subseteq Nat /\ Absent \notin Row \cup Drafts

Table == [Rules -> Row \cup {Absent}]

\* The hit counters of a run, by rule and terminal.
Counters == [Rules -> [Terminals -> Nat]]
NoCounters == [r \in Rules |-> [t \in Terminals |-> 0]]

Present(rows) == {r \in Rules : rows[r] # Absent}

-----------------------------------------------------------------------------
(* Evaluation of one message. *)

\* snapshot.sort_by_key(|rule| (rule.priority, rule.created_order, rule.id))
Before(rows, q, r) ==
    \/ rows[q].priority < rows[r].priority
    \/ rows[q].priority = rows[r].priority /\ q < r

\* The enabled rules whose channel, stage and fields fit the message.
Candidates(rows, message) == {r \in message \cap Present(rows) : rows[r].enabled}

\* matches_rule: only a candidate advances its counter, and only a rule with NthHit has one.
Fits(rows, counters, r, t) == rows[r].nth = 0 \/ counters[r][t] + 1 = rows[r].nth

\* The candidates the loop reaches: a match with a terminal action ends it.
Reached(rows, counters, message, t) ==
    {r \in Candidates(rows, message) :
        \A q \in Candidates(rows, message) :
            Before(rows, q, r) /\ rows[q].terminal => ~Fits(rows, counters, q, t)}

Matched(rows, counters, message, t) ==
    {r \in Reached(rows, counters, message, t) : Fits(rows, counters, r, t)}

\* The counters after the evaluation.
Counted(rows, counters, message, t) ==
    [r \in Rules |->
        IF r \in Reached(rows, counters, message, t) /\ rows[r].nth # 0
        THEN [counters[r] EXCEPT ![t] = @ + 1]
        ELSE counters[r]]

\* The rules after it: a hit for every match, and a one-shot rule switched off.
Hit(row) == [row EXCEPT !.hits = @ + 1,
                        !.enabled = @ /\ ~row.oneShot,
                        !.rev = IF row.oneShot THEN @ + 1 ELSE @]

AfterHits(rows, matched) == [r \in Rules |-> IF r \in matched THEN Hit(rows[r]) ELSE rows[r]]

\* reconcile: the counters a new set of rules leaves alone.  A rule the engine did not
\* know, one whose conditions changed, and one it saw switched on, start again.
Kept(old, new, r) ==
    /\ old[r] # Absent /\ new[r] # Absent
    /\ old[r].nth = new[r].nth
    /\ old[r].enabled \/ ~new[r].enabled

Reconciled(old, new, counters) ==
    [r \in Rules |-> IF Kept(old, new, r) THEN counters[r] ELSE [t \in Terminals |-> 0]]

-----------------------------------------------------------------------------
(* Edits. *)

\* Rule::create
Created(draft) == [rev |-> 1, enabled |-> draft.enabled, nth |-> draft.nth,
                   oneShot |-> draft.oneShot, terminal |-> draft.terminal,
                   priority |-> draft.priority, hits |-> 0]

\* RULE-007: an edit that must start the counts of a rule again.
MustReset(row, draft) == row.nth # draft.nth \/ (~row.enabled /\ draft.enabled)

\* RuleEngine::save and ::toggle; a toggle is the draft of the row with another "enabled".
Saved(row, draft) ==
    [rev |-> row.rev + 1, enabled |-> draft.enabled, nth |-> draft.nth,
     oneShot |-> draft.oneShot, terminal |-> draft.terminal, priority |-> draft.priority,
     hits |-> IF MustReset(row, draft) THEN 0 ELSE row.hits]

DraftOf(row) == [enabled |-> row.enabled, nth |-> row.nth, oneShot |-> row.oneShot,
                 terminal |-> row.terminal, priority |-> row.priority]

-----------------------------------------------------------------------------
(* The transactions of the store.  db.coll is the revision of the collection; every *)
(* transaction that changes a row advances it.                                      *)

Database == [coll : Nat, rows : Table]

\* insert_rule, compare_and_swap_rule, delete_rule
InsertRule(db, r, row) == [coll |-> db.coll + 1, rows |-> [db.rows EXCEPT ![r] = row]]

CanSwap(db, r, rev) == db.rows[r] # Absent /\ db.rows[r].rev = rev

SwapRule(db, r, row) == [coll |-> db.coll + 1, rows |-> [db.rows EXCEPT ![r] = row]]

DeleteRule(db, r) == [coll |-> db.coll + 1, rows |-> [db.rows EXCEPT ![r] = Absent]]

\* replace_rules_atomically, after its check of the collection revision
ReplaceRules(db, rows) == [coll |-> db.coll + 1, rows |-> rows]

\* RuleSetSignature::from_rules, rule_signature: which rules, at which revision
Signature(rows) == {<<r, rows[r].rev>> : r \in Present(rows)}

\* (Faults: the collection is not compared; nothing is.)
CanCommitFault(db, coll, base) == Signature(db.rows) = Signature(base)
CanCommitBlindly(db, coll, base) == \A r \in Rules : (db.rows[r] = Absent) = (base[r] = Absent)

\* compare_and_swap_rule_runtime: the collection and every rule as they were read
CanCommit(db, coll, base) == db.coll = coll /\ Signature(db.rows) = Signature(base)

\* It writes the hit data, and the switch of a one-shot rule; the rest of a row stays.
CommitRuntime(db, updates) ==
    [coll |-> db.coll + 1,
     rows |-> [r \in Rules |->
        IF updates[r] = Absent THEN db.rows[r]
        ELSE [db.rows[r] EXCEPT !.hits = updates[r].hits,
                                !.rev = updates[r].rev,
                                !.enabled = updates[r].enabled]]]

\* runtime_updates: an evaluation may change nothing but that.
MetadataOnly(base, rows) ==
    \A r \in Rules :
        \/ rows[r] = base[r]
        \/ /\ base[r] # Absent /\ rows[r] # Absent
           /\ \/ rows[r] = [base[r] EXCEPT !.hits = rows[r].hits]
              \/ /\ base[r].oneShot /\ base[r].enabled
                 /\ rows[r] = [base[r] EXCEPT !.hits = rows[r].hits, !.enabled = FALSE,
                                              !.rev = @ + 1]

\* reset_runtime_hit_metadata: all hits, in one transaction of the same kind
ResetHits(db) ==
    CommitRuntime(db, [r \in Rules |-> IF db.rows[r] = Absent THEN Absent
                                       ELSE [db.rows[r] EXCEPT !.hits = 0]])
=============================================================================
