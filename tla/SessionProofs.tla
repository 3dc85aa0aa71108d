---------------------------- MODULE SessionProofs ----------------------------
(***************************************************************************)
(* Proofs about Sessions, for any finite set of sessions and any limits:   *)
(* the ledger is exact and within its limit, a connection that is served   *)
(* finds its session, and what is evicted is completed and the oldest.     *)
(*                                                                         *)
(* The bytes of a set of records are a fold.  The first part shows what a  *)
(* fold of this kind is: the number of units <<session, i>> with i below   *)
(* the bytes of the session's record, so that the theorems about the       *)
(* cardinality of finite sets say what a union, a difference or another    *)
(* table does to a total.                                                  *)
(***************************************************************************)
EXTENDS Sessions, FiniteSetTheorems, WellFoundedInduction, TLAPS

-------------------------------------------------------------------------------
(***************************************************************************)
(* The inductive invariant.                                                *)
(***************************************************************************)
\* What a connection writes, and what the store has of it.
Writing == {"begin", "update", "finish"}

ConnInv ==
  \A s \in Sessions :
    /\ pc[s] \in Writing => job[s] \in Records /\ seen[s] \in Counts
    /\ pc[s] \in {"begin", "update"} => job[s].done = 0
    /\ pc[s] = "finish" => job[s].done > 0 /\ ~job[s].paused
    /\ pc[s] = "new" \/ (pc[s] = "begin" /\ holder # s) => rec[s] = None
    /\ rec[s] # None /\ rec[s].done > 0 =>
         ~rec[s].paused /\ (pc[s] = "closed" \/ pc[s] = "finish")

\* Whoever is inside the store: it has replaced its own record, or it sets the limits.
LockInv ==
  /\ holder = None => plan = {}
  /\ holder = Settings => wanted \in [count : Counts, bytes : Limits]
  /\ \A s \in Sessions : holder = s =>
       /\ pc[s] \in Writing /\ rec[s] = job[s]
       /\ pc[s] = "begin" => previous = None
       /\ pc[s] # "begin" => previous \in Records /\ previous.done = 0

\* Sessions are completed one after the other.
DoneInv ==
  /\ \A s \in Sessions : /\ rec[s] # None => rec[s].done <= completions
                         /\ pc[s] = "finish" => job[s].done <= completions
  /\ \A s, t \in Sessions : s # t =>
       /\ rec[s] # None /\ rec[t] # None /\ rec[s].done > 0 => rec[s].done # rec[t].done
       /\ rec[s] # None /\ pc[t] = "finish" => rec[s].done # job[t].done
       /\ pc[s] = "finish" /\ pc[t] = "finish" => job[s].done # job[t].done

\* Planned for eviction is what is older than all that stays.
PlanInv ==
  /\ plan \subseteq Stored /\ holder \notin plan
  /\ \A s \in plan : rec[s].done > 0
  /\ \A s \in plan : \A t \in Left \ {holder} : rec[t].done = 0 \/ rec[s].done < rec[t].done

BytesInv == recordBytes = Total(Stored)

-------------------------------------------------------------------------------
(***************************************************************************)
(* Sums.                                                                   *)
(***************************************************************************)
Sum(r, S) == MapThenSumSet(LAMBDA s : BytesOf(r[s]), S)

LEMMA TotalIsSum == \A S : Total(S) = Sum(rec, S)
BY DEF Total, Sum

LEMMA TotalIsSumNext ==
  /\ Total(Stored)' = Sum(rec', Stored')
  /\ Total(Stored \ {holder})' = Sum(rec', Stored' \ {holder'})
<1>1. Total(Stored)' = Sum(rec', Stored')
  BY Zenon DEF Total, Sum, MapThenSumSet, MapThenFoldSet
<1>2. Total(Stored \ {holder})' = Sum(rec', Stored' \ {holder'})
  BY Zenon DEF Total, Sum, MapThenSumSet, MapThenFoldSet
<1> QED BY <1>1, <1>2

\* A set that contains a set whenever it contains what one element less leaves of it.
LEMMA SetInduction ==
  ASSUME NEW S, IsFiniteSet(S), NEW G,
         \A T \in SUBSET S : (\A x \in T : T \ {x} \in G) => T \in G
  PROVE  S \in G
<1> DEFINE Bad == {T \in SUBSET S : T \notin G}
<1>1. ASSUME Bad # {} PROVE FALSE
  <2>1. IsWellFoundedOn(StrictSubsetOrdering(S), SUBSET S)
    BY FS_StrictSubsetOrderingWellFounded, FS_FiniteSubsetsOfFinite
  <2>2. PICK T \in Bad : \A U \in Bad : ~(<<U, T>> \in StrictSubsetOrdering(S))
    BY <1>1, <2>1, WFMin, Zenon
  <2>3. ASSUME NEW x \in T PROVE T \ {x} \in G
    <3>1. <<T \ {x}, T>> \in StrictSubsetOrdering(S) BY DEF StrictSubsetOrdering
    <3> QED BY <2>2, <3>1
  <2> QED BY <2>3
<1> QED BY <1>1

\* One unit for each byte.
Units(r, S) == {u \in S \X Nat : u[2] < BytesOf(r[u[1]])}

Bytes(r, S) == \A s \in S : BytesOf(r[s]) \in Nat

LEMMA UnitsOfOne ==
  ASSUME NEW r, NEW s, BytesOf(r[s]) \in Nat
  PROVE  IsFiniteSet(Units(r, {s})) /\ Cardinality(Units(r, {s})) = BytesOf(r[s])
<1> DEFINE n == BytesOf(r[s])
           I == 0..(n - 1)
<1>1. n \in Nat OBVIOUS
<1>2. Units(r, {s}) = {s} \X I
  <2>1. ASSUME NEW u \in {s} \X Nat PROVE u[2] < BytesOf(r[u[1]]) <=> u[2] \in I
    BY <1>1
  <2>2. Units(r, {s}) = {u \in {s} \X Nat : u[2] \in I} BY <2>1 DEF Units
  <2>3. I \subseteq Nat OBVIOUS
  <2> QED BY <2>2, <2>3
<1> HIDE DEF n
<1>3. IsFiniteSet(I) /\ Cardinality(I) = n
  <2>1. n - 1 \in Int /\ 0 \in Int BY <1>1
  <2>2. /\ IsFiniteSet(I)
        /\ Cardinality(I) = IF 0 > n - 1 THEN 0 ELSE n - 1 - 0 + 1
    BY <2>1, FS_Interval
  <2> QED BY <1>1, <2>2
<1> HIDE DEF I
<1>4. /\ IsFiniteSet({s} \X I)
      /\ Cardinality({s} \X I) = Cardinality({s}) * Cardinality(I)
  BY <1>3, FS_Singleton, FS_Product
<1>5. Cardinality({s}) = 1 BY FS_Singleton
<1> QED BY <1>1, <1>2, <1>3, <1>4, <1>5 DEF n

LEMMA UnitsStep ==
  ASSUME NEW r, NEW S, NEW x \in S, BytesOf(r[x]) \in Nat, IsFiniteSet(Units(r, S \ {x}))
  PROVE  /\ IsFiniteSet(Units(r, S))
         /\ Cardinality(Units(r, S)) = BytesOf(r[x]) + Cardinality(Units(r, S \ {x}))
<1>1. Units(r, S) = Units(r, {x}) \cup Units(r, S \ {x}) BY DEF Units
<1>2. Units(r, {x}) \cap Units(r, S \ {x}) = {} BY DEF Units
<1>3. IsFiniteSet(Units(r, {x})) /\ Cardinality(Units(r, {x})) = BytesOf(r[x])
  BY UnitsOfOne
<1>4. /\ IsFiniteSet(Units(r, S))
      /\ Cardinality(Units(r, S)) = Cardinality(Units(r, {x}))
           + Cardinality(Units(r, S \ {x}))
           - Cardinality(Units(r, {x}) \cap Units(r, S \ {x}))
  BY <1>1, <1>3, FS_Union
<1>5. Cardinality(Units(r, {x}) \cap Units(r, S \ {x})) = 0 BY <1>2, FS_EmptySet
<1>6. Cardinality(Units(r, S \ {x})) \in Nat BY FS_CardinalityType
<1> QED BY <1>3, <1>4, <1>5, <1>6

LEMMA UnitsFinite ==
  ASSUME NEW r, NEW S, IsFiniteSet(S), Bytes(r, S)
  PROVE  IsFiniteSet(Units(r, S)) /\ Cardinality(Units(r, S)) \in Nat
<1> DEFINE G == {T \in SUBSET S : IsFiniteSet(Units(r, T))}
<1>1. ASSUME NEW T \in SUBSET S, \A x \in T : T \ {x} \in G
      PROVE  T \in G
  <2>1. CASE T = {}
    <3>1. Units(r, {}) = {} BY DEF Units
    <3> QED BY <2>1, <3>1, FS_EmptySet
  <2>2. CASE T # {}
    <3>1. PICK x \in T : TRUE BY <2>2
    <3>2. IsFiniteSet(Units(r, T \ {x})) /\ BytesOf(r[x]) \in Nat BY <1>1 DEF Bytes
    <3> QED BY <3>2, UnitsStep
  <2> QED BY <2>1, <2>2
<1> HIDE DEF G
<1>2. S \in G BY <1>1, SetInduction
<1> QED BY <1>2, FS_CardinalityType DEF G

Pick(T) == CHOOSE x \in T : TRUE

\* The fold takes the elements in the order of Pick; the order makes no difference.
LEMMA SumIsUnits ==
  ASSUME NEW r, NEW S, IsFiniteSet(S), Bytes(r, S)
  PROVE  Sum(r, S) = Cardinality(Units(r, S))
<1> DEFINE Solves(f) == f = [T \in SUBSET S |-> IF T = {} THEN 0
                                 ELSE BytesOf(r[Pick(T)]) + f[T \ {Pick(T)}]]
           count == [T \in SUBSET S |-> Cardinality(Units(r, T))]
           iter == CHOOSE f : Solves(f)
<1>1. Sum(r, S) = iter[S]
  BY Zenon DEF Sum, MapThenSumSet, MapThenFoldSet, Pick
<1>2. ASSUME NEW T \in SUBSET S, T # {}
      PROVE  Pick(T) \in T /\ T \ {Pick(T)} \in SUBSET S
  BY <1>2 DEF Pick
<1>3. ASSUME NEW T \in SUBSET S
      PROVE  Cardinality(Units(r, T)) = IF T = {} THEN 0
               ELSE BytesOf(r[Pick(T)]) + Cardinality(Units(r, T \ {Pick(T)}))
  <2>1. CASE T = {}
    <3>1. Units(r, {}) = {} BY DEF Units
    <3> QED BY <2>1, <3>1, FS_EmptySet
  <2>2. CASE T # {}
    <3>1. /\ IsFiniteSet(T \ {Pick(T)}) /\ Bytes(r, T \ {Pick(T)})
          /\ BytesOf(r[Pick(T)]) \in Nat /\ Pick(T) \in T
      BY <1>2, <2>2, FS_Subset DEF Bytes
    <3>2. IsFiniteSet(Units(r, T \ {Pick(T)})) BY <3>1, UnitsFinite
    <3> QED BY <2>2, <3>1, <3>2, UnitsStep
  <2> QED BY <2>1, <2>2
<1>4. Solves(count)
  <2>1. \A T \in SUBSET S : count[T] = IF T = {} THEN 0
                                      ELSE BytesOf(r[Pick(T)]) + count[T \ {Pick(T)}]
    BY <1>2, <1>3
  <2> QED BY <2>1
<1> HIDE DEF Solves, count
<1>5. Solves(iter) BY <1>4
<1> HIDE DEF iter
<1> DEFINE G == {T \in SUBSET S : iter[T] = count[T]}
<1>6. ASSUME NEW T \in SUBSET S, \A x \in T : T \ {x} \in G
      PROVE  T \in G
  <2>1. CASE T = {} BY <1>4, <1>5, <2>1 DEF Solves
  <2>2. CASE T # {}
    <3>1. iter[T \ {Pick(T)}] = count[T \ {Pick(T)}] BY <1>2, <1>6, <2>2
    <3>2. /\ iter[T] = BytesOf(r[Pick(T)]) + iter[T \ {Pick(T)}]
          /\ count[T] = BytesOf(r[Pick(T)]) + count[T \ {Pick(T)}]
      BY <1>4, <1>5, <2>2 DEF Solves
    <3> QED BY <3>1, <3>2
  <2> QED BY <2>1, <2>2
<1> HIDE DEF G
<1>7. S \in G BY <1>6, SetInduction
<1> QED BY <1>1, <1>7 DEF G, count

LEMMA SumNat ==
  ASSUME NEW r, NEW S, IsFiniteSet(S), Bytes(r, S)
  PROVE  Sum(r, S) \in Nat
BY SumIsUnits, UnitsFinite

\* A set without a part of it.
LEMMA SumWithout ==
  ASSUME NEW r, NEW S, IsFiniteSet(S), Bytes(r, S), NEW T \in SUBSET S
  PROVE  /\ Sum(r, S \ T) = Sum(r, S) - Sum(r, T)
         /\ Sum(r, T) <= Sum(r, S)
<1>1. /\ IsFiniteSet(T) /\ Bytes(r, T) /\ IsFiniteSet(S \ T) /\ Bytes(r, S \ T)
  BY FS_Subset DEF Bytes
<1>2. Units(r, S \ T) = Units(r, S) \ Units(r, T) /\ Units(r, T) \subseteq Units(r, S)
  BY DEF Units
<1>3. Units(r, S) \cap Units(r, T) = Units(r, T) BY <1>2
<1>4. IsFiniteSet(Units(r, S)) BY UnitsFinite
<1>5. Cardinality(Units(r, S \ T)) = Cardinality(Units(r, S)) - Cardinality(Units(r, T))
  BY <1>2, <1>3, <1>4, FS_Difference
<1>6. Cardinality(Units(r, T)) <= Cardinality(Units(r, S)) BY <1>2, <1>4, FS_Subset
<1> QED BY <1>1, <1>5, <1>6, SumIsUnits

LEMMA SumWith ==
  ASSUME NEW r, NEW S, IsFiniteSet(S), Bytes(r, S), NEW x \in S
  PROVE  Sum(r, S) = Sum(r, S \ {x}) + BytesOf(r[x])
<1>1. IsFiniteSet(S \ {x}) /\ Bytes(r, S \ {x}) /\ BytesOf(r[x]) \in Nat
  BY FS_Subset DEF Bytes
<1>2. IsFiniteSet(Units(r, S \ {x})) /\ Cardinality(Units(r, S \ {x})) \in Nat
  BY <1>1, UnitsFinite
<1>3. Cardinality(Units(r, S)) = BytesOf(r[x]) + Cardinality(Units(r, S \ {x}))
  BY <1>1, <1>2, UnitsStep
<1> QED BY <1>1, <1>2, <1>3, SumIsUnits

\* Two tables that agree on a set.
LEMMA SumSameSet ==
  ASSUME NEW r, NEW q, NEW S, IsFiniteSet(S), Bytes(r, S),
         \A s \in S : BytesOf(q[s]) = BytesOf(r[s])
  PROVE  Sum(q, S) = Sum(r, S)
<1>1. Bytes(q, S) BY DEF Bytes
<1>2. Units(q, S) = Units(r, S) BY DEF Units
<1> QED BY <1>1, <1>2, SumIsUnits

\* What has no bytes does not count.
LEMMA SumOfPart ==
  ASSUME NEW r, NEW S, IsFiniteSet(S), Bytes(r, S), NEW T \in SUBSET S,
         \A s \in S \ T : BytesOf(r[s]) = 0
  PROVE  Sum(r, T) = Sum(r, S)
<1>1. IsFiniteSet(T) /\ Bytes(r, T) BY FS_Subset DEF Bytes
<1>2. Units(r, T) = Units(r, S) BY DEF Units
<1> QED BY <1>1, <1>2, SumIsUnits
-------------------------------------------------------------------------------
(***************************************************************************)
(* Totals of the store.                                                    *)
(***************************************************************************)
Inv == TypeOK /\ ConnInv /\ LockInv /\ DoneInv /\ PlanInv /\ BytesInv /\ StoreIsSound

LEMMA TypedBytes ==
  ASSUME NEW r \in [Sessions -> Records \cup {None}]
  PROVE  /\ \A s \in Sessions : BytesOf(r[s]) \in Nat
         /\ \A s \in Sessions : r[s] \in Records => BytesOf(r[s]) = r[s].bytes
         /\ \A S \in SUBSET Sessions : IsFiniteSet(S) /\ Bytes(r, S)
<1>1. ASSUME NEW s \in Sessions PROVE BytesOf(r[s]) \in Nat
  BY SessionsAssumption DEF BytesOf, Records
<1>2. \A S \in SUBSET Sessions : IsFiniteSet(S) BY SessionsAssumption, FS_Subset
<1> QED BY <1>1, <1>2, SessionsAssumption DEF Bytes, BytesOf

LEMMA RecordBytes ==
  /\ BytesOf(None) = 0
  /\ \A r \in Records : BytesOf(r) = r.bytes /\ BytesOf(r) \in Nat /\ r # None
BY SessionsAssumption DEF BytesOf, Records

\* What the evictions leave.
LEMMA LeftTotal ==
  ASSUME TypeOK, PlanInv, BytesInv
  PROVE  /\ LeftBytes \in Nat
         /\ LeftBytes = Sum(rec, Left)
         /\ LeftBytes <= recordBytes
<1>1. /\ IsFiniteSet(Stored) /\ Bytes(rec, Stored) /\ plan \in SUBSET Stored
      /\ IsFiniteSet(Left) /\ Bytes(rec, Left)
      /\ IsFiniteSet(plan) /\ Bytes(rec, plan)
  BY TypedBytes DEF TypeOK, PlanInv, Stored, Left
<1>2. /\ Sum(rec, Stored \ plan) = Sum(rec, Stored) - Sum(rec, plan)
      /\ Sum(rec, plan) <= Sum(rec, Stored)
  BY <1>1, SumWithout
<1>3. Sum(rec, Stored) \in Nat /\ Sum(rec, Left) \in Nat /\ Sum(rec, plan) \in Nat
  BY <1>1, SumNat
<1>4. recordBytes = Sum(rec, Stored) /\ Total(plan) = Sum(rec, plan)
  BY TotalIsSum DEF BytesInv
<1> QED BY <1>2, <1>3, <1>4 DEF LeftBytes, Left

\* The store without the records of some sessions.
LEMMA TotalOfRest ==
  ASSUME TypeOK, NEW gone \in SUBSET Stored,
         rec' = [s \in Sessions |-> IF s \in gone THEN None ELSE rec[s]]
  PROVE  /\ Stored' = Stored \ gone
         /\ rec' \in [Sessions -> Records \cup {None}]
         /\ Total(Stored)' = Sum(rec, Stored \ gone)
<1>1. rec' \in [Sessions -> Records \cup {None}] BY DEF TypeOK
<1>2. Stored' = Stored \ gone BY DEF Stored
<1>3. IsFiniteSet(Stored \ gone) /\ Bytes(rec, Stored \ gone)
  BY TypedBytes DEF TypeOK, Stored
<1>4. Sum(rec', Stored \ gone) = Sum(rec, Stored \ gone)
  <2> DEFINE S == Stored \ gone
  <2>1. S \in SUBSET Sessions /\ \A s \in S : rec'[s] = rec[s] BY DEF Stored
  <2> HIDE DEF S
  <2>2. IsFiniteSet(S) /\ Bytes(rec, S) /\ \A s \in S : BytesOf(rec'[s]) = BytesOf(rec[s])
    BY <2>1, TypedBytes DEF TypeOK
  <2>3. Sum(rec', S) = Sum(rec, S) BY <2>2, SumSameSet
  <2> QED BY <2>3 DEF S
<1>5. Total(Stored)' = Sum(rec', Stored') BY Zenon, TotalIsSumNext
<1> QED BY <1>1, <1>2, <1>4, <1>5

\* Another record of one session: the totals differ by it.
LEMMA TotalOfOther ==
  ASSUME TypeOK, NEW s \in Sessions, NEW r \in Records \cup {None},
         rec' = [rec EXCEPT ![s] = r]
  PROVE  /\ rec' \in [Sessions -> Records \cup {None}]
         /\ Total(Stored) = Total(Stored \ {s}) + BytesOf(rec[s])
         /\ Total(Stored)' = Total(Stored \ {s}) + BytesOf(r)
         /\ Sum(rec', Stored' \ {s}) = Total(Stored \ {s})
         /\ Total(Stored \ {s}) \in Nat
<1> DEFINE rest == Sessions \ {s}
<1>1. /\ rec \in [Sessions -> Records \cup {None}]
      /\ rec' \in [Sessions -> Records \cup {None}]
      /\ rec'[s] = r /\ \A t \in rest : rec'[t] = rec[t]
  BY DEF TypeOK
<1>2. IsFiniteSet(Sessions) /\ IsFiniteSet(rest) /\ IsFiniteSet(Stored \ {s})
  BY <1>1, TypedBytes DEF Stored
<1>3. /\ Bytes(rec, Sessions) /\ Bytes(rec', Sessions)
      /\ Bytes(rec, rest) /\ Bytes(rec', rest) /\ Bytes(rec, Stored \ {s})
  BY <1>1, TypedBytes DEF Stored
<1>4. BytesOf(None) = 0 BY RecordBytes
<1>5. /\ Sum(rec, Sessions) = Sum(rec, rest) + BytesOf(rec[s])
      /\ Sum(rec', Sessions) = Sum(rec', rest) + BytesOf(r)
  BY <1>1, <1>2, <1>3, SumWith
<1>6. Sum(rec', rest) = Sum(rec, rest)
  <2>1. \A t \in rest : BytesOf(rec'[t]) = BytesOf(rec[t]) BY <1>1
  <2> HIDE DEF rest
  <2> QED BY <1>2, <1>3, <2>1, SumSameSet
<1>7. /\ Stored \in SUBSET Sessions /\ \A t \in Sessions \ Stored : BytesOf(rec[t]) = 0
      /\ Stored' \in SUBSET Sessions /\ \A t \in Sessions \ Stored' : BytesOf(rec'[t]) = 0
      /\ Stored \ {s} \in SUBSET rest /\ \A t \in rest \ (Stored \ {s}) : BytesOf(rec[t]) = 0
      /\ Stored' \ {s} = Stored \ {s}
  BY <1>1, <1>4 DEF Stored
<1>8. /\ Sum(rec, Stored) = Sum(rec, Sessions)
      /\ Sum(rec', Stored') = Sum(rec', Sessions)
      /\ Sum(rec, Stored \ {s}) = Sum(rec, rest)
  <2>1. Sum(rec, Stored) = Sum(rec, Sessions) BY <1>2, <1>3, <1>7, SumOfPart
  <2>2. Sum(rec', Stored') = Sum(rec', Sessions) BY <1>2, <1>3, <1>7, SumOfPart
  <2>3. Sum(rec, Stored \ {s}) = Sum(rec, rest) BY <1>2, <1>3, <1>7, SumOfPart
  <2> QED BY <2>1, <2>2, <2>3
<1>9. Sum(rec', Stored \ {s}) = Sum(rec, Stored \ {s})
  <2> DEFINE S == Stored \ {s}
  <2>1. \A t \in S : BytesOf(rec'[t]) = BytesOf(rec[t]) BY <1>1 DEF Stored
  <2> HIDE DEF rest
  <2>2. IsFiniteSet(S) /\ Bytes(rec, S) BY <1>2, <1>3
  <2> HIDE DEF S
  <2>3. Sum(rec', S) = Sum(rec, S) BY <2>1, <2>2, SumSameSet
  <2> QED BY <2>3 DEF S
<1>10. Total(Stored)' = Sum(rec', Stored') BY Zenon, TotalIsSumNext
<1>11. Total(Stored) = Sum(rec, Stored) /\ Total(Stored \ {s}) = Sum(rec, Stored \ {s})
  BY TotalIsSum
<1>12. Sum(rec, Stored \ {s}) \in Nat BY <1>2, <1>3, SumNat
<1> QED BY <1>1, <1>5, <1>6, <1>7, <1>8, <1>9, <1>10, <1>11, <1>12

-------------------------------------------------------------------------------
(***************************************************************************)
(* The steps of the connections, of the settings and of the event hub.     *)
(***************************************************************************)
\* Nobody enters or leaves the store.
LEMMA StoreSame ==
  ASSUME Inv, UNCHANGED <<rec, recordBytes, holder, previous, plan, ledger>>
  PROVE  PlanInv' /\ BytesInv' /\ WithinLimit' /\ LedgerAgrees'
<1>1. Stored' = Stored /\ Left' = Left BY DEF Stored, Left
<1>2. PlanInv' BY <1>1 DEF Inv, PlanInv
<1>3. Total(Stored)' = Total(Stored) /\ Total(Stored \ {holder})' = Total(Stored \ {holder})
  BY <1>1, TotalIsSum, TotalIsSumNext
<1>4. BytesInv' BY <1>3 DEF Inv, BytesInv
<1>5. WithinLimit' /\ LedgerAgrees'
  BY <1>3 DEF Inv, StoreIsSound, WithinLimit, LedgerAgrees, ledger
<1> QED BY <1>2, <1>4, <1>5

LEMMA UpsertStep ==
  ASSUME Inv, NEW s \in Sessions, NEW r \in Records, NEW to \in Writing,
         pc[s] \notin Writing, Upsert(s, r, to), completions' \in Nat,
         completions' >= completions,
         to \in {"begin", "update"} => r.done = 0,
         to = "finish" => r.done = completions + 1 /\ r.done = completions' /\ ~r.paused,
         to = "begin" => pc[s] = "new",
         to # "begin" => pc[s] \in {"live", "failing"}
  PROVE  Inv'
<1>1. /\ job' = [job EXCEPT ![s] = r] /\ seen' = [seen EXCEPT ![s] = maxSessions]
      /\ pc' = [pc EXCEPT ![s] = to]
      /\ UNCHANGED <<maxSessions, rec, recordBytes, holder, previous, plan, wanted>>
      /\ UNCHANGED <<limit, sessionBytes, eventBytes>>
  BY DEF Upsert, store, lock, ledger
<1>2. /\ job'[s] = r /\ seen'[s] = maxSessions /\ pc'[s] = to /\ holder # s
      /\ \A t \in Sessions \ {s} : job'[t] = job[t] /\ seen'[t] = seen[t] /\ pc'[t] = pc[t]
  BY <1>1 DEF Inv, TypeOK, LockInv
<1>3. TypeOK' BY <1>1 DEF Inv, TypeOK, Writing, Pcs
<1>4. r.done \in Nat /\ r # None /\ completions \in Nat
  BY RecordBytes DEF Records, Inv, TypeOK
<1>5. pc[s] = "new" => rec[s] = None BY DEF Inv, ConnInv
<1>6. pc[s] # "new" => rec[s] # None /\ rec[s].done = 0
  BY DEF Inv, StoreIsSound, LiveIsStored, Writing
<1>7. ConnInv'
  <2>1. ASSUME NEW t \in Sessions
        PROVE  /\ pc'[t] \in Writing => job'[t] \in Records /\ seen'[t] \in Counts
               /\ pc'[t] \in {"begin", "update"} => job'[t].done = 0
               /\ pc'[t] = "finish" => job'[t].done > 0 /\ ~job'[t].paused
               /\ pc'[t] = "new" \/ (pc'[t] = "begin" /\ holder' # t) => rec'[t] = None
               /\ rec'[t] # None /\ rec'[t].done > 0 =>
                    ~rec'[t].paused /\ (pc'[t] = "closed" \/ pc'[t] = "finish")
    <3>1. CASE t = s
      BY <1>1, <1>2, <1>4, <1>5, <1>6, <3>1 DEF Inv, TypeOK, Writing
    <3>2. CASE t # s BY <1>1, <1>2, <3>2 DEF Inv, ConnInv
    <3> QED BY <3>1, <3>2
  <2> QED BY <2>1 DEF ConnInv, Writing
<1>8. LockInv'
  BY <1>1, <1>2 DEF Inv, LockInv
<1>9. DoneInv'
  <2>1. ASSUME NEW t \in Sessions
        PROVE  /\ rec[t] # None => rec[t].done <= completions /\ rec[t].done \in Nat
               /\ pc[t] = "finish" => job[t].done <= completions /\ job[t].done \in Nat
    BY DEF Inv, DoneInv, ConnInv, TypeOK, Records, Writing
  <2>2. ASSUME NEW t \in Sessions
        PROVE  /\ rec[t] # None => rec[t].done <= completions'
               /\ pc'[t] = "finish" => job'[t].done <= completions'
    BY <1>2, <1>4, <2>1
  <2>3. ASSUME NEW t \in Sessions, NEW u \in Sessions, t # u
        PROVE  /\ rec[t] # None /\ rec[u] # None /\ rec[t].done > 0
                    => rec[t].done # rec[u].done
               /\ rec[t] # None /\ pc'[u] = "finish" => rec[t].done # job'[u].done
               /\ pc'[t] = "finish" /\ pc'[u] = "finish" => job'[t].done # job'[u].done
    BY <1>2, <1>4, <2>1, <2>3 DEF Inv, DoneInv
  <2> QED BY <1>1, <2>2, <2>3 DEF DoneInv
<1>10. LiveIsStored'
  BY <1>1, <1>2, <1>6 DEF Inv, StoreIsSound, LiveIsStored
<1>11. PlanInv' /\ BytesInv' /\ WithinLimit' /\ LedgerAgrees'
  BY <1>1, StoreSame DEF ledger
<1> QED BY <1>3, <1>7, <1>8, <1>9, <1>10, <1>11 DEF Inv, StoreIsSound

LEMMA BeginStep ==
  ASSUME Inv, NEW s \in Sessions, Begin(s)
  PROVE  Inv'
<1>1. PICK b \in Sizes : Upsert(s, [bytes |-> b, done |-> 0, paused |-> FALSE], "begin")
  BY DEF Begin
<1>2. [bytes |-> b, done |-> 0, paused |-> FALSE] \in Records BY DEF Records
<1>3. pc[s] = "new" /\ completions' = completions /\ completions \in Nat
  BY DEF Begin, Inv, TypeOK
<1> QED BY <1>1, <1>2, <1>3, UpsertStep DEF Writing

LEMMA UpdateStep ==
  ASSUME Inv, NEW s \in Sessions, Update(s)
  PROVE  Inv'
<1>1. PICK b \in Sizes, p \in BOOLEAN :
        Upsert(s, [bytes |-> b, done |-> 0, paused |-> p], "update")
  BY DEF Update
<1>2. [bytes |-> b, done |-> 0, paused |-> p] \in Records BY DEF Records
<1>3. pc[s] = "live" /\ completions' = completions /\ completions \in Nat
  BY DEF Update, Inv, TypeOK
<1> QED BY <1>1, <1>2, <1>3, UpsertStep DEF Writing

LEMMA FinishStep ==
  ASSUME Inv, NEW s \in Sessions, Finish(s)
  PROVE  Inv'
<1>1. PICK b \in Sizes :
        Upsert(s, [bytes |-> b, done |-> completions + 1, paused |-> FALSE], "finish")
  BY DEF Finish
<1>2. /\ pc[s] \in {"live", "failing"} /\ completions' = completions + 1
      /\ completions \in Nat
  BY DEF Finish, Inv, TypeOK
<1>3. [bytes |-> b, done |-> completions + 1, paused |-> FALSE] \in Records
  BY <1>2 DEF Records
<1> QED BY <1>1, <1>2, <1>3, UpsertStep DEF Writing

LEMMA AbortStep ==
  ASSUME Inv, NEW s \in Sessions, Abort(s)
  PROVE  Inv'
<1>1. /\ pc[s] = "live" /\ pc' = [pc EXCEPT ![s] = "aborted"]
      /\ UNCHANGED <<maxSessions, rec, recordBytes, holder, previous, plan, wanted>>
      /\ UNCHANGED <<limit, sessionBytes, eventBytes, job, seen, completions>>
  BY DEF Abort, store, lock, ledger
<1>2. /\ pc'[s] = "aborted" /\ \A t \in Sessions \ {s} : pc'[t] = pc[t]
      /\ holder # s
  BY <1>1 DEF Inv, TypeOK, LockInv, Writing
<1>3. TypeOK' BY <1>1 DEF Inv, TypeOK, Pcs
<1>4. ConnInv'
  <2>1. rec[s] # None => rec[s].done = 0
    BY <1>1 DEF Inv, StoreIsSound, LiveIsStored
  <2> QED BY <1>1, <1>2, <2>1 DEF Inv, ConnInv, Writing
<1>5. LockInv' BY <1>1, <1>2 DEF Inv, LockInv
<1>6. DoneInv' BY <1>1, <1>2 DEF Inv, DoneInv
<1>7. LiveIsStored' BY <1>1, <1>2 DEF Inv, StoreIsSound, LiveIsStored
<1>8. PlanInv' /\ BytesInv' /\ WithinLimit' /\ LedgerAgrees'
  BY <1>1, StoreSame DEF ledger
<1> QED BY <1>3, <1>4, <1>5, <1>6, <1>7, <1>8 DEF Inv, StoreIsSound

\* Whoever has the lock, the connections that wait and the sessions that are completed
\* are as before.
LEMMA NobodyWrites ==
  ASSUME Inv, UNCHANGED <<rec, pc, job, seen, completions>>,
         holder' \notin Sessions, holder \notin Sessions
  PROVE  ConnInv' /\ DoneInv' /\ LiveIsStored'
<1>1. ConnInv' BY DEF Inv, ConnInv
<1>2. DoneInv' BY DEF Inv, DoneInv
<1>3. LiveIsStored' BY DEF Inv, StoreIsSound, LiveIsStored
<1> QED BY <1>1, <1>2, <1>3

LEMMA EmptyPlan ==
  ASSUME Inv, holder = None
  PROVE  /\ plan = {} /\ Stored \ {holder} = Stored /\ sessionBytes = Total(Stored)
<1>1. plan = {} /\ None \notin Sessions BY SessionsAssumption DEF Inv, LockInv
<1>2. Stored \ {holder} = Stored BY <1>1 DEF Stored
<1>3. sessionBytes = Total(Stored) + 0 BY <1>1, <1>2 DEF Inv, StoreIsSound, LedgerAgrees
<1> QED BY <1>1, <1>2, <1>3 DEF Inv, TypeOK, BytesInv

LEMMA SettingsEnter ==
  ASSUME Inv, SetLimits
  PROVE  Inv'
<1>1. /\ holder = None /\ holder' = Settings /\ wanted' \in [count : Counts, bytes : Limits]
      /\ UNCHANGED <<maxSessions, rec, recordBytes, previous, plan>>
      /\ UNCHANGED <<limit, sessionBytes, eventBytes, pc, job, seen, completions>>
  BY DEF SetLimits, store, ledger, conns
<1>2. Settings \notin Sessions /\ None \notin Sessions /\ Settings # None
  BY SessionsAssumption
<1>3. TypeOK' BY <1>1 DEF Inv, TypeOK
<1>4. ConnInv' /\ DoneInv' /\ LiveIsStored' BY <1>1, <1>2, NobodyWrites
<1>5. LockInv' BY <1>1, <1>2 DEF LockInv
<1>6. Stored' = Stored /\ plan' = {} BY <1>1, EmptyPlan DEF Stored
<1>7. PlanInv' BY <1>6 DEF PlanInv
<1>8. Total(Stored)' = Total(Stored) /\ Total(Stored \ {holder})' = Total(Stored)
  <2>1. Stored' \ {holder'} = Stored BY <1>1, <1>2, <1>6 DEF Stored
  <2> QED BY <1>1, <1>6, <2>1, TotalIsSum, TotalIsSumNext
<1>9. BytesInv' BY <1>1, <1>8 DEF Inv, BytesInv
<1>10. WithinLimit' BY <1>1 DEF Inv, StoreIsSound, WithinLimit
<1>11. LedgerAgrees'
  <2>1. sessionBytes' = Total(Stored) /\ Total(Stored) \in Nat
    BY <1>1, EmptyPlan DEF Inv, TypeOK, BytesInv
  <2> QED BY <1>1, <1>2, <1>8, <2>1 DEF LedgerAgrees
<1> QED BY <1>3, <1>4, <1>5, <1>7, <1>9, <1>10, <1>11 DEF Inv, StoreIsSound

LEMMA SettingsLeave ==
  ASSUME Inv, LimitsRefused
  PROVE  Inv'
<1>1. /\ holder = Settings /\ holder' = None
      /\ plan' = {} /\ previous' = None /\ wanted' = None
      /\ UNCHANGED <<maxSessions, rec, recordBytes>>
      /\ UNCHANGED <<limit, sessionBytes, eventBytes, pc, job, seen, completions>>
  BY DEF LimitsRefused, Release, store, ledger, conns
<1>2. Settings \notin Sessions /\ None \notin Sessions /\ Settings # None
  BY SessionsAssumption
<1>3. TypeOK' BY <1>1 DEF Inv, TypeOK
<1>4. ConnInv' /\ DoneInv' /\ LiveIsStored' BY <1>1, <1>2, NobodyWrites
<1>5. LockInv' BY <1>1, <1>2 DEF LockInv
<1>6. Stored' = Stored BY <1>1 DEF Stored
<1>7. PlanInv' BY <1>1 DEF PlanInv
<1>8. Total(Stored)' = Total(Stored)
      /\ Total(Stored \ {holder})' = Total(Stored \ {holder})
  <2>1. Stored' \ {holder'} = Stored \ {holder} BY <1>1, <1>2, <1>6 DEF Stored
  <2> QED BY <1>1, <1>6, <2>1, TotalIsSum, TotalIsSumNext
<1>9. BytesInv' BY <1>1, <1>8 DEF Inv, BytesInv
<1>10. WithinLimit' BY <1>1 DEF Inv, StoreIsSound, WithinLimit
<1>11. LedgerAgrees' BY <1>1, <1>2, <1>8 DEF Inv, StoreIsSound, LedgerAgrees
<1> QED BY <1>3, <1>4, <1>5, <1>7, <1>9, <1>10, <1>11 DEF Inv, StoreIsSound

LEMMA HubStep ==
  ASSUME Inv, EventStep
  PROVE  Inv'
<1> DEFINE Moved == /\ eventBytes' \in Nat /\ sessionBytes + eventBytes' <= limit
                    /\ UNCHANGED <<store, lock, limit, sessionBytes, conns>>
<1>1. Moved
  <2>1. sessionBytes \in Nat /\ eventBytes \in Nat /\ limit \in Nat /\ Sizes \subseteq Nat
    BY SessionsAssumption DEF Inv, TypeOK
  <2>2. sessionBytes + eventBytes <= limit BY DEF Inv, StoreIsSound, WithinLimit
  <2>3. ASSUME NEW b \in Sizes, ReserveEvents(b) PROVE Moved
    BY <2>1, <2>3 DEF ReserveEvents
  <2>4. ASSUME NEW b \in Sizes, ReleaseEvents(b) PROVE Moved
    BY <2>1, <2>2, <2>4 DEF ReleaseEvents
  <2>5. ASSUME NEW b \in Sizes, NEW c \in Sizes, ReplaceEvents(b, c) PROVE Moved
    BY <2>1, <2>5 DEF ReplaceEvents
  <2> QED BY <2>3, <2>4, <2>5 DEF EventStep
<1>2. /\ UNCHANGED <<maxSessions, rec, recordBytes, holder, previous, plan, wanted>>
      /\ UNCHANGED <<limit, sessionBytes, pc, job, seen, completions>>
  BY <1>1 DEF store, lock, conns
<1>3. TypeOK' BY <1>1, <1>2 DEF Inv, TypeOK
<1>4. ConnInv' BY <1>2 DEF Inv, ConnInv
<1>5. LockInv' BY <1>2 DEF Inv, LockInv
<1>6. DoneInv' BY <1>2 DEF Inv, DoneInv
<1>7. Stored' = Stored /\ Left' = Left BY <1>2 DEF Stored, Left
<1>8. PlanInv' BY <1>2, <1>7 DEF Inv, PlanInv
<1>9. Total(Stored)' = Total(Stored) /\ Total(Stored \ {holder})' = Total(Stored \ {holder})
  BY <1>2, <1>7, TotalIsSum, TotalIsSumNext
<1>10. BytesInv' BY <1>2, <1>9 DEF Inv, BytesInv
<1>11. WithinLimit' BY <1>1, <1>2 DEF WithinLimit
<1>12. LedgerAgrees' BY <1>2, <1>9 DEF Inv, StoreIsSound, LedgerAgrees
<1>13. LiveIsStored' BY <1>2 DEF Inv, StoreIsSound, LiveIsStored
<1> QED BY <1>3, <1>4, <1>5, <1>6, <1>8, <1>10, <1>11, <1>12, <1>13 DEF Inv, StoreIsSound
-------------------------------------------------------------------------------
(***************************************************************************)
(* Under the state lock.                                                   *)
(***************************************************************************)
LEMMA InsertStep ==
  ASSUME Inv, NEW s \in Sessions, Insert(s)
  PROVE  Inv'
<1>1. /\ pc[s] \in Writing /\ holder = None /\ holder' = s /\ previous' = rec[s]
      /\ rec' = [rec EXCEPT ![s] = job[s]]
      /\ recordBytes' = recordBytes - BytesOf(rec[s]) + BytesOf(job[s])
      /\ UNCHANGED <<maxSessions, plan, wanted, limit, sessionBytes, eventBytes>>
      /\ UNCHANGED <<pc, job, seen, completions>>
  BY DEF Insert, ledger, conns, Writing
<1>2. /\ job[s] \in Records /\ job[s] # None /\ job[s].done \in Nat
      /\ pc[s] \in {"begin", "update"} => job[s].done = 0
      /\ pc[s] = "finish" => job[s].done > 0 /\ ~job[s].paused
  BY <1>1, RecordBytes DEF Inv, ConnInv, Records
<1>3. /\ pc[s] = "begin" => rec[s] = None
      /\ pc[s] # "begin" => rec[s] # None /\ rec[s].done = 0
  BY <1>1, SessionsAssumption DEF Inv, ConnInv, StoreIsSound, LiveIsStored, Writing
<1>4. rec'[s] = job[s] /\ \A t \in Sessions \ {s} : rec'[t] = rec[t]
  BY <1>1 DEF Inv, TypeOK
<1>5. /\ rec' \in [Sessions -> Records \cup {None}]
      /\ Total(Stored) = Total(Stored \ {s}) + BytesOf(rec[s])
      /\ Total(Stored)' = Total(Stored \ {s}) + BytesOf(job[s])
      /\ Sum(rec', Stored' \ {s}) = Total(Stored \ {s})
      /\ Total(Stored \ {s}) \in Nat
  BY <1>1, <1>2, TotalOfOther DEF Inv
<1>6. BytesOf(rec[s]) \in Nat /\ BytesOf(job[s]) \in Nat /\ rec[s] \in Records \cup {None}
  BY <1>2, RecordBytes DEF Inv, TypeOK
<1>7. /\ recordBytes = Total(Stored) /\ sessionBytes = Total(Stored) /\ plan = {}
  BY <1>1, EmptyPlan DEF Inv, BytesInv
<1>8. recordBytes' = Total(Stored)' /\ recordBytes' \in Nat
  BY <1>1, <1>5, <1>6, <1>7
<1>9. TypeOK' BY <1>1, <1>5, <1>6, <1>8 DEF Inv, TypeOK
<1>10. ConnInv'
  <2>1. ASSUME NEW t \in Sessions
        PROVE  /\ pc[t] \in Writing => job[t] \in Records /\ seen[t] \in Counts
               /\ pc[t] \in {"begin", "update"} => job[t].done = 0
               /\ pc[t] = "finish" => job[t].done > 0 /\ ~job[t].paused
               /\ pc[t] = "new" \/ (pc[t] = "begin" /\ s # t) => rec'[t] = None
               /\ rec'[t] # None /\ rec'[t].done > 0 =>
                    ~rec'[t].paused /\ (pc[t] = "closed" \/ pc[t] = "finish")
    <3>1. CASE t = s BY <1>1, <1>2, <1>4, <3>1 DEF Inv, ConnInv, Writing
    <3>2. CASE t # s BY <1>1, <1>4, <3>2, SessionsAssumption DEF Inv, ConnInv
    <3> QED BY <3>1, <3>2
  <2> QED BY <1>1, <2>1 DEF ConnInv
<1>11. LockInv'
  BY <1>1, <1>3, <1>4, <1>6, SessionsAssumption DEF LockInv
<1>12. DoneInv'
  <2>1. rec'[s].done <= completions
    BY <1>1, <1>2, <1>4 DEF Inv, DoneInv, TypeOK, Writing
  <2>2. ASSUME NEW t \in Sessions
        PROVE  /\ rec'[t] # None => rec'[t].done <= completions
               /\ pc[t] = "finish" => job[t].done <= completions
    BY <1>4, <2>1 DEF Inv, DoneInv
  <2>3. ASSUME NEW t \in Sessions \ {s}
        PROVE  /\ rec[t] # None /\ rec'[s].done > 0 => rec[t].done # rec'[s].done
               /\ pc[t] = "finish" => rec'[s].done # job[t].done
    BY <1>1, <1>2, <1>4 DEF Inv, DoneInv, ConnInv, Writing
  <2>4. ASSUME NEW t \in Sessions, NEW u \in Sessions, t # u
        PROVE  /\ rec'[t] # None /\ rec'[u] # None /\ rec'[t].done > 0
                    => rec'[t].done # rec'[u].done
               /\ rec'[t] # None /\ pc[u] = "finish" => rec'[t].done # job[u].done
               /\ pc[t] = "finish" /\ pc[u] = "finish" => job[t].done # job[u].done
    <3>1. CASE t = s BY <1>4, <2>3, <2>4, <3>1 DEF Inv, DoneInv
    <3>2. CASE u = s BY <1>2, <1>4, <2>3, <2>4, <3>2 DEF Inv, DoneInv
    <3>3. CASE t # s /\ u # s BY <1>4, <2>4, <3>3 DEF Inv, DoneInv
    <3> QED BY <3>1, <3>2, <3>3
  <2> QED BY <1>1, <2>2, <2>4 DEF DoneInv
<1>13. PlanInv' BY <1>1, <1>7 DEF PlanInv
<1>14. BytesInv' BY <1>8 DEF BytesInv
<1>15. WithinLimit' BY <1>1 DEF Inv, StoreIsSound, WithinLimit
<1>16. LedgerAgrees'
  <2>1. Total(Stored \ {holder})' = Total(Stored \ {s}) BY <1>1, <1>5, TotalIsSumNext
  <2> QED BY <1>1, <1>5, <1>7, <2>1 DEF LedgerAgrees
<1>17. LiveIsStored'
  <2>1. ASSUME NEW t \in Sessions,
               pc[t] \in {"live", "update", "failing"} \/ (pc[t] = "finish" /\ s # t)
        PROVE  rec'[t] # None /\ rec'[t].done = 0
    <3>1. CASE t = s BY <1>1, <1>2, <1>4, <2>1, <3>1 DEF Writing
    <3>2. CASE t # s
      BY <1>1, <1>4, <2>1, <3>2, SessionsAssumption DEF Inv, StoreIsSound, LiveIsStored
    <3> QED BY <3>1, <3>2
  <2> QED BY <1>1, <2>1 DEF LiveIsStored
<1> QED
  BY <1>9, <1>10, <1>11, <1>12, <1>13, <1>14, <1>15, <1>16, <1>17 DEF Inv, StoreIsSound

\* One more is planned: it is the oldest of those left that may go, and what may not go
\* is not completed.
LEMMA PlanStep ==
  ASSUME Inv, PlanEviction
  PROVE  Inv'
<1>1. PICK v \in Oldest(Victims) : plan' = plan \cup {v} BY DEF PlanEviction
<1>2. /\ holder # None
      /\ UNCHANGED <<maxSessions, rec, recordBytes, holder, previous, wanted>>
      /\ UNCHANGED <<limit, sessionBytes, eventBytes, pc, job, seen, completions>>
  BY DEF PlanEviction, store, ledger, conns
<1>3. /\ v \in Left /\ v \in Sessions /\ v # holder /\ rec[v] # None /\ rec[v].done > 0
      /\ \A t \in Victims : rec[v].done <= rec[t].done
  BY DEF Oldest, Victims, Left, Stored
<1>4. TypeOK' BY <1>1, <1>2, <1>3 DEF Inv, TypeOK
<1>5. ConnInv' BY <1>2 DEF Inv, ConnInv
<1>6. LockInv' BY <1>2 DEF Inv, LockInv
<1>7. DoneInv' BY <1>2 DEF Inv, DoneInv
<1>8. Stored' = Stored /\ Left' = Left \ {v} BY <1>1, <1>2 DEF Stored, Left
<1>9. PlanInv'
  <2>1. ASSUME NEW t \in Left, t # holder, t # v
        PROVE  rec[t].done = 0 \/ rec[v].done < rec[t].done
    <3>1. /\ t \in Sessions /\ rec[t] # None /\ rec[t].done \in Nat /\ rec[v].done \in Nat
      BY <1>3 DEF Left, Stored, Inv, TypeOK, Records
    <3>2. CASE rec[t].done > 0
      <4>1. t \in Victims BY <2>1, <3>1, <3>2 DEF Victims, Inv, ConnInv
      <4>2. rec[v].done # rec[t].done BY <1>3, <2>1, <3>1 DEF Inv, DoneInv
      <4> QED BY <1>3, <3>1, <4>1, <4>2
    <3> QED BY <3>1, <3>2
  <2>2. plan' \subseteq Stored' /\ holder' \notin plan'
    BY <1>1, <1>2, <1>3, <1>8 DEF Inv, PlanInv, Left
  <2>3. \A u \in plan' : rec'[u].done > 0 BY <1>1, <1>2, <1>3 DEF Inv, PlanInv
  <2>4. ASSUME NEW u \in plan', NEW t \in Left' \ {holder'}
        PROVE  rec'[t].done = 0 \/ rec'[u].done < rec'[t].done
    BY <1>1, <1>2, <1>8, <2>1 DEF Inv, PlanInv
  <2> QED BY <2>2, <2>3, <2>4 DEF PlanInv
<1>10. BytesInv' /\ LedgerAgrees'
  <2>1. /\ Total(Stored)' = Total(Stored)
        /\ Total(Stored \ {holder})' = Total(Stored \ {holder})
    BY <1>2, <1>8, TotalIsSum, TotalIsSumNext
  <2> QED BY <1>2, <2>1 DEF Inv, BytesInv, StoreIsSound, LedgerAgrees
<1>11. WithinLimit' BY <1>2 DEF Inv, StoreIsSound, WithinLimit
<1>12. LiveIsStored' BY <1>2 DEF Inv, StoreIsSound, LiveIsStored
<1> QED BY <1>4, <1>5, <1>6, <1>7, <1>9, <1>10, <1>11, <1>12 DEF Inv, StoreIsSound

\* Some completed sessions leave the store, and nobody is inside it: what the records,
\* the ledger and the plan are then.
LEMMA RecordsLeave ==
  ASSUME Inv, NEW gone \in SUBSET Stored, holder \notin gone,
         \A t \in gone : rec[t].done > 0,
         rec' = [t \in Sessions |-> IF t \in gone THEN None ELSE rec[t]],
         recordBytes' = Sum(rec, Stored \ gone), sessionBytes' = recordBytes',
         holder' = None, plan' = {}, eventBytes' = eventBytes,
         recordBytes' + eventBytes <= limit'
  PROVE  /\ rec' \in [Sessions -> Records \cup {None}] /\ recordBytes' \in Nat
         /\ PlanInv' /\ BytesInv' /\ WithinLimit' /\ LedgerAgrees'
<1>1. /\ Stored' = Stored \ gone
      /\ rec' \in [Sessions -> Records \cup {None}]
      /\ Total(Stored)' = Sum(rec, Stored \ gone)
  BY TotalOfRest DEF Inv
<1>2. IsFiniteSet(Stored \ gone) /\ Bytes(rec, Stored \ gone)
  BY TypedBytes DEF Inv, TypeOK, Stored
<1>3. Sum(rec, Stored \ gone) \in Nat BY <1>2, SumNat
<1>4. PlanInv' BY SessionsAssumption DEF PlanInv
<1>5. BytesInv' BY <1>1 DEF BytesInv
<1>6. WithinLimit' BY DEF WithinLimit
<1>7. LedgerAgrees'
  <2>1. Stored' \ {holder'} = Stored' BY SessionsAssumption DEF Stored
  <2>2. Total(Stored \ {holder})' = Total(Stored)' BY <2>1, TotalIsSumNext
  <2>3. holder' \notin Sessions BY SessionsAssumption
  <2> QED BY <1>1, <1>3, <2>2, <2>3 DEF LedgerAgrees
<1> QED BY <1>1, <1>3, <1>4, <1>5, <1>6, <1>7

\* The records that stay are the ones there were.
LEMMA OthersSame ==
  ASSUME Inv, NEW gone \in SUBSET Stored,
         \A t \in gone : rec[t].done > 0,
         rec' = [t \in Sessions |-> IF t \in gone THEN None ELSE rec[t]],
         UNCHANGED <<pc, job, seen, completions>>, holder \notin Sessions, holder' = None
  PROVE  ConnInv' /\ DoneInv' /\ LiveIsStored'
<1>1. \A t \in Sessions : rec'[t] = IF t \in gone THEN None ELSE rec[t] OBVIOUS
<1>2. None \notin Sessions BY SessionsAssumption
<1>3. ConnInv'
  <2>1. ASSUME NEW t \in Sessions
        PROVE  /\ pc[t] \in Writing => job[t] \in Records /\ seen[t] \in Counts
               /\ pc[t] \in {"begin", "update"} => job[t].done = 0
               /\ pc[t] = "finish" => job[t].done > 0 /\ ~job[t].paused
               /\ pc[t] = "new" \/ pc[t] = "begin" => rec'[t] = None
               /\ rec'[t] # None /\ rec'[t].done > 0 =>
                    ~rec'[t].paused /\ (pc[t] = "closed" \/ pc[t] = "finish")
    BY <1>1 DEF Inv, ConnInv
  <2> QED BY <2>1 DEF ConnInv
<1>4. DoneInv'
  BY <1>1 DEF Inv, DoneInv
<1>5. LiveIsStored'
  BY <1>1 DEF Inv, StoreIsSound, LiveIsStored
<1> QED BY <1>3, <1>4, <1>5

\* What the evictions leave fits, whoever asked for them.
LEMMA Evicted ==
  ASSUME Inv, Evict
  PROVE  /\ rec' \in [Sessions -> Records \cup {None}] /\ recordBytes' \in Nat
         /\ sessionBytes' = recordBytes' /\ limit' = ByteLimit /\ eventBytes' = eventBytes
         /\ rec' = [t \in Sessions |-> IF t \in plan THEN None ELSE rec[t]]
         /\ holder' = None /\ previous' = None /\ plan' = {} /\ wanted' = None
         /\ PlanInv' /\ BytesInv' /\ WithinLimit' /\ LedgerAgrees'
         /\ plan \subseteq Stored /\ holder \notin plan /\ \A t \in plan : rec[t].done > 0
<1>1. /\ rec' = [t \in Sessions |-> IF t \in plan THEN None ELSE rec[t]]
      /\ recordBytes' = LeftBytes /\ sessionBytes' = LeftBytes /\ limit' = ByteLimit
      /\ holder' = None /\ previous' = None /\ plan' = {} /\ wanted' = None
      /\ eventBytes' = eventBytes /\ LeftBytes + eventBytes <= ByteLimit
  BY DEF Evict, Release, Fits
<1>2. plan \subseteq Stored /\ holder \notin plan /\ \A t \in plan : rec[t].done > 0
  BY DEF Inv, PlanInv
<1>3. LeftBytes = Sum(rec, Stored \ plan) BY LeftTotal DEF Inv, Left
<1> HIDE DEF LeftBytes, ByteLimit
<1>4. /\ recordBytes' = Sum(rec, Stored \ plan) /\ sessionBytes' = recordBytes'
      /\ recordBytes' + eventBytes <= limit'
  BY <1>1, <1>3
<1> QED BY <1>1, <1>2, <1>4, RecordsLeave

LEMMA UpsertedStep ==
  ASSUME Inv, NEW s \in Sessions, Upserted(s)
  PROVE  Inv'
<1>1. /\ holder = s /\ Evict /\ maxSessions' = maxSessions /\ completions' = completions
      /\ pc' = [pc EXCEPT ![s] = IF @ = "finish" THEN "closed" ELSE "live"]
      /\ job' = [job EXCEPT ![s] = None] /\ seen' = [seen EXCEPT ![s] = None]
  BY DEF Upserted, Return
<1>2. /\ rec' \in [Sessions -> Records \cup {None}] /\ recordBytes' \in Nat
      /\ sessionBytes' = recordBytes' /\ limit' = ByteLimit /\ eventBytes' = eventBytes
      /\ rec' = [t \in Sessions |-> IF t \in plan THEN None ELSE rec[t]]
      /\ holder' = None /\ previous' = None /\ plan' = {} /\ wanted' = None
      /\ PlanInv' /\ BytesInv' /\ WithinLimit' /\ LedgerAgrees'
      /\ plan \subseteq Stored /\ holder \notin plan /\ \A t \in plan : rec[t].done > 0
  BY <1>1, Evicted
<1>3. s # Settings /\ None \notin Sessions BY SessionsAssumption
<1>4. /\ pc[s] \in Writing /\ rec[s] = job[s] /\ job[s] \in Records /\ job[s] # None
      /\ pc[s] \in {"begin", "update"} => job[s].done = 0
      /\ pc[s] = "finish" => job[s].done > 0 /\ ~job[s].paused
  BY <1>1, RecordBytes DEF Inv, LockInv, ConnInv
<1>5. /\ pc'[s] = IF pc[s] = "finish" THEN "closed" ELSE "live"
      /\ rec'[s] = job[s]
      /\ \A t \in Sessions \ {s} : pc'[t] = pc[t] /\ job'[t] = job[t] /\ seen'[t] = seen[t]
      /\ \A t \in Sessions : rec'[t] = IF t \in plan THEN None ELSE rec[t]
  BY <1>1, <1>2, <1>4 DEF Inv, TypeOK
<1>6. TypeOK'
  <2>1. limit' \in Limits BY <1>1, <1>2, <1>3 DEF ByteLimit, Inv, TypeOK
  <2>2. pc' \in [Sessions -> Pcs] BY <1>1 DEF Inv, TypeOK, Pcs
  <2>3. /\ job' \in [Sessions -> Records \cup {None}]
        /\ seen' \in [Sessions -> Counts \cup {None}]
    BY <1>1 DEF Inv, TypeOK
  <2> QED BY <1>1, <1>2, <2>1, <2>2, <2>3 DEF Inv, TypeOK
<1>7. ConnInv'
  <2>1. ASSUME NEW t \in Sessions
        PROVE  /\ pc'[t] \in Writing => job'[t] \in Records /\ seen'[t] \in Counts
               /\ pc'[t] \in {"begin", "update"} => job'[t].done = 0
               /\ pc'[t] = "finish" => job'[t].done > 0 /\ ~job'[t].paused
               /\ pc'[t] = "new" \/ (pc'[t] = "begin" /\ holder' # t) => rec'[t] = None
               /\ rec'[t] # None /\ rec'[t].done > 0 =>
                    ~rec'[t].paused /\ (pc'[t] = "closed" \/ pc'[t] = "finish")
    <3>1. CASE t = s BY <1>4, <1>5, <3>1 DEF Writing
    <3>2. CASE t # s BY <1>1, <1>5, <3>2 DEF Inv, ConnInv
    <3> QED BY <3>1, <3>2
  <2> QED BY <2>1 DEF ConnInv
<1>8. LockInv' BY <1>2, SessionsAssumption DEF LockInv
<1>9. DoneInv'
  <2>1. pc'[s] # "finish" BY <1>5
  <2>2. ASSUME NEW t \in Sessions
        PROVE  /\ rec'[t] # None => rec'[t].done <= completions
               /\ pc'[t] = "finish" => job'[t].done <= completions
    BY <1>5, <2>1 DEF Inv, DoneInv
  <2>3. ASSUME NEW t \in Sessions, NEW u \in Sessions, t # u
        PROVE  /\ rec'[t] # None /\ rec'[u] # None /\ rec'[t].done > 0
                    => rec'[t].done # rec'[u].done
               /\ rec'[t] # None /\ pc'[u] = "finish" => rec'[t].done # job'[u].done
               /\ pc'[t] = "finish" /\ pc'[u] = "finish" => job'[t].done # job'[u].done
    BY <1>5, <2>1, <2>3 DEF Inv, DoneInv
  <2> QED BY <1>1, <2>2, <2>3 DEF DoneInv
<1>10. LiveIsStored'
  <2>1. ASSUME NEW t \in Sessions, pc'[t] \in {"live", "update", "failing", "finish"}
        PROVE  rec'[t] # None /\ rec'[t].done = 0
    <3>1. CASE t = s BY <1>4, <1>5, <2>1, <3>1 DEF Writing
    <3>2. CASE t # s
      <4>1. rec[t] # None /\ rec[t].done = 0
        BY <1>1, <1>5, <2>1, <3>2 DEF Inv, StoreIsSound, LiveIsStored
      <4> QED BY <1>2, <1>5, <4>1
    <3> QED BY <3>1, <3>2
  <2> QED BY <2>1 DEF LiveIsStored
<1> QED BY <1>2, <1>6, <1>7, <1>8, <1>9, <1>10 DEF Inv, StoreIsSound

LEMMA LimitsSetStep ==
  ASSUME Inv, LimitsSet
  PROVE  Inv'
<1>1. /\ holder = Settings /\ Evict /\ maxSessions' = wanted.count
      /\ UNCHANGED <<pc, job, seen, completions>>
  BY DEF LimitsSet, conns
<1>2. /\ rec' \in [Sessions -> Records \cup {None}] /\ recordBytes' \in Nat
      /\ sessionBytes' = recordBytes' /\ limit' = ByteLimit /\ eventBytes' = eventBytes
      /\ rec' = [t \in Sessions |-> IF t \in plan THEN None ELSE rec[t]]
      /\ holder' = None /\ previous' = None /\ plan' = {} /\ wanted' = None
      /\ PlanInv' /\ BytesInv' /\ WithinLimit' /\ LedgerAgrees'
      /\ plan \subseteq Stored /\ holder \notin plan /\ \A t \in plan : rec[t].done > 0
  BY <1>1, Evicted
<1>3. Settings \notin Sessions BY SessionsAssumption
<1>4. wanted \in [count : Counts, bytes : Limits] BY <1>1 DEF Inv, LockInv
<1>5. limit' \in Limits /\ maxSessions' \in Counts
  BY <1>1, <1>2, <1>4 DEF ByteLimit
<1>6. TypeOK' BY <1>1, <1>2, <1>5 DEF Inv, TypeOK
<1>7. ConnInv' /\ DoneInv' /\ LiveIsStored' BY <1>1, <1>2, <1>3, OthersSame
<1>8. LockInv' BY <1>2, SessionsAssumption DEF LockInv
<1> QED BY <1>2, <1>6, <1>7, <1>8 DEF Inv, StoreIsSound

LEMMA ClearStep ==
  ASSUME Inv, ClearCompleted
  PROVE  Inv'
<1>1. /\ holder = None
      /\ rec' = [s \in Sessions |-> IF s \in Cleared THEN None ELSE rec[s]]
      /\ recordBytes' = Total(Stored \ Cleared)
      /\ sessionBytes' = IF recordBytes' + eventBytes <= limit THEN recordBytes'
                         ELSE sessionBytes
      /\ UNCHANGED <<maxSessions, holder, previous, plan, wanted, limit, eventBytes>>
      /\ UNCHANGED <<pc, job, seen, completions>>
  BY DEF ClearCompleted, lock, conns
<1>2. None \notin Sessions /\ None # Settings /\ plan = {} /\ sessionBytes = Total(Stored)
  BY <1>1, EmptyPlan, SessionsAssumption
<1>3. Cleared \in SUBSET Stored /\ \A t \in Cleared : rec[t].done > 0 BY DEF Cleared
<1>4. recordBytes' = Sum(rec, Stored \ Cleared) BY <1>1, TotalIsSum
<1>5. Sum(rec, Stored \ Cleared) \in Nat /\ Sum(rec, Stored \ Cleared) <= Sum(rec, Stored)
  <2>1. /\ IsFiniteSet(Stored) /\ Bytes(rec, Stored)
        /\ IsFiniteSet(Stored \ Cleared) /\ Bytes(rec, Stored \ Cleared)
    BY TypedBytes DEF Inv, TypeOK, Stored
  <2>2. Stored \ Cleared \in SUBSET Stored OBVIOUS
  <2> QED BY <2>1, <2>2, SumNat, SumWithout
<1>6. recordBytes' + eventBytes <= limit /\ sessionBytes' = recordBytes'
  <2>1. Sum(rec, Stored) = sessionBytes BY <1>2, TotalIsSum
  <2>2. sessionBytes + eventBytes <= limit BY DEF Inv, StoreIsSound, WithinLimit
  <2>3. sessionBytes \in Nat /\ eventBytes \in Nat /\ limit \in Nat
    BY SessionsAssumption DEF Inv, TypeOK
  <2>4. recordBytes' + eventBytes <= limit BY <1>4, <1>5, <2>1, <2>2, <2>3
  <2> QED BY <1>1, <2>4
<1>7. holder \notin Cleared BY <1>1, <1>2 DEF Cleared, Stored
<1>8. /\ rec' \in [Sessions -> Records \cup {None}] /\ recordBytes' \in Nat
      /\ PlanInv' /\ BytesInv' /\ WithinLimit' /\ LedgerAgrees'
  BY <1>1, <1>2, <1>3, <1>4, <1>6, <1>7, RecordsLeave
<1>9. TypeOK' BY <1>1, <1>6, <1>8 DEF Inv, TypeOK
<1>10. ConnInv' /\ DoneInv' /\ LiveIsStored' BY <1>1, <1>2, <1>3, OthersSame
<1>11. LockInv' BY <1>1, <1>2 DEF LockInv
<1> QED BY <1>8, <1>9, <1>10, <1>11 DEF Inv, StoreIsSound

\* The record it replaced is back, and the ledger never heard of the other.
LEMMA RefusedStep ==
  ASSUME Inv, NEW s \in Sessions, Refused(s)
  PROVE  Inv'
<1>1. /\ holder = s /\ maxSessions' = maxSessions /\ completions' = completions
      /\ rec' = [rec EXCEPT ![s] = previous]
      /\ recordBytes' = recordBytes - BytesOf(rec[s]) + BytesOf(previous)
      /\ holder' = None /\ previous' = None /\ plan' = {} /\ wanted' = None
      /\ pc' = [pc EXCEPT ![s] = IF @ = "finish" THEN "closed"
                                 ELSE IF pc[s] = "begin" THEN "closed" ELSE "failing"]
      /\ job' = [job EXCEPT ![s] = None] /\ seen' = [seen EXCEPT ![s] = None]
      /\ UNCHANGED <<limit, sessionBytes, eventBytes>>
  BY DEF Refused, Return, Release, PutBack, ledger
<1>2. None \notin Sessions /\ None # Settings BY SessionsAssumption
<1>3. /\ pc[s] \in Writing /\ rec[s] \in Records
      /\ previous \in Records \cup {None}
      /\ pc[s] # "begin" => previous \in Records /\ previous # None /\ previous.done = 0
      /\ pc[s] = "begin" => previous = None
  BY <1>1, RecordBytes DEF Inv, LockInv, ConnInv, TypeOK
<1>4. /\ pc'[s] = IF pc[s] = "update" THEN "failing" ELSE "closed"
      /\ rec'[s] = previous
      /\ \A t \in Sessions \ {s} :
           pc'[t] = pc[t] /\ job'[t] = job[t] /\ seen'[t] = seen[t] /\ rec'[t] = rec[t]
  BY <1>1, <1>3 DEF Inv, TypeOK, Writing
<1>5. /\ rec' \in [Sessions -> Records \cup {None}]
      /\ Total(Stored) = Total(Stored \ {s}) + BytesOf(rec[s])
      /\ Total(Stored)' = Total(Stored \ {s}) + BytesOf(previous)
      /\ Total(Stored \ {s}) \in Nat
  BY <1>1, <1>3, TotalOfOther DEF Inv
<1>6. BytesOf(rec[s]) \in Nat /\ BytesOf(previous) \in Nat BY <1>3, RecordBytes
<1>7. recordBytes = Total(Stored) BY DEF Inv, BytesInv
<1>8. recordBytes' = Total(Stored)' /\ recordBytes' \in Nat BY <1>1, <1>5, <1>6, <1>7
<1>9. TypeOK'
  <2>1. pc' \in [Sessions -> Pcs] BY <1>1 DEF Inv, TypeOK, Pcs
  <2>2. /\ job' \in [Sessions -> Records \cup {None}]
        /\ seen' \in [Sessions -> Counts \cup {None}]
    BY <1>1 DEF Inv, TypeOK
  <2> QED BY <1>1, <1>5, <1>8, <2>1, <2>2 DEF Inv, TypeOK
<1>10. ConnInv'
  <2>1. ASSUME NEW t \in Sessions
        PROVE  /\ pc'[t] \in Writing => job'[t] \in Records /\ seen'[t] \in Counts
               /\ pc'[t] \in {"begin", "update"} => job'[t].done = 0
               /\ pc'[t] = "finish" => job'[t].done > 0 /\ ~job'[t].paused
               /\ pc'[t] = "new" \/ (pc'[t] = "begin" /\ holder' # t) => rec'[t] = None
               /\ rec'[t] # None /\ rec'[t].done > 0 =>
                    ~rec'[t].paused /\ (pc'[t] = "closed" \/ pc'[t] = "finish")
    <3>1. CASE t = s BY <1>3, <1>4, <3>1 DEF Writing
    <3>2. CASE t # s BY <1>1, <1>4, <3>2 DEF Inv, ConnInv
    <3> QED BY <3>1, <3>2
  <2> QED BY <2>1 DEF ConnInv
<1>11. LockInv' BY <1>1, <1>2 DEF LockInv
<1>12. DoneInv'
  <2>1. pc'[s] # "finish" /\ (previous # None => previous.done = 0) BY <1>3, <1>4
  <2>2. completions \in Nat BY DEF Inv, TypeOK
  <2>3. ASSUME NEW t \in Sessions
        PROVE  /\ rec'[t] # None => rec'[t].done <= completions
               /\ pc'[t] = "finish" => job'[t].done <= completions /\ job'[t].done > 0
    BY <1>4, <2>1, <2>2 DEF Inv, DoneInv, ConnInv
  <2>4. ASSUME NEW t \in Sessions, NEW u \in Sessions, t # u
        PROVE  /\ rec'[t] # None /\ rec'[u] # None /\ rec'[t].done > 0
                    => rec'[t].done # rec'[u].done
               /\ rec'[t] # None /\ pc'[u] = "finish" => rec'[t].done # job'[u].done
               /\ pc'[t] = "finish" /\ pc'[u] = "finish" => job'[t].done # job'[u].done
    BY <1>4, <2>1, <2>3, <2>4 DEF Inv, DoneInv
  <2> QED BY <1>1, <2>3, <2>4 DEF DoneInv
<1>13. PlanInv' BY <1>1, <1>2 DEF PlanInv
<1>14. BytesInv' BY <1>8 DEF BytesInv
<1>15. WithinLimit' BY <1>1 DEF Inv, StoreIsSound, WithinLimit
<1>16. LedgerAgrees'
  <2>1. Stored' \ {holder'} = Stored' BY <1>1, <1>2 DEF Stored
  <2>2. Total(Stored \ {holder})' = Total(Stored)' BY <2>1, TotalIsSumNext
  <2>3. sessionBytes = Total(Stored \ {s}) + BytesOf(previous)
    BY <1>1 DEF Inv, StoreIsSound, LedgerAgrees
  <2> QED BY <1>1, <1>2, <1>5, <1>6, <2>2, <2>3 DEF LedgerAgrees
<1>17. LiveIsStored'
  <2>1. ASSUME NEW t \in Sessions, pc'[t] \in {"live", "update", "failing", "finish"}
        PROVE  rec'[t] # None /\ rec'[t].done = 0
    <3>1. CASE t = s BY <1>3, <1>4, <2>1, <3>1
    <3>2. CASE t # s
      BY <1>1, <1>4, <2>1, <3>2 DEF Inv, StoreIsSound, LiveIsStored
    <3> QED BY <3>1, <3>2
  <2> QED BY <2>1 DEF LiveIsStored
<1> QED
  BY <1>9, <1>10, <1>11, <1>12, <1>13, <1>14, <1>15, <1>16, <1>17 DEF Inv, StoreIsSound
-------------------------------------------------------------------------------
(***************************************************************************)
(* The specification.                                                      *)
(***************************************************************************)
LEMMA InitHolds ==
  ASSUME Init
  PROVE  Inv
<1>1. /\ rec = [s \in Sessions |-> None] /\ pc = [s \in Sessions |-> "new"]
      /\ holder = None /\ plan = {} /\ recordBytes = 0 /\ sessionBytes = 0 /\ eventBytes = 0
  BY DEF Init
<1>2. None \notin Sessions /\ None # Settings /\ limit \in Limits /\ limit > 0
  BY SessionsAssumption DEF Init
<1>3. TypeOK BY DEF Init, TypeOK, Pcs
<1>4. Stored = {} /\ Stored \ {holder} = {} BY <1>1 DEF Stored
<1>5. Total({}) = 0
  <2>1. IsFiniteSet({}) /\ Bytes(rec, {}) BY FS_EmptySet DEF Bytes
  <2>2. Units(rec, {}) = {} BY DEF Units
  <2>3. Cardinality({}) = 0 BY FS_EmptySet
  <2> QED BY <2>1, <2>2, <2>3, SumIsUnits, TotalIsSum
<1>6. ConnInv BY <1>1 DEF ConnInv, Writing
<1>7. LockInv BY <1>1, <1>2 DEF LockInv
<1>8. DoneInv BY <1>1 DEF DoneInv
<1>9. PlanInv BY <1>1 DEF PlanInv
<1>10. BytesInv BY <1>1, <1>4, <1>5 DEF BytesInv
<1>11. WithinLimit BY <1>1, <1>2, SessionsAssumption DEF WithinLimit
<1>12. LedgerAgrees BY <1>1, <1>2, <1>4, <1>5 DEF LedgerAgrees
<1>13. LiveIsStored BY <1>1 DEF LiveIsStored
<1> QED
  BY <1>3, <1>6, <1>7, <1>8, <1>9, <1>10, <1>11, <1>12, <1>13 DEF Inv, StoreIsSound

LEMMA NextKeeps ==
  ASSUME Inv, [Next]_vars
  PROVE  Inv'
<1>1. ASSUME NEW s \in Sessions, SessionStep(s)
      PROVE  Inv'
  BY <1>1, BeginStep, UpdateStep, FinishStep, AbortStep, InsertStep, UpsertedStep, RefusedStep
     DEF SessionStep
<1>2. CASE SetLimits BY <1>2, SettingsEnter
<1>3. CASE PlanEviction BY <1>3, PlanStep
<1>4. CASE LimitsSet BY <1>4, LimitsSetStep
<1>5. CASE LimitsRefused BY <1>5, SettingsLeave
<1>6. CASE ClearCompleted BY <1>6, ClearStep
<1>7. CASE EventStep BY <1>7, HubStep
<1>8. CASE UNCHANGED vars
  <2>1. /\ UNCHANGED <<maxSessions, rec, recordBytes, holder, previous, plan, wanted>>
        /\ UNCHANGED <<limit, sessionBytes, eventBytes, pc, job, seen, completions>>
    BY <1>8 DEF vars, store, lock, ledger, conns
  <2>2. TypeOK' BY <2>1 DEF Inv, TypeOK
  <2>3. ConnInv' BY <2>1 DEF Inv, ConnInv
  <2>4. LockInv' BY <2>1 DEF Inv, LockInv
  <2>5. DoneInv' BY <2>1 DEF Inv, DoneInv
  <2>6. LiveIsStored' BY <2>1 DEF Inv, StoreIsSound, LiveIsStored
  <2>7. PlanInv' /\ BytesInv' /\ WithinLimit' /\ LedgerAgrees' BY <2>1, StoreSame DEF ledger
  <2> QED BY <2>2, <2>3, <2>4, <2>5, <2>6, <2>7 DEF Inv, StoreIsSound
<1> QED BY <1>1, <1>2, <1>3, <1>4, <1>5, <1>6, <1>7, <1>8 DEF Next

\* The inductive invariant holds of every behaviour of the store, the ledger and the
\* connections that write it: sessions.rs, capacity.rs and the three calls of pipeline.rs.
THEOREM Invariant == Spec => []Inv
<1>1. Init => Inv BY InitHolds
<1>2. Inv /\ [Next]_vars => Inv' BY NextKeeps
<1> QED BY <1>1, <1>2, PTL DEF Spec

\* The ledger (CapacityLedger) accounts for exactly the records of the store and stays
\* within the memory limit, an upsert that is undecided or refused and a limit that is being
\* lowered included; and a connection that is served finds its session, not completed.
THEOREM StoreStaysSound == Spec => []StoreIsSound
<1>1. Inv => StoreIsSound BY DEF Inv
<1> QED BY <1>1, Invariant, PTL
-------------------------------------------------------------------------------
(***************************************************************************)
(* What leaves the store.                                                  *)
(***************************************************************************)
Leaves ==
  \A s \in Sessions : rec[s] # None /\ rec'[s] = None =>
    /\ (rec[s].done > 0 /\ ~rec[s].paused) \/ pc[s] = "begin"
    /\ pc[s] # "begin" =>
         \A t \in Sessions \ {holder} :
           rec'[t] # None => rec'[t].done = 0 \/ rec[s].done < rec'[t].done

LEMMA EvictedLeave ==
  ASSUME Inv, Evict
  PROVE  Leaves
<1>1. \A t \in Sessions : rec'[t] = IF t \in plan THEN None ELSE rec[t] BY DEF Evict
<1>2. ASSUME NEW s \in Sessions, rec[s] # None, rec'[s] = None
      PROVE  /\ rec[s].done > 0 /\ ~rec[s].paused
             /\ \A t \in Sessions \ {holder} :
                  rec'[t] # None => rec'[t].done = 0 \/ rec[s].done < rec'[t].done
  <2>1. s \in plan BY <1>1, <1>2
  <2>2. rec[s].done > 0 /\ ~rec[s].paused BY <1>2, <2>1 DEF Inv, PlanInv, ConnInv
  <2>3. ASSUME NEW t \in Sessions \ {holder}, rec'[t] # None
        PROVE  rec'[t].done = 0 \/ rec[s].done < rec'[t].done
    <3>1. rec'[t] = rec[t] /\ t \notin plan BY <1>1, <2>3
    <3>2. t \in Left \ {holder} BY <2>3, <3>1 DEF Left, Stored
    <3> QED BY <2>1, <3>1, <3>2 DEF Inv, PlanInv
  <2> QED BY <2>2, <2>3
<1> QED BY <1>2 DEF Leaves

LEMMA ClearedLeave ==
  ASSUME Inv, ClearCompleted
  PROVE  Leaves
<1>1. \A t \in Sessions : rec'[t] = IF t \in Cleared THEN None ELSE rec[t]
  BY DEF ClearCompleted
<1>2. ASSUME NEW s \in Sessions, rec[s] # None, rec'[s] = None
      PROVE  /\ rec[s].done > 0 /\ ~rec[s].paused
             /\ \A t \in Sessions : rec'[t] # None => rec'[t].done = 0
  <2>1. s \in Cleared BY <1>1, <1>2
  <2>2. ASSUME NEW t \in Sessions, rec'[t] # None PROVE rec'[t].done = 0
    <3>1. rec'[t] = rec[t] /\ t \in Stored /\ t \notin Cleared
      BY <1>1, <2>2 DEF Stored
    <3>2. ~rec[t].done > 0 BY <3>1 DEF Cleared, Stored, Inv, ConnInv
    <3>3. rec[t].done \in Nat BY <3>1 DEF Stored, Inv, TypeOK, Records
    <3> QED BY <3>1, <3>2, <3>3
  <2> QED BY <2>1, <2>2 DEF Cleared
<1> QED BY <1>2 DEF Leaves

LEMMA RefusedLeave ==
  ASSUME Inv, NEW s \in Sessions, Refused(s)
  PROVE  Leaves
<1>1. holder = s /\ rec' = [rec EXCEPT ![s] = previous] BY DEF Refused, PutBack
<1>2. pc[s] # "begin" => previous # None
  BY <1>1, RecordBytes DEF Inv, LockInv
<1>3. rec'[s] = previous /\ \A t \in Sessions \ {s} : rec'[t] = rec[t]
  BY <1>1 DEF Inv, TypeOK
<1> QED BY <1>2, <1>3 DEF Leaves

\* Every step that takes a record out of the store takes a completed one that no breakpoint
\* holds, and none that is newer than a completed one that stays - or the record of a
\* request that was never admitted (eviction_plan, clear_completed and the refusal in
\* upsert, sessions.rs).
THEOREM OldestLeave == Spec => OldestFinishedLeave
<1>1. ASSUME Inv, [Next]_vars
      PROVE  Leaves
  <2>1. CASE UNCHANGED rec BY <2>1 DEF Leaves
  <2>2. ASSUME NEW s \in Sessions, SessionStep(s) PROVE Leaves
    <3>1. CASE Begin(s) \/ Update(s) \/ Finish(s)
      BY <2>1, <3>1 DEF Begin, Update, Finish, Upsert, store
    <3>2. CASE Abort(s) BY <2>1, <3>2 DEF Abort, store
    <3>3. CASE Insert(s)
      <4>1. job[s] # None BY <1>1, <3>3, RecordBytes DEF Insert, Inv, ConnInv, Writing
      <4>2. \A t \in Sessions : rec'[t] = IF t = s THEN job[s] ELSE rec[t]
        BY <1>1, <3>3 DEF Insert, Inv, TypeOK
      <4> QED BY <4>1, <4>2 DEF Leaves
    <3>4. CASE Upserted(s) BY <1>1, <3>4, EvictedLeave DEF Upserted
    <3>5. CASE Refused(s) BY <1>1, <3>5, RefusedLeave
    <3> QED BY <2>2, <3>1, <3>2, <3>3, <3>4, <3>5 DEF SessionStep
  <2>3. CASE SetLimits \/ PlanEviction \/ LimitsRefused
    BY <2>1, <2>3 DEF SetLimits, PlanEviction, LimitsRefused, store
  <2>4. CASE LimitsSet BY <1>1, <2>4, EvictedLeave DEF LimitsSet
  <2>5. CASE ClearCompleted BY <1>1, <2>5, ClearedLeave
  <2>6. CASE EventStep
    BY <2>1, <2>6 DEF EventStep, ReserveEvents, ReleaseEvents, ReplaceEvents, store
  <2>7. CASE UNCHANGED vars BY <2>1, <2>7 DEF vars, store
  <2> QED BY <1>1, <2>2, <2>3, <2>4, <2>5, <2>6, <2>7 DEF Next
<1>2. Inv /\ [Next]_vars => [Leaves]_vars BY <1>1
<1>3. [Leaves]_vars => [\A s \in Sessions : rec[s] # None /\ rec'[s] = None =>
        /\ (rec[s].done > 0 /\ ~rec[s].paused) \/ pc[s] = "begin"
        /\ pc[s] # "begin" =>
             \A t \in Sessions \ {holder} :
               rec'[t] # None => rec'[t].done = 0 \/ rec[s].done < rec'[t].done]_vars
  BY DEF Leaves
<1> QED BY <1>2, <1>3, Invariant, PTL DEF Spec, OldestFinishedLeave
================================================================================
