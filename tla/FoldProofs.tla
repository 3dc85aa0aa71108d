------------------------------ MODULE FoldProofs ------------------------------
(***************************************************************************)
(* The two components whose operations are folds over sequences: the hub   *)
(* of events (EventHub) and what rules and decisions do to a message       *)
(* (Effects).  They share no state, but the lemmas on what a fold computes.*)
(*                                                                         *)
(* The hub, for any number of subscriptions, any limits of its log,        *)
(* queues, failures and batches and any room: the ledger counts every byte *)
(* once, no subscriber misses an event, and SnapshotRequired is the last   *)
(* word of a subscription.  An operation under the state lock composes a   *)
(* dozen functions of the hub's state, two of them folds over the          *)
(* subscribers.  The proof follows that: what a fold is, what the ledger   *)
(* adds up, then one lemma per function (what it keeps), and at last one   *)
(* per action of the module.                                               *)
(*                                                                         *)
(* The effects, for any rules, bodies, decisions and bounds: what was      *)
(* accepted runs, a decision takes effect and nothing composed is lost.    *)
(* The invariant says of the first `at` faults what they have left in the  *)
(* message, the schedule and the delay; it is kept by one lemma per action.*)
(***************************************************************************)
EXTENDS EventHub, Effects, FiniteSetTheorems, WellFoundedInduction, SequenceTheorems, TLAPS

-------------------------------------------------------------------------------
(***************************************************************************)
(* Folds over finite sets and over sequences.  A fold is a choice among    *)
(* the solutions of a recursive equation; the first part shows that there  *)
(* is one, so that a fold satisfies its equation.                          *)
(***************************************************************************)
\* A set that contains a set whenever it contains what one element less leaves of it.
LEMMA SetInduction ==
  ASSUME NEW S, IsFiniteSet(S), NEW G,
         \A T \in SUBSET S : (\A x \in T : T \ {x} \in G) => T \in G
  PROVE  S \in G
<1> DEFINE Bad == {T \in SUBSET S : T \notin G}
<1>1. ASSUME Bad # {} PROVE FALSE
  <2>1. IsWellFoundedOn(StrictSubsetOrdering(S), SUBSET S)
    BY FS_StrictSubsetOrderingWellFounded, FS_FiniteSubsetsOfFinite
  <2>2. PICK T \in Bad : \A U \in Bad : ~(<<U, T>> \in StrictSubsetOrdering(S))
    BY <1>1, <2>1, WFMin, Zenon
  <2>3. ASSUME NEW x \in T PROVE T \ {x} \in G
    <3>1. <<T \ {x}, T>> \in StrictSubsetOrdering(S) BY DEF StrictSubsetOrdering
    <3> QED BY <2>2, <3>1
  <2> QED BY <2>3
<1> QED BY <1>1

\* f folds step over the subsets of T, in the order in which pick takes their elements.
Solves(f, T, base, step, pick) ==
  \A U \in SUBSET T :
    f[U] = IF U = {} THEN base ELSE step[<<pick[U], f[U \ {pick[U]}]>>]

Picks(pick, S) == \A T \in SUBSET S : T # {} => pick[T] \in T

\* Two solutions agree on the whole set.
LEMMA SolutionsAgree ==
  ASSUME NEW S, IsFiniteSet(S), NEW base, NEW step, NEW pick, Picks(pick, S),
         NEW f, NEW g, Solves(f, S, base, step, pick), Solves(g, S, base, step, pick)
  PROVE  f[S] = g[S]
<1> DEFINE G == {T \in SUBSET S : f[T] = g[T]}
<1>1. ASSUME NEW T \in SUBSET S, \A x \in T : T \ {x} \in G
      PROVE  T \in G
  <2>1. CASE T = {} BY <2>1 DEF Solves
  <2>2. CASE T # {}
    <3>1. f[T \ {pick[T]}] = g[T \ {pick[T]}] BY <1>1, <2>2 DEF Picks
    <3>2. /\ f[T] = step[<<pick[T], f[T \ {pick[T]}]>>]
          /\ g[T] = step[<<pick[T], g[T \ {pick[T]}]>>]
      BY <2>2 DEF Solves
    <3> QED BY <3>1, <3>2
  <2> QED BY <2>1, <2>2
<1> HIDE DEF G
<1>2. S \in G BY <1>1, SetInduction
<1> QED BY <1>2 DEF G

\* The equation of a fold over a finite set has a solution.
LEMMA FoldExists ==
  ASSUME NEW S, IsFiniteSet(S), NEW H, NEW base \in H, NEW step \in [S \X H -> H],
         NEW pick, Picks(pick, S)
  PROVE  \E f \in [SUBSET S -> H] : Solves(f, S, base, step, pick)
<1> DEFINE Good(T, f) == f \in [SUBSET T -> H] /\ Solves(f, T, base, step, pick)
           G == {T \in SUBSET S : \E f : Good(T, f)}
<1>1. ASSUME NEW T \in SUBSET S, \A x \in T : T \ {x} \in G
      PROVE  T \in G
  <2> DEFINE F(x) == CHOOSE f : Good(T \ {x}, f)
             p == pick[T]
             other(U) == CHOOSE x : x \in T \ U
             g == [U \in SUBSET T |->
                     IF U = {} THEN base
                     ELSE IF U = T THEN step[<<p, F(p)[T \ {p}]>>]
                     ELSE F(other(U))[U]]
  <2>1. ASSUME NEW x \in T PROVE Good(T \ {x}, F(x))
    <3>1. \E f : Good(T \ {x}, f) BY <1>1
    <3> QED BY <3>1, Zenon
  <2>2. ASSUME NEW U \in SUBSET T, U # T PROVE other(U) \in T \ U
    <3>1. \E x : x \in T \ U BY <2>2
    <3> QED BY <3>1, Zenon
  <2> HIDE DEF F, other
  <2>3. ASSUME NEW U \in SUBSET T, U # {} PROVE pick[U] \in U
    BY <2>3 DEF Picks
  <2>4. ASSUME NEW x \in T, NEW U \in SUBSET (T \ {x})
        PROVE  /\ F(x)[U] \in H
               /\ Solves(F(x), U, base, step, pick)
    <3>1. F(x) \in [SUBSET (T \ {x}) -> H] /\ Solves(F(x), T \ {x}, base, step, pick)
      BY <2>1
    <3>2. F(x)[U] \in H BY <3>1
    <3>3. \A V \in SUBSET U : V \in SUBSET (T \ {x}) OBVIOUS
    <3>4. Solves(F(x), U, base, step, pick) BY <3>1, <3>3, Zenon DEF Solves
    <3> QED BY <3>2, <3>4
  <2>5. ASSUME NEW x \in T, NEW y \in T, NEW U \in SUBSET (T \ {x}), U \in SUBSET (T \ {y})
        PROVE  F(x)[U] = F(y)[U]
    <3>1. IsFiniteSet(U) BY FS_Subset
    <3>2. Picks(pick, U) BY DEF Picks
    <3>3. Solves(F(x), U, base, step, pick) /\ Solves(F(y), U, base, step, pick)
      BY <2>4, <2>5
    <3> QED BY <3>1, <3>2, <3>3, SolutionsAgree
  <2>6. ASSUME NEW x \in T, NEW U \in SUBSET (T \ {x})
        PROVE  g[U] = F(x)[U]
    <3>1. CASE U = {} BY <2>4, <3>1 DEF Solves
    <3>2. CASE U # {}
      <4>1. U # T OBVIOUS
      <4>2. other(U) \in T \ U BY <2>2, <4>1
      <4>3. U \in SUBSET (T \ {other(U)}) BY <4>2
      <4>4. F(other(U))[U] = F(x)[U] BY <2>5, <4>2, <4>3
      <4> QED BY <3>2, <4>1, <4>4
    <3> QED BY <3>1, <3>2
  <2>7. ASSUME NEW U \in SUBSET T
        PROVE  /\ g[U] \in H
               /\ g[U] = IF U = {} THEN base ELSE step[<<pick[U], g[U \ {pick[U]}]>>]
    <3>1. CASE U = {} BY <3>1
    <3>2. CASE U = T /\ U # {}
      <4>1. p \in T /\ T \ {p} \in SUBSET (T \ {p}) BY <2>3, <3>2
      <4>2. g[T \ {p}] = F(p)[T \ {p}] /\ F(p)[T \ {p}] \in H BY <2>4, <2>6, <4>1
      <4>3. g[T] = step[<<p, F(p)[T \ {p}]>>] BY <3>2
      <4>4. <<p, F(p)[T \ {p}]>> \in S \X H BY <4>1, <4>2
      <4> QED BY <3>2, <4>2, <4>3, <4>4
    <3>3. CASE U # T /\ U # {}
      <4>1. PICK x \in T : x \notin U BY <3>3
      <4>2. U \in SUBSET (T \ {x}) /\ pick[U] \in U BY <2>3, <3>3, <4>1
      <4>3. U \ {pick[U]} \in SUBSET (T \ {x}) BY <4>2
      <4>4. g[U] = F(x)[U] /\ g[U \ {pick[U]}] = F(x)[U \ {pick[U]}] /\ F(x)[U] \in H
        BY <2>4, <2>6, <4>2, <4>3
      <4>5. Solves(F(x), U, base, step, pick) BY <2>4, <4>2
      <4>6. F(x)[U] = step[<<pick[U], F(x)[U \ {pick[U]}]>>] BY <3>3, <4>5 DEF Solves
      <4> QED BY <3>3, <4>4, <4>6
    <3> QED BY <3>1, <3>2, <3>3
  <2>8. g \in [SUBSET T -> H] BY <2>7
  <2> HIDE DEF g
  <2>9. Good(T, g) BY <2>7, <2>8 DEF Solves
  <2> QED BY <2>9
<1> HIDE DEF G
<1>2. S \in G BY <1>1, SetInduction
<1> QED BY <1>2 DEF G
-------------------------------------------------------------------------------
\* The natural numbers up to n, one after the other.
LEMMA Counting ==
  ASSUME NEW n \in Nat, NEW G, 0 \in G, \A i \in 0..(n - 1) : i \in G => i + 1 \in G
  PROVE  \A i \in 0..n : i \in G
<1> DEFINE Bad == {i \in 0..n : i \notin G}
<1>1. ASSUME Bad # {} PROVE FALSE
  <2>1. Bad \subseteq Nat OBVIOUS
  <2> HIDE DEF Bad
  <2>2. PICK i \in Bad : \A j \in Bad : ~(<<j, i>> \in OpToRel(<, Nat))
    BY <1>1, <2>1, NatLessThanWellFounded, WFMin, Zenon
  <2>3. \A j \in Bad : ~(j < i) BY <2>1, <2>2 DEF OpToRel
  <2>4. i # 0 /\ i - 1 \in 0..(n - 1) /\ i - 1 \in G BY <2>3 DEF Bad
  <2> QED BY <2>4 DEF Bad
<1> QED BY <1>1

\* The least of a set of numbers is one of them.
LEMMA MinExists ==
  ASSUME NEW S \in SUBSET Nat, S # {}
  PROVE  Min(S) \in S /\ \A x \in S : Min(S) <= x
<1>1. PICK i \in S : \A j \in S : ~(<<j, i>> \in OpToRel(<, Nat))
  BY NatLessThanWellFounded, WFMin, Zenon
<1>2. \A j \in S : ~(j < i) BY <1>1 DEF OpToRel
<1>3. \A j \in S : i <= j BY <1>2
<1> QED BY <1>3, Zenon DEF Min

\* The greatest of some indices is one of them.
LEMMA MaxExists ==
  ASSUME NEW n \in Nat, NEW S \in SUBSET (1..n), S # {}
  PROVE  Max(S) \in S
<1> DEFINE D == {n - x : x \in S}
<1>1. D \in SUBSET Nat /\ D # {}
  <2>1. \A x \in S : n - x \in Nat OBVIOUS
  <2>2. PICK x \in S : TRUE OBVIOUS
  <2>3. n - x \in D OBVIOUS
  <2> QED BY <2>1, <2>3
<1>2. Min(D) \in D /\ \A d \in D : Min(D) <= d BY <1>1, MinExists
<1>3. PICK x \in S : Min(D) = n - x BY <1>2
<1>4. ASSUME NEW y \in S PROVE x >= y
  <2>1. n - y \in D OBVIOUS
  <2>2. n - x <= n - y BY <1>2, <1>3, <2>1
  <2> QED BY <2>2
<1> QED BY <1>4, Zenon DEF Max

\* The largest number of an interval is its end.
LEMMA MaxOfInterval ==
  ASSUME NEW n \in Nat, n > 0 PROVE Max(1..n) = n
<1>1. n \in 1..n /\ \A y \in 1..n : n >= y OBVIOUS
<1>2. \A x \in 1..n : (\A y \in 1..n : x >= y) => x = n OBVIOUS
<1> QED BY <1>1, <1>2, Zenon DEF Max

\* f folds step over the elements of s, of which a set of indices remains.
SolvesSequence(f, s, base, step) ==
  \A T \in SUBSET DOMAIN s :
    f[T] = IF T = {} THEN base ELSE step[<<s[Max(T)], f[T \ {Max(T)}]>>]

\* The equation of FoldLeft has a solution.
LEMMA FoldOfSequence ==
  ASSUME NEW A, NEW H, NEW s \in Seq(A), NEW base \in H, NEW step \in [A \X H -> H]
  PROVE  \E f \in [SUBSET DOMAIN s -> H] : SolvesSequence(f, s, base, step)
<1> DEFINE D == DOMAIN s
           pick == [T \in SUBSET D |-> Max(T)]
           onto == [p \in D \X H |-> step[<<s[p[1]], p[2]>>]]
<1>1. D = 1..Len(s) /\ Len(s) \in Nat OBVIOUS
<1>2. IsFiniteSet(D) BY <1>1, FS_Interval
<1>3. Picks(pick, D) BY <1>1, MaxExists DEF Picks
<1>4. onto \in [D \X H -> H]
  <2>1. ASSUME NEW p \in D \X H PROVE step[<<s[p[1]], p[2]>>] \in H
    <3>1. <<s[p[1]], p[2]>> \in A \X H BY <1>1
    <3> QED BY <3>1
  <2> QED BY <2>1
<1> HIDE DEF pick, onto, D
<1>5. PICK f \in [SUBSET D -> H] : Solves(f, D, base, onto, pick)
  BY <1>2, <1>3, <1>4, FoldExists, Zenon
<1>6. ASSUME NEW T \in SUBSET D
      PROVE  f[T] = IF T = {} THEN base ELSE step[<<s[Max(T)], f[T \ {Max(T)}]>>]
  <2>1. CASE T = {} BY <1>5, <2>1 DEF Solves
  <2>2. CASE T # {}
    <3>1. pick[T] = Max(T) /\ pick[T] \in T BY <1>3, <2>2 DEF Picks, pick
    <3>2. T \ {Max(T)} \in SUBSET D OBVIOUS
    <3>3. f[T \ {Max(T)}] \in H BY <1>5, <3>2
    <3>4. <<Max(T), f[T \ {Max(T)}]>> \in D \X H BY <3>1, <3>3
    <3>5. f[T] = onto[<<Max(T), f[T \ {Max(T)}]>>] BY <1>5, <2>2, <3>1 DEF Solves
    <3> QED BY <2>2, <3>4, <3>5 DEF onto
  <2> QED BY <2>1, <2>2
<1>7. SolvesSequence(f, s, base, step) BY <1>6 DEF SolvesSequence, D
<1> QED BY <1>5, <1>7 DEF D
-------------------------------------------------------------------------------
(***************************************************************************)
(* The sum of a function over a finite set.                                *)
(***************************************************************************)
AnyOf(T) == CHOOSE x \in T : TRUE

\* C sums f over every subset of S.
Totals(C, f, S) ==
  \A T \in SUBSET S : C[T] = IF T = {} THEN 0 ELSE f[AnyOf(T)] + C[T \ {AnyOf(T)}]

\* SumFunction is the value of such a function at the whole set.
LEMMA SumTotals ==
  ASSUME NEW S, IsFiniteSet(S), NEW f \in [S -> Nat]
  PROVE  \E C : /\ Totals(C, f, S) /\ SumFunction(f) = C[S]
                /\ \A T \in SUBSET S : C[T] \in Nat
<1> DEFINE pick == [T \in SUBSET S |-> AnyOf(T)]
           step == [p \in S \X Nat |-> f[p[1]] + p[2]]
           Solution(g) == g = [T \in SUBSET S |->
                                 IF T = {} THEN 0 ELSE f[AnyOf(T)] + g[T \ {AnyOf(T)}]]
           C == CHOOSE g : Solution(g)
<1>0. \A T \in SUBSET S : T # {} => AnyOf(T) \in T BY DEF AnyOf
<1>1. Picks(pick, S) BY <1>0 DEF Picks
<1>2. step \in [S \X Nat -> Nat] OBVIOUS
<1>3. PICK g \in [SUBSET S -> Nat] : Solves(g, S, 0, step, pick)
  <2> HIDE DEF pick, step
  <2>1. 0 \in Nat OBVIOUS
  <2> QED BY <1>1, <1>2, <2>1, FoldExists, Zenon
<1>4. ASSUME NEW T \in SUBSET S
      PROVE  g[T] = IF T = {} THEN 0 ELSE f[AnyOf(T)] + g[T \ {AnyOf(T)}]
  <2>1. CASE T = {} BY <1>3, <2>1 DEF Solves
  <2>2. CASE T # {}
    <3>1. pick[T] = AnyOf(T) /\ AnyOf(T) \in S /\ g[T \ {AnyOf(T)}] \in Nat BY <1>0, <1>3, <2>2
    <3>2. <<AnyOf(T), g[T \ {AnyOf(T)}]>> \in S \X Nat BY <3>1
    <3>3. step[<<AnyOf(T), g[T \ {AnyOf(T)}]>>] = f[AnyOf(T)] + g[T \ {AnyOf(T)}] BY <3>2
    <3> HIDE DEF step, pick
    <3>4. g[T] = step[<<AnyOf(T), g[T \ {AnyOf(T)}]>>] BY <1>3, <2>2, <3>1 DEF Solves
    <3> QED BY <2>2, <3>3, <3>4
  <2> QED BY <2>1, <2>2
<1>5. Solution(g)
  <2>1. g = [T \in SUBSET S |-> g[T]] BY <1>3
  <2> HIDE DEF step
  <2> QED BY ONLY <1>4, <2>1
<1>6. Solution(C) BY <1>5, Zenon
<1>7. SumFunction(f) = C[DOMAIN f]
  <2>1. DOMAIN f = S OBVIOUS
  <2>2. SumFunction(f) = LET it == CHOOSE g_1 : g_1 = [T \in SUBSET DOMAIN f |->
                                 IF T = {} THEN 0 ELSE f[AnyOf(T)] + g_1[T \ {AnyOf(T)}]]
                         IN  it[DOMAIN f]
    BY Zenon DEF SumFunction, SumFunctionOnSet, FoldFunctionOnSet, MapThenFoldSet, AnyOf
  <2> QED BY ONLY <2>1, <2>2, Zenon DEF C, Solution
<1>8. Totals(C, f, S) BY <1>6, Zenon DEF Totals
<1> HIDE DEF C
<1> DEFINE G == {T \in SUBSET S : C[T] \in Nat}
<1>9. ASSUME NEW U \in SUBSET S
      PROVE  U \in G
  <2>1. IsFiniteSet(U) BY FS_Subset
  <2>2. ASSUME NEW T \in SUBSET U, \A x \in T : T \ {x} \in G PROVE T \in G
    <3>1. CASE T = {}
      <4>1. T \in SUBSET S BY <2>2
      <4>2. C[T] = 0 BY <1>8, <3>1, <4>1 DEF Totals
      <4> QED BY <4>1, <4>2
    <3>2. CASE T # {}
      <4>1. AnyOf(T) \in T BY <1>0, <3>2
      <4>2. C[T \ {AnyOf(T)}] \in Nat BY <2>2, <4>1
      <4>3. T \in SUBSET S /\ C[T] = f[AnyOf(T)] + C[T \ {AnyOf(T)}] BY <1>8, <3>2 DEF Totals
      <4>4. f[AnyOf(T)] \in Nat BY <4>1
      <4> QED BY <4>2, <4>3, <4>4
    <3> QED BY <3>1, <3>2
  <2> HIDE DEF G
  <2> QED BY <2>1, <2>2, SetInduction
<1>10. DOMAIN f = S OBVIOUS
<1> QED BY <1>7, <1>8, <1>9, <1>10

\* A sum of sizes is a size.
LEMMA SumNat ==
  ASSUME NEW S, IsFiniteSet(S), NEW f \in [S -> Nat] PROVE SumFunction(f) \in Nat
BY SumTotals

\* A term is at most the sum; with another value for it the sum differs by as much.
LEMMA SumWithout ==
  ASSUME NEW S, IsFiniteSet(S), NEW f \in [S -> Nat], NEW g \in [S -> Nat], NEW s \in S,
         \A t \in S \ {s} : g[t] = f[t]
  PROVE  /\ f[s] <= SumFunction(f)
         /\ SumFunction(g) = SumFunction(f) - f[s] + g[s]
<1>1. PICK C : Totals(C, f, S) /\ SumFunction(f) = C[S] /\ \A T \in SUBSET S : C[T] \in Nat
  BY SumTotals
<1>2. PICK D : Totals(D, g, S) /\ SumFunction(g) = D[S] /\ \A T \in SUBSET S : D[T] \in Nat
  BY SumTotals
<1> DEFINE G == {T \in SUBSET S : /\ s \notin T => D[T] = C[T]
                                  /\ s \in T => f[s] <= C[T] /\ D[T] = C[T] - f[s] + g[s]}
<1>3. ASSUME NEW T \in SUBSET S, \A x \in T : T \ {x} \in G PROVE T \in G
  <2>1. CASE T = {} BY <1>1, <1>2, <2>1 DEF Totals
  <2>2. CASE T # {}
    <3> DEFINE x == AnyOf(T)
               R == T \ {x}
    <3>1. x \in T BY <2>2 DEF AnyOf
    <3>2. C[T] = f[x] + C[R] /\ D[T] = g[x] + D[R] BY <1>1, <1>2, <2>2 DEF Totals
    <3>3. R \in G BY <1>3, <3>1
    <3>4. /\ C[R] \in Nat /\ D[R] \in Nat /\ f[x] \in Nat /\ g[x] \in Nat
          /\ f[s] \in Nat /\ g[s] \in Nat
      BY <1>1, <1>2, <3>1
    <3>5. s \in R <=> s \in T /\ s # x OBVIOUS
    <3>6. x # s => g[x] = f[x] BY <3>1
    <3> HIDE DEF x, R
    <3>7. /\ s \notin R => D[R] = C[R]
          /\ s \in R => f[s] <= C[R] /\ D[R] = C[R] - f[s] + g[s]
      BY <3>3
    <3>8. CASE s = x BY <3>1, <3>2, <3>4, <3>5, <3>7, <3>8
    <3>9. CASE s # x BY <3>1, <3>2, <3>4, <3>5, <3>6, <3>7, <3>9
    <3> QED BY <3>8, <3>9
  <2> QED BY <2>1, <2>2
<1> HIDE DEF G
<1>4. S \in G BY <1>3, SetInduction
<1> QED BY <1>1, <1>2, <1>4 DEF G

\* Where every term is zero, so is the sum.
LEMMA SumOfZeros ==
  ASSUME NEW S, IsFiniteSet(S), NEW f \in [S -> Nat], \A s \in S : f[s] = 0
  PROVE  SumFunction(f) = 0
<1>1. PICK C : Totals(C, f, S) /\ SumFunction(f) = C[S] /\ \A T \in SUBSET S : C[T] \in Nat
  BY SumTotals
<1> DEFINE G == {T \in SUBSET S : C[T] = 0}
<1>2. ASSUME NEW T \in SUBSET S, \A x \in T : T \ {x} \in G PROVE T \in G
  <2>1. CASE T = {} BY <1>1, <2>1 DEF Totals
  <2>2. CASE T # {}
    <3>1. AnyOf(T) \in T BY <2>2 DEF AnyOf
    <3>2. C[T] = f[AnyOf(T)] + C[T \ {AnyOf(T)}] BY <1>1, <2>2 DEF Totals
    <3>3. C[T \ {AnyOf(T)}] = 0 /\ f[AnyOf(T)] = 0 BY <1>2, <3>1
    <3> QED BY <3>2, <3>3
  <2> QED BY <2>1, <2>2
<1> HIDE DEF G
<1>3. S \in G BY <1>2, SetInduction
<1> QED BY <1>1, <1>3 DEF G

-------------------------------------------------------------------------------
(***************************************************************************)
(* The bytes of a sequence of events.                                      *)
(***************************************************************************)
\* P adds up the bytes of s, event by event.
Adds(P, s) ==
  P[0] = 0 /\ \A i \in 1..Len(s) : P[i] = P[i - 1] + s[i].bytes

\* The events of a batch are events.
LEMMA EventsOf ==
  ASSUME NEW s \in Seq(Events), NEW i \in 1..Len(s)
  PROVE  s[i] \in Events /\ s[i].bytes \in Nat /\ s[i].id \in Nat
<1>1. s[i] \in Events OBVIOUS
<1> QED BY <1>1 DEF Events

\* Two sequences of partial sums of the same bytes agree.
LEMMA AddsAgree ==
  ASSUME NEW s \in Seq(Events), NEW P, NEW Q, Adds(P, s), Adds(Q, s)
  PROVE  P[Len(s)] = Q[Len(s)]
<1> DEFINE G == {i \in 0..Len(s) : P[i] = Q[i]}
<1>1. Len(s) \in Nat OBVIOUS
<1>2. 0 \in G BY <1>1 DEF Adds
<1>3. ASSUME NEW i \in 0..(Len(s) - 1), i \in G PROVE i + 1 \in G
  <2>1. i + 1 \in 1..Len(s) /\ (i + 1) - 1 = i BY <1>1
  <2>2. P[i + 1] = P[i] + s[i + 1].bytes /\ Q[i + 1] = Q[i] + s[i + 1].bytes BY <2>1 DEF Adds
  <2> QED BY <1>3, <2>1, <2>2
<1> HIDE DEF G
<1>4. \A i \in 0..(Len(s) - 1) : i \in G => i + 1 \in G BY <1>3
<1>5. \A i \in 0..Len(s) : i \in G BY <1>1, <1>2, <1>4, Counting, Zenon
<1> QED BY <1>1, <1>5 DEF G

\* The fold adds up the bytes.
LEMMA SumBytesAdds ==
  ASSUME NEW s \in Seq(Events)
  PROVE  \E P \in [0..Len(s) -> Nat] : Adds(P, s) /\ SumBytes(s) = P[Len(s)]
<1> DEFINE step == [p \in Events \X Nat |-> p[2] + p[1].bytes]
           Solution(f) == f = [T \in SUBSET DOMAIN s |->
                                 IF T = {} THEN 0 ELSE f[T \ {Max(T)}] + s[Max(T)].bytes]
           C == CHOOSE f : Solution(f)
<1>1. step \in [Events \X Nat -> Nat] BY DEF Events
<1>2. PICK f \in [SUBSET DOMAIN s -> Nat] : SolvesSequence(f, s, 0, step)
  <2> HIDE DEF step
  <2>1. 0 \in Nat OBVIOUS
  <2> QED BY <1>1, <2>1, FoldOfSequence, Zenon
<1>3. ASSUME NEW T \in SUBSET DOMAIN s
      PROVE  f[T] = IF T = {} THEN 0 ELSE f[T \ {Max(T)}] + s[Max(T)].bytes
  <2>1. f[T] = IF T = {} THEN 0 ELSE step[<<s[Max(T)], f[T \ {Max(T)}]>>]
    BY <1>2, Zenon DEF SolvesSequence
  <2>2. CASE T # {}
    <3>1. DOMAIN s = 1..Len(s) /\ Len(s) \in Nat OBVIOUS
    <3>2. Max(T) \in T BY <2>2, <3>1, MaxExists
    <3>3. s[Max(T)] \in Events BY <3>1, <3>2
    <3>4. f[T \ {Max(T)}] \in Nat BY <1>2
    <3>5. step[<<s[Max(T)], f[T \ {Max(T)}]>>] = f[T \ {Max(T)}] + s[Max(T)].bytes
      BY <3>3, <3>4
    <3> QED BY ONLY <2>1, <2>2, <3>5
  <2>3. CASE T = {} BY ONLY <2>1, <2>3
  <2> QED BY ONLY <2>1, <2>2, <2>3
<1>4. f = [T \in SUBSET DOMAIN s |-> IF T = {} THEN 0 ELSE f[T \ {Max(T)}] + s[Max(T)].bytes]
  <2>1. f = [T \in SUBSET DOMAIN s |-> f[T]] BY <1>2
  <2> HIDE DEF step
  <2> QED BY ONLY <1>3, <2>1
<1>5. Solution(f) BY <1>4
<1>6. Solution(C) BY <1>5, Zenon
<1>7. SumBytes(s) = C[DOMAIN s] BY Zenon DEF SumBytes, FoldLeft, MapThenFoldSet
<1>8. DOMAIN s = 1..Len(s) /\ Len(s) \in Nat OBVIOUS
<1>9. \A T \in SUBSET DOMAIN s : C[T] = IF T = {} THEN 0 ELSE C[T \ {Max(T)}] + s[Max(T)].bytes
  BY <1>6, Zenon
<1> HIDE DEF C, Solution, step
<1>10. C[1..0] = 0
  <2>1. 1..0 = {} OBVIOUS
  <2> QED BY <1>9, <2>1
<1>11. ASSUME NEW i \in 1..Len(s) PROVE C[1..i] = C[1..(i - 1)] + s[i].bytes
  <2>0. i \in 1..Len(s) OBVIOUS
  <2>1. (1..i) \in SUBSET DOMAIN s /\ (1..i) # {}
    <3>1. i \in 1..i /\ \A j \in 1..i : j \in 1..Len(s) BY ONLY <1>8, <2>0
    <3> QED BY ONLY <1>8, <3>1, ZenonT(40)
  <2>2. Max(1..i) = i BY MaxOfInterval
  <2>3. (1..i) \ {i} = 1..(i - 1) OBVIOUS
  <2>4. C[1..i] = C[(1..i) \ {Max(1..i)}] + s[Max(1..i)].bytes BY ONLY <1>9, <2>1, Zenon
  <2> QED BY ONLY <2>2, <2>3, <2>4
<1> DEFINE P == [i \in 0..Len(s) |-> C[1..i]]
           G == {i \in 0..Len(s) : C[1..i] \in Nat}
<1>12. ASSUME NEW i \in 0..(Len(s) - 1), i \in G PROVE i + 1 \in G
  <2>1. i + 1 \in 1..Len(s) /\ (i + 1) - 1 = i BY <1>8
  <2>2. s[i + 1].bytes \in Nat BY <2>1, EventsOf
  <2> QED BY <1>11, <1>12, <2>1, <2>2
<1>13. \A i \in 0..Len(s) : i \in G
  <2>1. 0 \in G BY <1>8, <1>10
  <2>2. \A i \in 0..(Len(s) - 1) : i \in G => i + 1 \in G BY <1>12
  <2> HIDE DEF G
  <2> QED BY <1>8, <2>1, <2>2, Counting, Zenon
<1>14. P \in [0..Len(s) -> Nat] BY <1>13
<1>15. Adds(P, s) BY <1>8, <1>10, <1>11 DEF Adds
<1>16. SumBytes(s) = P[Len(s)] BY <1>7, <1>8
<1> QED BY <1>14, <1>15, <1>16

\* Whatever adds up the bytes of s ends with their sum.
LEMMA SumBytesIs ==
  ASSUME NEW s \in Seq(Events), NEW P, Adds(P, s)
  PROVE  SumBytes(s) = P[Len(s)]
BY SumBytesAdds, AddsAgree

\* The bytes of a queue are a number.
LEMMA SumBytesNat == ASSUME NEW s \in Seq(Events) PROVE SumBytes(s) \in Nat
<1>1. Len(s) \in 0..Len(s) OBVIOUS
<1> QED BY <1>1, SumBytesAdds

\* An empty queue has no bytes.
LEMMA SumBytesEmpty == SumBytes(<<>>) = 0
<1>1. <<>> \in Seq(Events) /\ Len(<<>>) = 0 OBVIOUS
<1>2. PICK P \in [0..Len(<<>>) -> Nat] : Adds(P, <<>>) /\ SumBytes(<<>>) = P[Len(<<>>)]
  BY <1>1, SumBytesAdds
<1> QED BY <1>1, <1>2 DEF Adds

\* What is appended adds its bytes.
LEMMA SumBytesAppend ==
  ASSUME NEW s \in Seq(Events), NEW e \in Events
  PROVE  SumBytes(Append(s, e)) = SumBytes(s) + e.bytes
<1>1. PICK P \in [0..Len(s) -> Nat] : Adds(P, s) /\ SumBytes(s) = P[Len(s)] BY SumBytesAdds
<1> DEFINE n == Len(s) + 1
           Q == [i \in 0..n |-> IF i = n THEN P[Len(s)] + e.bytes ELSE P[i]]
<1>2. Append(s, e) \in Seq(Events) /\ Len(Append(s, e)) = n /\ n \in Nat /\ Len(s) \in Nat OBVIOUS
<1>3. \A i \in 1..n : Append(s, e)[i] = IF i = n THEN e ELSE s[i] OBVIOUS
<1>4. ASSUME NEW i \in 1..n PROVE Q[i] = Q[i - 1] + Append(s, e)[i].bytes
  <2>1. CASE i = n BY <1>2, <1>3, <2>1
  <2>2. CASE i # n
    <3>1. i \in 1..Len(s) /\ i - 1 \in 0..n /\ i - 1 # n /\ i \in 0..n BY <1>2, <2>2
    <3>2. P[i] = P[i - 1] + s[i].bytes BY <1>1, <3>1 DEF Adds
    <3> QED BY <1>3, <2>2, <3>1, <3>2
  <2> QED BY <2>1, <2>2
<1>5. Adds(Q, Append(s, e)) BY <1>1, <1>2, <1>4 DEF Adds
<1> HIDE DEF Q
<1>6. SumBytes(Append(s, e)) = Q[n] BY <1>2, <1>5, SumBytesIs
<1> QED BY <1>1, <1>2, <1>6 DEF Q

\* What is kept of a sequence and what is dropped of it add up to it.
LEMMA SumBytesSplit ==
  ASSUME NEW s \in Seq(Events), NEW k \in 0..Len(s)
  PROVE  /\ SubSeq(s, 1, k) \in Seq(Events)
         /\ SubSeq(s, k + 1, Len(s)) \in Seq(Events)
         /\ SumBytes(SubSeq(s, 1, k)) + SumBytes(SubSeq(s, k + 1, Len(s))) = SumBytes(s)
<1> DEFINE a == SubSeq(s, 1, k)
           b == SubSeq(s, k + 1, Len(s))
<1>1. PICK P \in [0..Len(s) -> Nat] : Adds(P, s) /\ SumBytes(s) = P[Len(s)] BY SumBytesAdds
<1>2. Len(s) \in Nat /\ k \in Nat OBVIOUS
<1>3. /\ a \in Seq(Events) /\ Len(a) = k /\ \A i \in 1..k : a[i] = s[i]
  <2>1. \A i \in 1..k : s[i] \in Events BY <1>2
  <2> QED BY <1>2, <2>1
<1>4. /\ b \in Seq(Events) /\ Len(b) = Len(s) - k
      /\ \A i \in 1..(Len(s) - k) : b[i] = s[k + i]
  <2>1. \A i \in (k + 1)..Len(s) : s[i] \in Events BY <1>2
  <2> QED BY <1>2, <2>1
<1> HIDE DEF a, b
<1> DEFINE Q == [i \in 0..(Len(s) - k) |-> P[k + i] - P[k]]
<1>5. Adds(P, a)
  <2>1. ASSUME NEW i \in 1..k PROVE P[i] = P[i - 1] + s[i].bytes
    <3>1. i \in 1..Len(s) BY <1>2
    <3> QED BY <1>1, <3>1 DEF Adds
  <2> QED BY <1>1, <1>3, <2>1 DEF Adds
<1>6. Adds(Q, b)
  <2>1. ASSUME NEW i \in 1..(Len(s) - k) PROVE Q[i] = Q[i - 1] + s[k + i].bytes
    <3>1. /\ k + i \in 1..Len(s) /\ (k + i) - 1 = k + (i - 1)
          /\ i - 1 \in 0..(Len(s) - k) /\ i \in 0..(Len(s) - k)
      BY <1>2
    <3>2. P[k + i] = P[k + (i - 1)] + s[k + i].bytes BY <1>1, <3>1 DEF Adds
    <3>3. P[k + i] \in Nat /\ P[k + (i - 1)] \in Nat /\ P[k] \in Nat BY <1>1, <1>2, <3>1
    <3>4. s[k + i].bytes \in Nat BY <3>1, EventsOf
    <3>5. Q[i] = P[k + i] - P[k] /\ Q[i - 1] = P[k + (i - 1)] - P[k] BY <3>1
    <3> DEFINE x == P[k + i]
               y == P[k + (i - 1)]
               z == P[k]
    <3>6. /\ Q[i] = x - z /\ Q[i - 1] = y - z /\ x = y + s[k + i].bytes
          /\ x \in Nat /\ y \in Nat /\ z \in Nat
      BY <3>2, <3>3, <3>5
    <3> HIDE DEF x, y, z, Q
    <3> QED BY SMTT(40), <3>4, <3>6
  <2>2. Q[0] = 0
    <3>1. P[k] \in Nat /\ 0 \in 0..(Len(s) - k) BY <1>1, <1>2
    <3> QED BY <3>1
  <2> QED BY <1>4, <2>1, <2>2 DEF Adds
<1>7. SumBytes(a) = P[k] BY <1>3, <1>5, SumBytesIs
<1>8. SumBytes(b) = Q[Len(s) - k]
  <2> HIDE DEF Q
  <2> QED BY <1>4, <1>6, SumBytesIs
<1>9. Q[Len(s) - k] = P[Len(s)] - P[k] BY <1>2
<1>10. P[k] \in Nat /\ P[Len(s)] \in Nat BY <1>1, <1>2
<1>11. SumBytes(a) + SumBytes(b) = SumBytes(s) BY <1>1, <1>7, <1>8, <1>9, <1>10
<1> QED BY <1>3, <1>4, <1>11 DEF a, b

\* What is taken from the front takes its bytes along.
LEMMA SumBytesHead ==
  ASSUME NEW s \in Seq(Events), s # <<>>
  PROVE  /\ Head(s) \in Events /\ Tail(s) \in Seq(Events)
         /\ SumBytes(s) = Head(s).bytes + SumBytes(Tail(s))
<1>1. Len(s) \in Nat /\ 1 \in 1..Len(s) /\ Tail(s) = SubSeq(s, 1 + 1, Len(s)) OBVIOUS
<1>2. /\ SumBytes(SubSeq(s, 1, 1)) + SumBytes(Tail(s)) = SumBytes(s)
      /\ SubSeq(s, 1, 1) \in Seq(Events)
  <2>1. 1 \in 0..Len(s) BY <1>1
  <2> QED BY <1>1, <2>1, SumBytesSplit
<1>3. SubSeq(s, 1, 1) = Append(<<>>, Head(s)) /\ Head(s) \in Events
  <2>1. Head(s) = s[1] /\ s[1] \in Events BY <1>1, EventsOf
  <2>2. Len(SubSeq(s, 1, 1)) = 1 /\ SubSeq(s, 1, 1)[1] = s[1] BY <1>1
  <2>3. Append(<<>>, s[1]) = <<s[1]>> OBVIOUS
  <2>4. SubSeq(s, 1, 1) = <<s[1]>>
    <3>1. <<s[1]>> \in Seq(Events) /\ Len(<<s[1]>>) = 1 /\ <<s[1]>>[1] = s[1] BY <2>1
    <3>2. \A i \in 1..Len(SubSeq(s, 1, 1)) : SubSeq(s, 1, 1)[i] = <<s[1]>>[i] BY <2>2, <3>1
    <3> QED BY ONLY <1>2, <2>2, <3>1, <3>2, SeqEqual
  <2> QED BY <2>1, <2>3, <2>4
<1>4. <<>> \in Seq(Events) OBVIOUS
<1>5. SumBytes(SubSeq(s, 1, 1)) = 0 + Head(s).bytes
  BY <1>3, <1>4, SumBytesAppend, SumBytesEmpty
<1>6. Head(s).bytes \in Nat BY <1>3 DEF Events
<1>7. Tail(s) \in Seq(Events) OBVIOUS
<1>8. SumBytes(Tail(s)) \in Nat BY <1>7, SumBytesNat
<1> QED BY <1>2, <1>3, <1>5, <1>6, <1>7, <1>8

\* The bytes of one event.
LEMMA SumBytesOne ==
  ASSUME NEW e \in Events PROVE SumBytes(<<e>>) = e.bytes
<1>1. <<>> \in Seq(Events) /\ Append(<<>>, e) = <<e>> OBVIOUS
<1>2. SumBytes(<<e>>) = 0 + e.bytes BY <1>1, SumBytesAppend, SumBytesEmpty
<1> QED BY <1>2 DEF Events
-------------------------------------------------------------------------------
(***************************************************************************)
(* What is taken out of a sequence.                                        *)
(***************************************************************************)
\* C[i] is what is left of the first i elements of s.
Leaves(C, s, kept) ==
  C[0] = <<>> /\ \A i \in 1..Len(s) : C[i] = IF s[i] \in kept THEN Append(C[i - 1], s[i]) ELSE C[i - 1]

\* The fold leaves exactly that.
LEMMA AmongLeaves ==
  ASSUME NEW A, NEW s \in Seq(A), NEW kept
  PROVE  \E C : Leaves(C, s, kept) /\ Among(s, kept) = C[Len(s)]
<1> DEFINE step == [p \in A \X Seq(A) |-> IF p[1] \in kept THEN Append(p[2], p[1]) ELSE p[2]]
           Solution(f) == f = [T \in SUBSET DOMAIN s |->
                                 IF T = {} THEN <<>>
                                 ELSE IF s[Max(T)] \in kept THEN Append(f[T \ {Max(T)}], s[Max(T)])
                                 ELSE f[T \ {Max(T)}]]
           D == CHOOSE f : Solution(f)
<1>1. step \in [A \X Seq(A) -> Seq(A)]
  <2>1. ASSUME NEW p \in A \X Seq(A)
        PROVE  (IF p[1] \in kept THEN Append(p[2], p[1]) ELSE p[2]) \in Seq(A)
    <3>1. p[1] \in A /\ p[2] \in Seq(A) OBVIOUS
    <3>2. Append(p[2], p[1]) \in Seq(A) BY <3>1, AppendProperties
    <3> QED BY <3>1, <3>2
  <2> QED BY <2>1
<1>2. PICK f \in [SUBSET DOMAIN s -> Seq(A)] : SolvesSequence(f, s, <<>>, step)
  <2> HIDE DEF step
  <2>1. <<>> \in Seq(A) OBVIOUS
  <2> QED BY <1>1, <2>1, FoldOfSequence, Zenon
<1>3. ASSUME NEW T \in SUBSET DOMAIN s
      PROVE  f[T] = IF T = {} THEN <<>>
                    ELSE IF s[Max(T)] \in kept THEN Append(f[T \ {Max(T)}], s[Max(T)])
                    ELSE f[T \ {Max(T)}]
  <2>1. f[T] = IF T = {} THEN <<>> ELSE step[<<s[Max(T)], f[T \ {Max(T)}]>>]
    BY <1>2, Zenon DEF SolvesSequence
  <2>2. CASE T # {}
    <3>1. DOMAIN s = 1..Len(s) /\ Len(s) \in Nat OBVIOUS
    <3>2. Max(T) \in T BY <2>2, <3>1, MaxExists
    <3>3. s[Max(T)] \in A BY <3>1, <3>2
    <3>4. f[T \ {Max(T)}] \in Seq(A) BY <1>2
    <3>5. <<s[Max(T)], f[T \ {Max(T)}]>> \in A \X Seq(A) BY <3>3, <3>4
    <3>6. step[<<s[Max(T)], f[T \ {Max(T)}]>>]
             = IF s[Max(T)] \in kept THEN Append(f[T \ {Max(T)}], s[Max(T)])
               ELSE f[T \ {Max(T)}]
      BY <3>5
    <3> HIDE DEF step
    <3> QED BY ONLY <2>1, <2>2, <3>6
  <2>3. CASE T = {} BY ONLY <2>1, <2>3
  <2> QED BY ONLY <2>2, <2>3
<1>4. Solution(f)
  <2>1. f = [T \in SUBSET DOMAIN s |-> f[T]] BY <1>2
  <2> HIDE DEF step
  <2> QED BY ONLY <1>3, <2>1
<1>5. Solution(D) BY <1>4, Zenon
<1>6. Among(s, kept) = D[DOMAIN s] BY Zenon DEF Among, FoldLeft, MapThenFoldSet
<1>7. DOMAIN s = 1..Len(s) /\ Len(s) \in Nat OBVIOUS
<1>8. \A T \in SUBSET DOMAIN s :
        D[T] = IF T = {} THEN <<>>
               ELSE IF s[Max(T)] \in kept THEN Append(D[T \ {Max(T)}], s[Max(T)])
               ELSE D[T \ {Max(T)}]
  BY <1>5, Zenon
<1> HIDE DEF D, Solution, step
<1>9. D[1..0] = <<>>
  <2>1. 1..0 = {} OBVIOUS
  <2> QED BY <1>8, <2>1
<1>10. ASSUME NEW i \in 1..Len(s)
       PROVE  D[1..i] = IF s[i] \in kept THEN Append(D[1..(i - 1)], s[i]) ELSE D[1..(i - 1)]
  <2>1. (1..i) \in SUBSET DOMAIN s /\ (1..i) # {} BY <1>7
  <2>2. Max(1..i) = i BY MaxOfInterval
  <2>3. (1..i) \ {i} = 1..(i - 1) OBVIOUS
  <2>4. D[1..i] = IF s[Max(1..i)] \in kept THEN Append(D[(1..i) \ {Max(1..i)}], s[Max(1..i)])
                  ELSE D[(1..i) \ {Max(1..i)}]
    BY ONLY <1>8, <2>1, Zenon
  <2> QED BY ONLY <2>2, <2>3, <2>4
<1> DEFINE C == [i \in 0..Len(s) |-> D[1..i]]
<1>11. Leaves(C, s, kept) BY <1>7, <1>9, <1>10 DEF Leaves
<1>12. Among(s, kept) = C[Len(s)] BY <1>6, <1>7
<1> QED BY <1>11, <1>12

\* What is left was in the sequence, and is kept.
LEMMA AmongKept ==
  ASSUME NEW A, NEW s \in Seq(A), NEW kept
  PROVE  /\ Among(s, kept) \in Seq(A) /\ Len(Among(s, kept)) <= Len(s)
         /\ \A i \in 1..Len(Among(s, kept)) : Among(s, kept)[i] \in kept
<1>1. PICK C : Leaves(C, s, kept) /\ Among(s, kept) = C[Len(s)] BY AmongLeaves
<1> DEFINE Chosen(c, n) == c \in Seq(A) /\ Len(c) <= n /\ \A i \in 1..Len(c) : c[i] \in kept
           G == {i \in 0..Len(s) : Chosen(C[i], i)}
<1>2. Len(s) \in Nat OBVIOUS
<1>3. 0 \in G
  <2>1. C[0] = <<>> BY <1>1, Zenon DEF Leaves
  <2>2. Chosen(<<>>, 0) OBVIOUS
  <2>3. 0 \in 0..Len(s) BY <1>2
  <2> QED BY <2>1, <2>2, <2>3
<1>4. ASSUME NEW i \in 0..(Len(s) - 1), i \in G PROVE i + 1 \in G
  <2> DEFINE c == C[i]
  <2>1. i + 1 \in 1..Len(s) /\ (i + 1) - 1 = i /\ i + 1 \in 0..Len(s) BY <1>2
  <2>2. C[i + 1] = IF s[i + 1] \in kept THEN Append(c, s[i + 1]) ELSE c
    BY <1>1, <2>1 DEF Leaves
  <2>3. Chosen(c, i) BY <1>4
  <2> HIDE DEF c
  <2>4. CASE s[i + 1] \in kept
    <3>1. s[i + 1] \in A BY <2>1
    <3>2. /\ Append(c, s[i + 1]) \in Seq(A) /\ Len(Append(c, s[i + 1])) = Len(c) + 1
          /\ \A j \in 1..Len(c) : Append(c, s[i + 1])[j] = c[j]
          /\ Append(c, s[i + 1])[Len(c) + 1] = s[i + 1]
      BY <2>3, <3>1, AppendProperties
    <3>3. Len(c) \in Nat BY <2>3
    <3>4. Chosen(Append(c, s[i + 1]), i + 1) BY <2>3, <2>4, <3>2, <3>3
    <3> QED BY <2>1, <2>2, <2>4, <3>4
  <2>5. CASE s[i + 1] \notin kept
    <3>1. Len(c) \in Nat BY <2>3
    <3>2. Chosen(c, i + 1) BY <2>3, <3>1
    <3> QED BY <2>1, <2>2, <2>5, <3>2
  <2> QED BY <2>4, <2>5
<1>5. \A i \in 0..(Len(s) - 1) : i \in G => i + 1 \in G BY <1>4
<1> HIDE DEF G
<1>6. \A i \in 0..Len(s) : i \in G BY <1>2, <1>3, <1>5, Counting, Zenon
<1> QED BY <1>1, <1>2, <1>6 DEF G

\* Where the first d elements go and the others stay, the others are left.
LEMMA AmongSuffix ==
  ASSUME NEW A, NEW s \in Seq(A), NEW kept, NEW d \in 0..Len(s),
         \A i \in 1..Len(s) : s[i] \in kept <=> i > d
  PROVE  Among(s, kept) = SubSeq(s, d + 1, Len(s))
<1>1. PICK C : Leaves(C, s, kept) /\ Among(s, kept) = C[Len(s)] BY AmongLeaves
<1> DEFINE G == {i \in 0..Len(s) : C[i] = SubSeq(s, d + 1, i)}
<1>2. Len(s) \in Nat /\ d \in Nat OBVIOUS
<1>3. 0 \in G
  <2>1. SubSeq(s, d + 1, 0) = <<>> BY <1>2, SubSeqEmpty
  <2>2. C[0] = <<>> BY <1>1, Zenon DEF Leaves
  <2>3. 0 \in 0..Len(s) BY <1>2
  <2> QED BY <2>1, <2>2, <2>3
<1>4. ASSUME NEW i \in 0..(Len(s) - 1), i \in G PROVE i + 1 \in G
  <2>1. i + 1 \in 1..Len(s) /\ (i + 1) - 1 = i /\ i + 1 \in 0..Len(s) BY <1>2
  <2>2. C[i + 1] = IF i + 1 > d THEN Append(SubSeq(s, d + 1, i), s[i + 1]) ELSE SubSeq(s, d + 1, i)
    BY <1>1, <1>4, <2>1 DEF Leaves
  <2>3. CASE i + 1 > d
    <3>1. d + 1 \in 1..Len(s) /\ i + 1 \in (d + 1)..Len(s) BY <1>2, <2>1, <2>3
    <3>2. SubSeq(s, d + 1, i + 1) = SubSeq(s, d + 1, (i + 1) - 1) \o <<s[i + 1]>>
      BY <3>1, SubSeqRecursiveSecond
    <3>3. \A j \in (d + 1)..i : s[j] \in A BY <1>2, <2>1
    <3>4. SubSeq(s, d + 1, i) \in Seq(A) BY <1>2, <2>1, <3>3, SubSeqProperties
    <3>5. s[i + 1] \in A BY <2>1
    <3>6. Append(SubSeq(s, d + 1, i), s[i + 1]) = SubSeq(s, d + 1, i) \o <<s[i + 1]>>
      BY <3>4, <3>5, AppendIsConcat
    <3> QED BY <2>1, <2>2, <2>3, <3>2, <3>6
  <2>4. CASE ~(i + 1 > d)
    <3>1. SubSeq(s, d + 1, i) = <<>> /\ SubSeq(s, d + 1, i + 1) = <<>>
      BY <1>2, <2>1, <2>4, SubSeqEmpty
    <3> QED BY <2>1, <2>2, <2>4, <3>1
  <2> QED BY <2>3, <2>4
<1>5. \A i \in 0..(Len(s) - 1) : i \in G => i + 1 \in G BY <1>4
<1> HIDE DEF G
<1>6. \A i \in 0..Len(s) : i \in G BY <1>2, <1>3, <1>5, Counting, Zenon
<1> QED BY <1>1, <1>2, <1>6 DEF G

-------------------------------------------------------------------------------
(***************************************************************************)
(* The state of the hub.  D are the subscriptions whose counter and queue  *)
(* agree, r the bytes reserved for what is in neither.                     *)
(***************************************************************************)
Failures == [sub : Subs, id : Nat]

Hub == [next : Nat \ {0}, retained : Seq(Events), pending : Nat, overflowed : BOOLEAN,
        live : SUBSET Subs, queue : [Subs -> Seq(Events)], queued : [Subs -> Nat],
        cancelled : SUBSET Subs, owed : [Subs -> Nat \cup {None}],
        failures : Seq(Failures), bytes : Nat]

Ledger(h) ==
  SumBytes(h.retained) + h.pending + FailureBytes * Len(h.failures) + SumFunction(h.queued)

Exact(h, r, D) ==
  /\ h.bytes = Ledger(h) + r /\ h.bytes <= room /\ room \in Nat
  /\ \A s \in D : h.queued[s] = SumBytes(h.queue[s])

HasFailure(h, s) == \E i \in 1..Len(h.failures) : h.failures[i].sub = s

\* A subscription that was never registered has nothing; one that ended is owed the
\* snapshot, or has a failure recorded for it, and not both.
Ends(h) ==
  \A s \in Subs :
    /\ s \in h.live => h.owed[s] = None
    /\ h.owed[s] # None => s \in h.cancelled /\ ~HasFailure(h, s)
    /\ HasFailure(h, s) => s \in h.cancelled \ h.live
    /\ h.queue[s] # <<>> => s \in h.live \cup h.cancelled

Keeps(h, r, D) == h \in Hub /\ Exact(h, r, D) /\ Ends(h)

\* The replay log ends with event n, without a hole.
TailTo(h, n) ==
  \A i \in 1..Len(h.retained) :
    h.retained[i].id = n - (Len(h.retained) - i) /\ ~h.retained[i].snapshot

\* g is h with less history and fewer failures.
Less(h, g) ==
  /\ g.next = h.next /\ g.pending = h.pending
  /\ g.live = h.live /\ g.cancelled = h.cancelled
  /\ g.queue = h.queue /\ g.queued = h.queued /\ g.owed = h.owed
  /\ \A s \in Subs : HasFailure(g, s) => HasFailure(h, s)
  /\ \A n \in Nat : TailTo(h, n) => TailTo(g, n)

\* What an operation may do to subscriptions: end live ones, and nothing to the others.
Evolves(h, g) ==
  /\ g.live \subseteq h.live
  /\ g.cancelled = h.cancelled \cup (h.live \ g.live)
  /\ \A s \in Subs \ h.live :
       /\ g.queue[s] = h.queue[s] /\ g.owed[s] = h.owed[s]
       /\ HasFailure(g, s) => HasFailure(h, s)

\* Losing subscribers twice is losing subscribers.
LEMMA LessTransitive ==
  ASSUME NEW f, NEW g, NEW h, Less(f, g), Less(g, h) PROVE Less(f, h)
BY Zenon DEF Less

\* Two steps of a fold over the subscribers are one.
LEMMA EvolvesTransitive ==
  ASSUME NEW f, NEW g, NEW h, f.live \subseteq Subs, Evolves(f, g), Evolves(g, h)
  PROVE Evolves(f, h)
<1>1. h.live \subseteq f.live BY DEF Evolves
<1>2. h.cancelled = f.cancelled \cup (f.live \ h.live) BY DEF Evolves
<1>3. ASSUME NEW s \in Subs \ f.live
      PROVE  /\ h.queue[s] = f.queue[s] /\ h.owed[s] = f.owed[s]
             /\ HasFailure(h, s) => HasFailure(f, s)
  <2>1. s \in Subs \ g.live BY DEF Evolves
  <2>2. /\ g.queue[s] = f.queue[s] /\ g.owed[s] = f.owed[s]
        /\ HasFailure(g, s) => HasFailure(f, s)
    BY Zenon DEF Evolves
  <2>3. /\ h.queue[s] = g.queue[s] /\ h.owed[s] = g.owed[s]
        /\ HasFailure(h, s) => HasFailure(g, s)
    BY <2>1, Zenon DEF Evolves
  <2> QED BY <2>2, <2>3
<1> QED BY <1>1, <1>2, <1>3 DEF Evolves

\* To lose subscribers is a step of such a fold.
LEMMA LessEvolves ==
  ASSUME NEW h, NEW g, Less(h, g) PROVE Evolves(h, g)
BY DEF Less, Evolves

\* What is lost has ended, what is kept is as it was.
LEMMA LessEnds ==
  ASSUME NEW h, NEW g, Less(h, g), Ends(h) PROVE Ends(g)
BY DEF Less, Ends

\* Every term of the ledger is a number.
LEMMA LedgerNat ==
  ASSUME NEW h \in Hub
  PROVE  /\ SumBytes(h.retained) \in Nat /\ Len(h.failures) \in Nat /\ h.pending \in Nat
         /\ SumFunction(h.queued) \in Nat /\ Ledger(h) \in Nat /\ Len(h.retained) \in Nat
<1>1. SumBytes(h.retained) \in Nat BY SumBytesNat DEF Hub
<1>2. SumFunction(h.queued) \in Nat BY SumNat, EventHubAssumption DEF Hub
<1>3. h.pending \in Nat /\ Len(h.failures) \in Nat /\ Len(h.retained) \in Nat BY DEF Hub
<1> QED BY <1>1, <1>2, <1>3 DEF Ledger, FailureBytes

\* A number of failures takes twice its length in the ledger: FailureBytes is two units.
LEMMA Twice ==
  ASSUME NEW n \in Int PROVE n * FailureBytes = n + n /\ FailureBytes * n = n + n
BY DEF FailureBytes

\* A release of bytes that were reserved does not saturate.
LEMMA ReleaseIs ==
  ASSUME NEW h \in Hub, NEW n \in Nat, n <= h.bytes
  PROVE  Release(h, n) = [h EXCEPT !.bytes = @ - n]
BY DEF Release, Hub

\* History and failures that are given up leave the ledger exact.
LEMMA ShedKeeps ==
  ASSUME NEW h \in Hub, NEW r \in Nat, NEW D, Exact(h, r, D),
         NEW k \in 0..Len(h.retained), NEW j \in 0..Len(h.failures)
  PROVE  /\ Shed(h, k, j) \in Hub /\ Exact(Shed(h, k, j), r, D) /\ Less(h, Shed(h, k, j))
         /\ k = Len(h.retained) => Shed(h, k, j).retained = <<>>
         /\ Len(Shed(h, k, j).retained) = Len(h.retained) - k
<1> DEFINE a == SubSeq(h.retained, 1, k)
           b == SubSeq(h.retained, k + 1, Len(h.retained))
           c == SubSeq(h.failures, j + 1, Len(h.failures))
           n == SumBytes(a) + j * FailureBytes
           g == Shed(h, k, j)
<1>1. /\ h.retained \in Seq(Events) /\ h.failures \in Seq(Failures)
      /\ Len(h.retained) \in Nat /\ Len(h.failures) \in Nat /\ k \in Nat /\ j \in Nat
  BY DEF Hub
<1>2. /\ a \in Seq(Events) /\ b \in Seq(Events)
      /\ SumBytes(a) + SumBytes(b) = SumBytes(h.retained)
  BY <1>1, SumBytesSplit
<1>3. SumBytes(a) \in Nat /\ SumBytes(b) \in Nat BY <1>2, SumBytesNat
<1>4. /\ Len(b) = Len(h.retained) - k /\ \A i \in 1..(Len(h.retained) - k) : b[i] = h.retained[k + i]
  BY <1>1
<1>5. /\ c \in Seq(Failures) /\ Len(c) = Len(h.failures) - j
      /\ \A i \in 1..(Len(h.failures) - j) : c[i] = h.failures[j + i]
  <2>1. \A i \in (j + 1)..Len(h.failures) : h.failures[i] \in Failures BY <1>1
  <2> HIDE DEF Failures
  <2> QED BY <1>1, <2>1
<1>6. /\ h.bytes = SumBytes(h.retained) + h.pending + FailureBytes * Len(h.failures)
                   + SumFunction(h.queued) + r
      /\ h.bytes \in Nat /\ h.bytes <= room /\ room \in Nat
  BY DEF Exact, Ledger, Hub
<1>7. h.pending \in Nat /\ SumFunction(h.queued) \in Nat BY LedgerNat
<1> HIDE DEF a, b, c
<1>8. /\ n \in Nat /\ n <= h.bytes /\ h.bytes - n \in Nat
      /\ h.bytes - n = SumBytes(b) + h.pending + FailureBytes * Len(c) + SumFunction(h.queued) + r
  <2> DEFINE x == SumBytes(a)
             y == SumBytes(b)
             z == SumBytes(h.retained)
             q == SumFunction(h.queued)
             l == Len(h.failures)
             p == h.pending
             t == h.bytes
  <2>1. /\ j * FailureBytes = j + j /\ FailureBytes * Len(c) = Len(c) + Len(c)
        /\ FailureBytes * Len(h.failures) = Len(h.failures) + Len(h.failures)
    <3>1. j \in Int /\ Len(c) \in Int /\ Len(h.failures) \in Int BY <1>1, <1>5
    <3> QED BY <3>1, Twice
  <2>2. Len(c) = l - j /\ n = x + (j + j) BY <1>5, <2>1
  <2>3. /\ x \in Nat /\ y \in Nat /\ q \in Nat /\ l \in Nat /\ p \in Nat /\ r \in Nat /\ j \in Nat
        /\ t = z + p + (l + l) + q + r /\ x + y = z /\ j <= l
    BY <1>1, <1>2, <1>3, <1>6, <1>7, <2>1
  <2> HIDE DEF x, y, z, q, l, p, t
  <2>4. /\ x + (j + j) \in Nat /\ x + (j + j) <= t /\ t - (x + (j + j)) \in Nat
        /\ t - (x + (j + j)) = y + p + ((l - j) + (l - j)) + q + r
    BY ONLY <2>3, SMTT(40)
  <2>5. FailureBytes * Len(c) = (l - j) + (l - j) BY ONLY <2>1, <2>2
  <2> HIDE DEF n
  <2> QED BY ONLY <2>2, <2>4, <2>5 DEF x, y, z, q, l, p, t
<1> HIDE DEF n
<1>9. g = [h EXCEPT !.bytes = @ - n, !.retained = b, !.failures = c, !.overflowed = @ \/ k > 0]
  <2>1. Release(h, n) = [h EXCEPT !.bytes = @ - n] BY <1>8, ReleaseIs
  <2> QED BY <2>1 DEF Shed, Hub, a, b, c, n
<1>10. /\ g \in Hub /\ g.retained = b /\ g.failures = c /\ g.bytes = h.bytes - n
       /\ g.next = h.next /\ g.pending = h.pending /\ g.live = h.live
       /\ g.cancelled = h.cancelled /\ g.queue = h.queue /\ g.queued = h.queued
       /\ g.owed = h.owed
  BY <1>2, <1>5, <1>8, <1>9 DEF Hub
<1> HIDE DEF g
<1>11. Exact(g, r, D)
  <2>1. g.bytes = SumBytes(b) + h.pending + FailureBytes * Len(c) + SumFunction(h.queued) + r
    BY <1>8, <1>10
  <2>2. g.bytes <= room BY <1>6, <1>8, <1>10
  <2> QED BY <1>6, <1>10, <2>1, <2>2 DEF Exact, Ledger
<1>12. \A s \in Subs : HasFailure(g, s) => HasFailure(h, s)
  <2>1. ASSUME NEW i \in 1..Len(c) PROVE j + i \in 1..Len(h.failures) /\ c[i] = h.failures[j + i]
    BY <1>1, <1>5
  <2> QED BY <1>10, <2>1 DEF HasFailure
<1>13. ASSUME NEW m \in Nat, TailTo(h, m) PROVE TailTo(g, m)
  <2>1. ASSUME NEW i \in 1..Len(b) PROVE b[i].id = m - (Len(b) - i) /\ ~b[i].snapshot
    <3>1. k + i \in 1..Len(h.retained) /\ b[i] = h.retained[k + i] BY <1>1, <1>4
    <3>2. /\ h.retained[k + i].id = m - (Len(h.retained) - (k + i))
          /\ ~h.retained[k + i].snapshot
      BY <1>13, <3>1 DEF TailTo
    <3>3. Len(h.retained) - (k + i) = Len(b) - i BY <1>1, <1>4
    <3> QED BY <3>1, <3>2, <3>3
  <2> QED BY <1>10, <2>1 DEF TailTo
<1>14. Less(h, g) BY <1>10, <1>12, <1>13 DEF Less
<1>15. k = Len(h.retained) => b = <<>> BY <1>1, SubSeqEmpty DEF b
<1> QED BY <1>4, <1>10, <1>11, <1>14, <1>15 DEF g

\* Reclamation leaves the ledger exact, and makes the room or gives up all history.
LEMMA ShedUntilKeeps ==
  ASSUME NEW h \in Hub, NEW r \in Nat, NEW D, Exact(h, r, D), NEW most
  PROVE  /\ ShedUntil(h, most) \in Hub /\ Exact(ShedUntil(h, most), r, D)
         /\ Less(h, ShedUntil(h, most))
         /\ ShedUntil(h, most).bytes <= most \/ ShedUntil(h, most).retained = <<>>
<1> DEFINE K == {i \in 0..Len(h.retained) : Shed(h, i, 0).bytes <= most} \cup {Len(h.retained)}
           k == Min(K)
           J == {i \in 0..Len(h.failures) : Shed(h, k, i).bytes <= most} \cup {Len(h.failures)}
           j == Min(J)
<1>1. Len(h.retained) \in Nat /\ Len(h.failures) \in Nat BY LedgerNat
<1>2. K \in SUBSET Nat /\ K # {} /\ K \subseteq 0..Len(h.retained) BY <1>1
<1>3. k \in K
  <2> HIDE DEF K
  <2> QED BY <1>2, MinExists
<1>4. k \in 0..Len(h.retained) BY <1>2, <1>3
<1>5. k = Len(h.retained) \/ Shed(h, k, 0).bytes <= most BY <1>3
<1> HIDE DEF k, K
<1>6. J \in SUBSET Nat /\ J # {} /\ J \subseteq 0..Len(h.failures) BY <1>1
<1>7. j \in J /\ \A i \in J : j <= i
  <2> HIDE DEF J
  <2> QED BY <1>6, MinExists
<1>8. j \in 0..Len(h.failures) BY <1>6, <1>7
<1>9. k = Len(h.retained) \/ Shed(h, k, j).bytes <= most
  <2>1. SUFFICES ASSUME Shed(h, k, 0).bytes <= most PROVE Shed(h, k, j).bytes <= most BY <1>5
  <2>2. 0 \in J BY <1>1, <2>1
  <2>3. j <= 0 BY <1>7, <2>2
  <2>4. j = 0 BY <1>8, <2>3
  <2> QED BY <2>1, <2>4
<1>10. ShedUntil(h, most) = Shed(h, k, j) BY DEF ShedUntil, k, K
<1> HIDE DEF j, J
<1> QED BY <1>4, <1>8, <1>9, <1>10, ShedKeeps

\* So does making room.
LEMMA MakeRoomKeeps ==
  ASSUME NEW h, NEW r \in Nat, NEW D, Keeps(h, r, D), NEW n \in Nat
  PROVE  /\ Keeps(MakeRoom(h, n), r, D) /\ Less(h, MakeRoom(h, n))
         /\ Fits(MakeRoom(h, n), n) \/ MakeRoom(h, n).retained = <<>>
<1> DEFINE g == MakeRoom(h, n)
<1>1. /\ g \in Hub /\ Exact(g, r, D) /\ Less(h, g)
      /\ g.bytes <= room - n \/ g.retained = <<>>
  BY ShedUntilKeeps DEF MakeRoom, Keeps
<1>2. Ends(g) BY <1>1, LessEnds DEF Keeps
<1>3. g.bytes <= room - n => Fits(g, n)
  <2>1. g.bytes \in Nat /\ room \in Nat BY <1>1 DEF Hub, Exact
  <2> QED BY <2>1 DEF Fits
<1> QED BY <1>1, <1>2, <1>3 DEF Keeps

\* So does trimming the log to its capacity.
LEMMA TrimKeeps ==
  ASSUME NEW h, NEW r \in Nat, NEW D, Keeps(h, r, D)
  PROVE  Keeps(Trim(h), r, D) /\ Less(h, Trim(h))
<1>1. CASE Len(h.retained) > ReplayCapacity
  <2>1. 1 \in 0..Len(h.retained) /\ 0 \in 0..Len(h.failures)
    BY <1>1, LedgerNat, EventHubAssumption DEF Keeps
  <2>2. /\ Shed(h, 1, 0) \in Hub /\ Exact(Shed(h, 1, 0), r, D) /\ Less(h, Shed(h, 1, 0))
    BY <2>1, ShedKeeps DEF Keeps
  <2> QED BY <1>1, <2>2, LessEnds DEF Keeps, Trim
<1>2. CASE ~(Len(h.retained) > ReplayCapacity) BY <1>2 DEF Trim, Less
<1> QED BY <1>1, <1>2

\* There is a slowest subscriber: the ranks break every tie.
LEMMA SlowestIsOne ==
  ASSUME NEW h \in Hub, NEW rank \in Ranks, NEW S \in SUBSET Subs, S # {}
  PROVE  Slowest(h, S, rank) \in S
<1> DEFINE Before(t, s) == \/ h.queued[t] < h.queued[s]
                           \/ h.queued[t] = h.queued[s] /\ rank[t] < rank[s]
           Final(T, s) == \A t \in T \ {s} : Before(t, s)
           G == {T \in SUBSET S : T # {} => \E s \in T : Final(T, s)}
<1>1. \A s \in Subs : h.queued[s] \in Nat /\ rank[s] \in Nat BY DEF Hub, Ranks
<1>2. \A s, t \in Subs : s = t \/ Before(s, t) \/ Before(t, s)
  <2>1. \A s, t \in Subs : rank[s] = rank[t] => s = t BY DEF Ranks
  <2> QED BY <1>1, <2>1
<1>3. \A s, t, u \in Subs : Before(s, t) /\ Before(t, u) => Before(s, u) BY <1>1
<1> HIDE DEF Before
<1>4. ASSUME NEW T \in SUBSET S, \A x \in T : T \ {x} \in G PROVE T \in G
  <2>1. ASSUME NEW x \in T PROVE \E s \in T : Final(T, s)
    <3>1. CASE T \ {x} = {} BY <3>1
    <3>2. CASE T \ {x} # {}
      <4>1. PICK s \in T \ {x} : Final(T \ {x}, s) BY <1>4, <3>2
      <4>2. CASE Before(x, s) BY <4>1, <4>2
      <4>3. CASE Before(s, x)
        <5>1. ASSUME NEW t \in T \ {x} PROVE Before(t, x)
          <6>1. t = s \/ Before(t, s) BY <4>1
          <6> QED BY <1>3, <4>3, <6>1
        <5> QED BY <5>1
      <4> QED BY <1>2, <4>1, <4>2, <4>3
    <3> QED BY <3>1, <3>2
  <2> QED BY <2>1
<1>5. IsFiniteSet(S) BY EventHubAssumption, FS_Subset
<1>6. S \in G
  <2> HIDE DEF G
  <2> QED BY <1>4, <1>5, SetInduction
<1>7. \E s \in S : \A t \in S \ {s} : Before(t, s) BY <1>6
<1> QED BY <1>7, Zenon DEF Slowest, Before
-------------------------------------------------------------------------------
(***************************************************************************)
(* Ending a subscription, and adding to the history.                       *)
(***************************************************************************)
\* Subscriptions may end, the queues stay.
Quiet(h, g) ==
  /\ Evolves(h, g) /\ g.queue = h.queue /\ g.pending = h.pending /\ g.next = h.next

\* Losing subscribers delivers nothing.
LEMMA LessQuiet ==
  ASSUME NEW h, NEW g, Less(h, g) PROVE Quiet(h, g)
BY LessEvolves DEF Less, Quiet

\* Delivering nothing twice delivers nothing.
LEMMA QuietTransitive ==
  ASSUME NEW f, NEW g, NEW h, f.live \subseteq Subs, Quiet(f, g), Quiet(g, h)
  PROVE  Quiet(f, h)
BY EvolvesTransitive DEF Quiet

\* The early end of the slowest subscriber moves no byte.
LEMMA TerminateSlowestKeeps ==
  ASSUME NEW h, NEW r \in Nat, NEW D, Keeps(h, r, D), NEW rank \in Ranks
  PROVE  /\ Keeps(TerminateSlowest(h, rank), r, D) /\ Quiet(h, TerminateSlowest(h, rank))
         /\ TerminateSlowest(h, rank).retained = h.retained
<1>1. CASE h.live = {} BY <1>1 DEF TerminateSlowest, Quiet, Evolves
<1>2. CASE h.live # {}
  <2> DEFINE s == Slowest(h, h.live, rank)
             g == TerminateSlowest(h, rank)
             h1 == [h EXCEPT !.owed[s] = h.next - 1]
  <2>1. h \in Hub /\ h.live \in SUBSET Subs /\ h.next \in Nat BY DEF Keeps, Hub
  <2>2. s \in h.live /\ s \in Subs BY <1>2, <2>1, SlowestIsOne
  <2>3. h.owed \in [Subs -> Nat \cup {None}] /\ h.next - 1 \in Nat BY <2>1 DEF Hub
  <2>4. /\ h1 \in Hub /\ h1.live = h.live /\ h1.cancelled = h.cancelled
        /\ h1.owed = [h.owed EXCEPT ![s] = h.next - 1] /\ h1.retained = h.retained
        /\ h1.queue = h.queue /\ h1.queued = h.queued /\ h1.failures = h.failures
        /\ h1.bytes = h.bytes /\ h1.pending = h.pending /\ h1.next = h.next
    <3> HIDE DEF s
    <3> QED BY <2>1, <2>2, <2>3 DEF Hub
  <2>5. g = RemoveSubscriber(h1, s) BY <1>2, Zenon DEF TerminateSlowest
  <2> HIDE DEF s, g, h1
  <2>6. /\ g \in Hub /\ g.live = h.live \ {s} /\ g.cancelled = h.cancelled \cup {s}
        /\ g.owed = [h.owed EXCEPT ![s] = h.next - 1] /\ g.retained = h.retained
        /\ g.queue = h.queue /\ g.queued = h.queued /\ g.failures = h.failures
        /\ g.bytes = h.bytes /\ g.pending = h.pending /\ g.next = h.next
    <3>1. g = [h1 EXCEPT !.live = @ \ {s}, !.cancelled = @ \cup {s}]
      BY <2>2, <2>4, <2>5 DEF RemoveSubscriber
    <3>2. /\ g \in Hub /\ g.live = h1.live \ {s} /\ g.cancelled = h1.cancelled \cup {s}
          /\ g.owed = h1.owed /\ g.retained = h1.retained
          /\ g.queue = h1.queue /\ g.queued = h1.queued /\ g.failures = h1.failures
          /\ g.bytes = h1.bytes /\ g.pending = h1.pending /\ g.next = h1.next
      BY <2>2, <2>4, <3>1 DEF Hub
    <3> QED BY <2>4, <3>2
  <2>7. \A t \in Subs : HasFailure(g, t) <=> HasFailure(h, t) BY <2>6 DEF HasFailure
  <2>11. Exact(g, r, D) BY <2>6 DEF Keeps, Exact, Ledger
  <2>8. \A t \in Subs : g.owed[t] = IF t = s THEN h.next - 1 ELSE h.owed[t]
    BY <2>2, <2>6, <2>3
  <2>9. Ends(g)
    <3>1. ASSUME NEW t \in Subs
          PROVE  /\ t \in g.live => g.owed[t] = None
                 /\ g.owed[t] # None => t \in g.cancelled /\ ~HasFailure(g, t)
                 /\ HasFailure(g, t) => t \in g.cancelled \ g.live
                 /\ g.queue[t] # <<>> => t \in g.live \cup g.cancelled
      <4>1. /\ t \in h.live => h.owed[t] = None
            /\ h.owed[t] # None => t \in h.cancelled /\ ~HasFailure(h, t)
            /\ HasFailure(h, t) => t \in h.cancelled \ h.live
            /\ h.queue[t] # <<>> => t \in h.live \cup h.cancelled
        BY DEF Keeps, Ends
      <4> QED BY <2>2, <2>6, <2>7, <2>8, <4>1
    <3> QED BY <3>1 DEF Ends
  <2>10. Evolves(h, g)
    <3>1. g.cancelled = h.cancelled \cup (h.live \ g.live) BY <2>2, <2>6
    <3>2. \A t \in Subs \ h.live : g.queue[t] = h.queue[t] /\ g.owed[t] = h.owed[t]
      BY <2>2, <2>6, <2>8
    <3> QED BY <2>6, <2>7, <3>1, <3>2 DEF Evolves
  <2> QED BY <2>6, <2>11, <2>9, <2>10 DEF Keeps, Quiet, g
<1> QED BY <1>1, <1>2

\* An event that fits is appended, and its reservation replaced.
LEMMA AppendEvent ==
  ASSUME NEW h, NEW r \in Nat, NEW c \in Nat, NEW D, Keeps(h, r + c, D),
         NEW e \in Events, c <= e.bytes, ~e.snapshot, NEW n \in Nat, n = e.id - 1, TailTo(h, n),
         Fits(h, e.bytes - c)
  PROVE  LET g == [h EXCEPT !.bytes = @ + e.bytes - c, !.retained = Append(@, e)]
         IN  Keeps(g, r, D) /\ Quiet(h, g) /\ TailTo(g, e.id)
<1> DEFINE b == h.bytes + e.bytes - c
           g == [h EXCEPT !.bytes = b, !.retained = Append(@, e)]
<1>0. b \in Nat /\ b <= room /\ b = h.bytes + e.bytes - c
  <2>1. h.bytes \in Nat /\ room \in Nat BY DEF Keeps, Hub, Exact
  <2>2. e.bytes \in Nat /\ c \in Nat /\ c <= e.bytes BY DEF Events
  <2>3. h.bytes + (e.bytes - c) <= room BY DEF Fits
  <2> QED BY ONLY <2>1, <2>2, <2>3 DEF b
<1> HIDE DEF b
<1>1. h \in Hub /\ h.retained \in Seq(Events) BY DEF Keeps, Hub
<1> DEFINE s == Append(h.retained, e)
<1>2. /\ s \in Seq(Events) /\ Len(s) = Len(h.retained) + 1
      /\ \A i \in 1..Len(h.retained) : s[i] = h.retained[i]
      /\ s[Len(h.retained) + 1] = e
  BY <1>1, AppendProperties
<1>3. SumBytes(s) = SumBytes(h.retained) + e.bytes BY <1>1, SumBytesAppend
<1> HIDE DEF s
<1>4. /\ g \in Hub /\ g.bytes = b /\ g.retained = s /\ g.next = h.next
      /\ g.pending = h.pending /\ g.live = h.live /\ g.cancelled = h.cancelled
      /\ g.queue = h.queue /\ g.queued = h.queued /\ g.owed = h.owed
      /\ g.failures = h.failures
  BY <1>0, <1>1, <1>2 DEF Hub, s
<1> HIDE DEF g
<1>5. Exact(g, r, D)
  <2>1. /\ e.bytes \in Nat /\ SumBytes(h.retained) \in Nat /\ h.pending \in Nat
        /\ SumFunction(h.queued) \in Nat /\ FailureBytes * Len(h.failures) \in Nat
    <3>1. Len(h.failures) \in Nat BY <1>1, LedgerNat
    <3>2. FailureBytes * Len(h.failures) \in Nat BY <3>1 DEF FailureBytes
    <3> QED BY <1>1, <3>2, LedgerNat DEF Events
  <2>2. h.bytes = SumBytes(h.retained) + h.pending + FailureBytes * Len(h.failures)
                  + SumFunction(h.queued) + (r + c)
    BY DEF Keeps, Exact, Ledger
  <2>3. b = SumBytes(s) + h.pending + FailureBytes * Len(h.failures) + SumFunction(h.queued) + r
    <3> DEFINE x == SumBytes(h.retained)
               p == h.pending
               f == FailureBytes * Len(h.failures)
               q == SumFunction(h.queued)
               u == e.bytes
    <3>1. b = (x + p + f + q + (r + c)) + u - c /\ SumBytes(s) = x + u BY <1>0, <1>3, <2>2
    <3>2. x \in Nat /\ p \in Nat /\ f \in Nat /\ q \in Nat /\ u \in Nat /\ r \in Nat /\ c \in Nat
      BY <2>1
    <3> HIDE DEF x, p, f, q, u
    <3>3. b = (x + u) + p + f + q + r BY ONLY <3>1, <3>2
    <3>4. SumBytes(s) = x + u BY <3>1
    <3>5. b = SumBytes(s) + p + f + q + r BY <3>3, <3>4, Zenon
    <3> QED BY ONLY <3>5 DEF p, f, q
  <2> QED BY <1>0, <1>4, <2>3 DEF Keeps, Exact, Ledger
<1>6. /\ Evolves(h, g) /\ Ends(g)
  <2>1. \A t \in Subs : HasFailure(g, t) <=> HasFailure(h, t) BY <1>4 DEF HasFailure
  <2> QED BY <1>4, <2>1 DEF Evolves, Ends, Keeps
<1>7. TailTo(g, e.id)
  <2>1. ASSUME NEW i \in 1..Len(s) PROVE s[i].id = e.id - (Len(s) - i) /\ ~s[i].snapshot
    <3>1. Len(h.retained) \in Nat /\ e.id \in Nat BY <1>1 DEF Events
    <3>2. CASE i \in 1..Len(h.retained)
      <4>1. h.retained[i].id = n - (Len(h.retained) - i) /\ ~h.retained[i].snapshot
        BY <3>2 DEF TailTo
      <4>2. e.id - (Len(s) - i) = n - (Len(h.retained) - i)
        <5> DEFINE l == Len(h.retained)
                   m == e.id
        <5>1. /\ Len(s) = l + 1 /\ n = m - 1 /\ l \in Nat /\ m \in Nat /\ i \in Int
          BY <1>2, <3>1
        <5> HIDE DEF l, m
        <5>2. m - ((l + 1) - i) = n - (l - i) BY ONLY <5>1
        <5> QED BY <5>1, <5>2 DEF l, m
      <4> QED BY <1>2, <3>2, <4>1, <4>2
    <3>3. CASE i = Len(h.retained) + 1 BY <1>2, <3>1, <3>3
    <3> QED BY <1>2, <3>1, <3>2, <3>3
  <2> QED BY <1>4, <2>1 DEF TailTo
<1> QED BY <1>4, <1>5, <1>6, <1>7 DEF Keeps, Quiet, g, b

\* What an operation that publishes one event does.
Appends(h, g) ==
  /\ Evolves(h, g) /\ g.queue = h.queue /\ g.pending = h.pending
  /\ g.next = h.next + 1 /\ TailTo(g, h.next)

\* What is published is an event.
LEMMA EventIs ==
  ASSUME NEW n \in Nat, NEW p \in Nat
  PROVE  /\ Event(n, p) \in Events /\ ~Event(n, p).snapshot
         /\ Event(n, p).id = n /\ Event(n, p).bytes = 1 + p
BY DEF Event, Events

\* A shorter replay log is still the tail of the history.
LEMMA TailToLess ==
  ASSUME NEW h, NEW g, Less(h, g), NEW n \in Nat, TailTo(h, n) PROVE TailTo(g, n)
BY DEF Less

\* An empty replay log is a tail of any history.
LEMMA EmptyTail ==
  ASSUME NEW h, h.retained = <<>>, NEW n PROVE TailTo(h, n)
BY DEF TailTo

\* The next event continues the replay log without a hole.
LEMMA NextKeeps ==
  ASSUME NEW h, NEW r, NEW D, Keeps(h, r, D), NEW f, f = [h EXCEPT !.next = @ + 1]
  PROVE  /\ Keeps(f, r, D) /\ f.next = h.next + 1
         /\ Evolves(h, f) /\ f.queue = h.queue /\ f.pending = h.pending
         /\ \A n \in Nat : TailTo(h, n) => TailTo(f, n)
<1>1. /\ f \in Hub /\ f.next = h.next + 1 /\ f.retained = h.retained /\ f.pending = h.pending
      /\ f.live = h.live /\ f.cancelled = h.cancelled /\ f.queue = h.queue
      /\ f.queued = h.queued /\ f.owed = h.owed /\ f.failures = h.failures /\ f.bytes = h.bytes
  <2>1. h \in Hub /\ h.next + 1 \in Nat \ {0} BY DEF Keeps, Hub
  <2> QED BY <2>1 DEF Hub
<1>2. \A s \in Subs : HasFailure(f, s) <=> HasFailure(h, s) BY <1>1 DEF HasFailure
<1>3. Exact(f, r, D) BY <1>1 DEF Keeps, Exact, Ledger
<1>4. Ends(f) BY <1>1, <1>2 DEF Keeps, Ends
<1>5. Evolves(h, f) BY <1>1, <1>2 DEF Evolves
<1>6. \A n \in Nat : TailTo(h, n) => TailTo(f, n) BY <1>1, Zenon DEF TailTo
<1> QED BY <1>1, <1>3, <1>4, <1>5, <1>6 DEF Keeps

\* The bytes that were reserved are given back.
LEMMA ReleaseReserved ==
  ASSUME NEW h, NEW r \in Nat, NEW c \in Nat, NEW D, Keeps(h, r + c, D),
         NEW lost \in BOOLEAN
  PROVE  LET g == [Release(h, c) EXCEPT !.overflowed = lost]
         IN  Keeps(g, r, D) /\ Quiet(h, g) /\ g.retained = h.retained
<1> DEFINE g == [Release(h, c) EXCEPT !.overflowed = lost]
<1>1. h \in Hub /\ h.bytes \in Nat /\ h.bytes = Ledger(h) + (r + c) /\ Ledger(h) \in Nat
      /\ h.bytes <= room /\ room \in Nat
  BY LedgerNat DEF Keeps, Hub, Exact
<1>2. c <= h.bytes /\ h.bytes - c \in Nat /\ h.bytes - c = Ledger(h) + r /\ h.bytes - c <= room
  <2> DEFINE l == Ledger(h)
             b == h.bytes
  <2>1. b = l + (r + c) /\ l \in Nat /\ b \in Nat /\ b <= room /\ room \in Nat BY <1>1
  <2> HIDE DEF l, b
  <2>2. c <= b /\ b - c \in Nat /\ b - c = l + r /\ b - c <= room BY <2>1
  <2> QED BY <2>2 DEF l, b
<1>3. g = [h EXCEPT !.bytes = @ - c, !.overflowed = lost]
  BY <1>1, <1>2, ReleaseIs DEF Hub
<1>4. /\ g \in Hub /\ g.bytes = h.bytes - c /\ g.next = h.next /\ g.retained = h.retained
      /\ g.pending = h.pending
      /\ g.live = h.live /\ g.cancelled = h.cancelled /\ g.queue = h.queue
      /\ g.queued = h.queued /\ g.owed = h.owed /\ g.failures = h.failures
  BY <1>1, <1>2, <1>3 DEF Hub
<1> HIDE DEF g
<1>5. \A s \in Subs : HasFailure(g, s) <=> HasFailure(h, s) BY <1>4 DEF HasFailure
<1>6. Exact(g, r, D)
  <2>1. Ledger(g) = Ledger(h) BY <1>4 DEF Ledger
  <2> QED BY <1>1, <1>2, <1>4, <2>1 DEF Keeps, Exact
<1>7. Ends(g) BY <1>4, <1>5 DEF Keeps, Ends
<1>8. Evolves(h, g) BY <1>4, <1>5 DEF Evolves
<1> QED BY <1>4, <1>6, <1>7, <1>8 DEF Keeps, Quiet, g

\* An event is retained, or a subscription ends for it; the log has no hole either way.
LEMMA RetainKeeps ==
  ASSUME NEW h, NEW r \in Nat, NEW c \in Nat, NEW D, Keeps(h, r + c, D),
         NEW e \in Events, c <= e.bytes, ~e.snapshot, NEW n \in Nat, n = e.id - 1, TailTo(h, n),
         Fits(h, e.bytes - c) \/ h.retained = <<>>, NEW rank \in Ranks
  PROVE  LET g == Retain(h, e, c, rank)
         IN  Keeps(g, r, D) /\ Quiet(h, g) /\ TailTo(g, e.id)
<1>1. h \in Hub /\ h.live \subseteq Subs /\ h.bytes \in Nat /\ e.bytes \in Nat /\ e.id \in Nat
      /\ room \in Nat
  BY DEF Keeps, Hub, Events, Exact
<1>2. CASE Fits(h, e.bytes - c)
  <2> DEFINE f == [h EXCEPT !.bytes = @ + e.bytes - c, !.retained = Append(@, e)]
  <2>1. Retain(h, e, c, rank) = Trim(f) BY <1>2 DEF Retain
  <2>3. Keeps(f, r, D) /\ Quiet(h, f) /\ TailTo(f, e.id) BY <1>2, AppendEvent
  <2> HIDE DEF f
  <2>4. Keeps(Trim(f), r, D) /\ Less(f, Trim(f)) BY <2>3, TrimKeeps
  <2>5. Quiet(h, Trim(f)) BY <1>1, <2>3, <2>4, LessQuiet, QuietTransitive
  <2> QED BY <1>1, <2>1, <2>3, <2>4, <2>5, TailToLess
<1>3. CASE ~Fits(h, e.bytes - c)
  <2> DEFINE f == TerminateSlowest(h, rank)
             g == [Release(f, c) EXCEPT !.overflowed = TRUE]
  <2>0. r + c \in Nat /\ h.retained = <<>> BY <1>3
  <2>1. Keeps(f, r + c, D) /\ Quiet(h, f) /\ f.retained = <<>>
    BY <2>0, TerminateSlowestKeeps
  <2>2. Retain(h, e, c, rank) = g BY <1>3 DEF Retain
  <2> HIDE DEF f
  <2>3. Keeps(g, r, D) /\ Quiet(f, g) /\ g.retained = f.retained
    BY <2>1, ReleaseReserved
  <2> HIDE DEF g
  <2> QED BY <1>1, <2>1, <2>2, <2>3, QuietTransitive, EmptyTail
<1> QED BY <1>2, <1>3

\* append_log publishes the next event.
LEMMA AppendLogKeeps ==
  ASSUME NEW h, NEW r \in Nat, NEW c \in Nat, NEW D, Keeps(h, r + c, D),
         NEW e \in Events, c <= e.bytes, ~e.snapshot, e.id = h.next, TailTo(h, h.next - 1),
         NEW rank \in Ranks
  PROVE  Keeps(AppendLog(h, e, c, rank), r, D) /\ Appends(h, AppendLog(h, e, c, rank))
<1> DEFINE f == [h EXCEPT !.next = @ + 1]
           m == MakeRoom(f, e.bytes - c)
           g == Retain(m, e, c, rank)
<1>1. h.next \in Nat /\ h.next - 1 \in Nat /\ h.live \subseteq Subs /\ e.bytes - c \in Nat
  BY DEF Keeps, Hub, Events
<1>2. /\ Keeps(f, r + c, D) /\ f.next = h.next + 1
      /\ Evolves(h, f) /\ f.queue = h.queue /\ f.pending = h.pending /\ TailTo(f, h.next - 1)
  BY <1>1, NextKeeps
<1> HIDE DEF f
<1>3. /\ Keeps(m, r + c, D) /\ Less(f, m)
      /\ Fits(m, e.bytes - c) \/ m.retained = <<>>
  <2>1. r + c \in Nat OBVIOUS
  <2> QED BY <1>1, <1>2, <2>1, MakeRoomKeeps
<1>4. TailTo(m, h.next - 1) BY <1>1, <1>2, <1>3, TailToLess
<1> HIDE DEF m
<1>5. Keeps(g, r, D) /\ Quiet(m, g) /\ TailTo(g, e.id)
  BY <1>1, <1>3, <1>4, RetainKeeps
<1>6. g = AppendLog(h, e, c, rank) BY DEF AppendLog, f, m
<1> HIDE DEF g
<1>7. /\ Evolves(f, m) /\ m.queue = f.queue /\ m.pending = f.pending /\ m.next = f.next
  BY <1>3, LessQuiet DEF Quiet
<1>8. f.live \subseteq Subs /\ m.live \subseteq Subs BY <1>2, <1>3 DEF Keeps, Hub
<1>9. Evolves(m, g) BY <1>5 DEF Quiet
<1>10. Evolves(f, g) BY <1>7, <1>8, <1>9, EvolvesTransitive
<1>11. Evolves(h, g) BY <1>1, <1>2, <1>10, EvolvesTransitive
<1> QED BY <1>2, <1>5, <1>6, <1>7, <1>11 DEF Appends, Quiet

\* So does the warning that history was lost.
LEMMA WarnKeeps ==
  ASSUME NEW h, NEW r \in Nat, NEW D, Keeps(h, r, D), TailTo(h, h.next - 1),
         NEW rank \in Ranks, NEW mayEnd \in BOOLEAN
  PROVE  Keeps(Warn(h, mayEnd, rank), r, D) /\ Appends(h, Warn(h, mayEnd, rank))
<1> DEFINE f == [h EXCEPT !.next = @ + 1]
           m == MakeRoom(f, 1)
           g == RetainWarning(m, mayEnd, rank)
           e == Event(m.next - 1, 0)
<1>1. h.next \in Nat /\ h.next - 1 \in Nat /\ h.live \subseteq Subs /\ 1 \in Nat
  BY DEF Keeps, Hub
<1>2. /\ Keeps(f, r, D) /\ f.next = h.next + 1
      /\ Evolves(h, f) /\ f.queue = h.queue /\ f.pending = h.pending /\ TailTo(f, h.next - 1)
  BY <1>1, NextKeeps
<1> HIDE DEF f
<1>3. /\ Keeps(m, r, D) /\ Less(f, m)
      /\ Fits(m, 1) \/ m.retained = <<>>
  BY <1>1, <1>2, MakeRoomKeeps
<1>4. TailTo(m, h.next - 1) BY <1>1, <1>2, <1>3, TailToLess
<1>5. m.next = h.next + 1 /\ m.live \subseteq Subs /\ m.bytes \in Nat /\ room \in Nat
  BY <1>2, <1>3 DEF Less, Keeps, Hub, Exact
<1>6. g = Warn(h, mayEnd, rank) BY DEF Warn, f, m
<1> HIDE DEF m
<1>7. Keeps(g, r, D) /\ Quiet(m, g) /\ TailTo(g, h.next)
  <2>1. CASE Fits(m, 1)
    <3> DEFINE k == [m EXCEPT !.bytes = @ + e.bytes - 0, !.retained = Append(@, e)]
    <3>2. e \in Events /\ ~e.snapshot /\ e.id = h.next /\ e.bytes = 1
      <4>1. m.next - 1 = h.next /\ m.next - 1 \in Nat /\ 0 \in Nat /\ 1 + 0 = 1 BY ONLY <1>1, <1>5
      <4> QED BY <4>1, EventIs
    <3>1. g = Trim(k)
      <4>1. m.bytes + e.bytes - 0 = m.bytes + 1 BY <1>5, <3>2
      <4> HIDE DEF e
      <4> QED BY <2>1, <4>1 DEF RetainWarning, e
    <3>4. r + 0 = r /\ 0 \in Nat /\ 0 <= e.bytes /\ h.next - 1 = e.id - 1 /\ Fits(m, e.bytes - 0)
      BY <1>5, <2>1, <3>2 DEF Fits
    <3>5. Keeps(m, r + 0, D) BY <1>3, <3>4
    <3> HIDE DEF e
    <3>8. Keeps(k, r, D) /\ Quiet(m, k) /\ TailTo(k, e.id)
      BY <1>1, <1>3, <1>4, <3>2, <3>4, <3>5, AppendEvent
    <3> HIDE DEF k
    <3>6. Keeps(Trim(k), r, D) /\ Less(k, Trim(k)) BY <3>8, TrimKeeps
    <3>7. Quiet(m, Trim(k)) BY <1>5, <3>8, <3>6, LessQuiet, QuietTransitive
    <3> QED BY <1>1, <3>1, <3>2, <3>8, <3>6, <3>7, TailToLess
  <2>2. CASE ~Fits(m, 1) /\ mayEnd
    <3>1. g = TerminateSlowest(m, rank) BY <2>2 DEF RetainWarning
    <3> QED BY <1>3, <2>2, <3>1, TerminateSlowestKeeps, EmptyTail
  <2>3. CASE ~Fits(m, 1) /\ ~mayEnd
    <3>1. g = m BY <2>3 DEF RetainWarning
    <3> QED BY <1>3, <2>3, <3>1, EmptyTail DEF Quiet, Evolves
  <2> QED BY <2>1, <2>2, <2>3
<1> HIDE DEF g
<1>8. /\ Evolves(f, m) /\ m.queue = f.queue /\ m.pending = f.pending /\ m.next = f.next
  BY <1>3, LessQuiet DEF Quiet
<1>9. f.live \subseteq Subs BY <1>2 DEF Keeps, Hub
<1>10. Evolves(m, g) BY <1>7 DEF Quiet
<1>11. Evolves(f, g) BY <1>5, <1>8, <1>9, <1>10, EvolvesTransitive
<1>12. Evolves(h, g) BY <1>1, <1>2, <1>11, EvolvesTransitive
<1> QED BY <1>2, <1>6, <1>7, <1>8, <1>12 DEF Appends, Quiet

-------------------------------------------------------------------------------
(***************************************************************************)
(* The event is offered to the subscribers, one after the other.           *)
(***************************************************************************)
\* g is h after some operations that end no subscription.
Same(h, g) ==
  /\ g.next = h.next /\ g.pending = h.pending /\ g.live = h.live
  /\ g.cancelled = h.cancelled /\ g.owed = h.owed
  /\ \A s \in Subs : HasFailure(g, s) => HasFailure(h, s)
  /\ \A n \in Nat : TailTo(h, n) => TailTo(g, n)

\* Leaving the hub alone twice leaves it alone.
LEMMA SameTransitive ==
  ASSUME NEW f, NEW g, NEW h, Same(f, g), Same(g, h) PROVE Same(f, h)
BY Zenon DEF Same

\* One offer queues the event for one subscriber, or nothing.
LEMMA OfferKeeps ==
  ASSUME NEW h, NEW r \in Nat, NEW D \in SUBSET Subs, Keeps(h, r, D),
         NEW e \in Events, NEW s \in Subs, s \in h.live
  PROVE  /\ Keeps(Offer(h, s, e), r, D) /\ Same(h, Offer(h, s, e))
         /\ \A t \in Subs \ {s} : Offer(h, s, e).queue[t] = h.queue[t]
         /\ \/ Offer(h, s, e).queue[s] = h.queue[s]
            \/ Offer(h, s, e).queue[s] = Append(h.queue[s], e)
<1> DEFINE m == MakeRoom(h, e.bytes)
           g == [m EXCEPT !.bytes = @ + e.bytes, !.queue[s] = Append(@, e),
                          !.queued[s] = @ + e.bytes]
<1>1. e.bytes \in Nat BY DEF Events
<1>2. Keeps(m, r, D) /\ Less(h, m) BY <1>1, MakeRoomKeeps
<1>3. Same(h, m) /\ m.queue = h.queue /\ m.queued = h.queued BY <1>2, Zenon DEF Same, Less
<1>4. CASE ~(Fits(m, e.bytes) /\ Len(m.queue[s]) < QueueCapacity)
  <2>1. Offer(h, s, e) = m BY <1>4 DEF Offer, Enqueue
  <2> HIDE DEF m
  <2> QED BY <1>2, <1>3, <2>1
<1>5. CASE Fits(m, e.bytes) /\ Len(m.queue[s]) < QueueCapacity
  <2>1. Offer(h, s, e) = g BY <1>5 DEF Offer, Enqueue
  <2> HIDE DEF m
  <2>2. /\ m \in Hub /\ m.queue \in [Subs -> Seq(Events)] /\ m.queued \in [Subs -> Nat]
        /\ m.bytes \in Nat /\ m.queue[s] \in Seq(Events) /\ m.queued[s] \in Nat
        /\ room \in Nat /\ s \in m.live
    BY <1>2 DEF Keeps, Hub, Less, Exact
  <2> DEFINE Q == [m.queue EXCEPT ![s] = Append(@, e)]
             N == [m.queued EXCEPT ![s] = @ + e.bytes]
  <2>3. /\ Q \in [Subs -> Seq(Events)] /\ Q[s] = Append(m.queue[s], e)
        /\ \A t \in Subs \ {s} : Q[t] = m.queue[t]
    BY <2>2
  <2>4. /\ N \in [Subs -> Nat] /\ N[s] = m.queued[s] + e.bytes
        /\ \A t \in Subs \ {s} : N[t] = m.queued[t]
    BY <1>1, <2>2
  <2> HIDE DEF Q, N
  <2>5. /\ g \in Hub /\ g.bytes = m.bytes + e.bytes /\ g.queue = Q /\ g.queued = N
        /\ g.next = m.next /\ g.retained = m.retained /\ g.pending = m.pending
        /\ g.live = m.live /\ g.cancelled = m.cancelled /\ g.owed = m.owed
        /\ g.failures = m.failures
    <3>1. g = [m EXCEPT !.bytes = @ + e.bytes, !.queue = Q, !.queued = N]
      BY <2>2 DEF Q, N, Hub
    <3>2. m.bytes + e.bytes \in Nat BY <1>1, <2>2
    <3> HIDE DEF g
    <3> QED BY <2>2, <2>3, <2>4, <3>1, <3>2 DEF Hub
  <2> HIDE DEF g
  <2>6. SumFunction(g.queued) = SumFunction(m.queued) + e.bytes
    <3>1. SumFunction(N) = SumFunction(m.queued) - m.queued[s] + N[s]
      <4>1. IsFiniteSet(Subs) BY EventHubAssumption
      <4> DEFINE F == m.queued
      <4>2. /\ F \in [Subs -> Nat] /\ N \in [Subs -> Nat]
            /\ \A t \in Subs \ {s} : N[t] = F[t]
        BY <2>2, <2>4
      <4> HIDE DEF F
      <4>3. SumFunction(N) = SumFunction(F) - F[s] + N[s] BY <4>1, <4>2, SumWithout
      <4> QED BY <4>3 DEF F
    <3>2. SumFunction(m.queued) \in Nat BY <2>2, SumNat, EventHubAssumption
    <3> DEFINE q == SumFunction(m.queued)
               l == m.queued[s]
               u == e.bytes
    <3>3. SumFunction(N) = q - l + (l + u) BY <2>4, <3>1
    <3>4. q \in Nat /\ l \in Nat /\ u \in Nat BY <1>1, <2>2, <3>2
    <3> HIDE DEF q, l, u
    <3>5. SumFunction(N) = q + u BY <3>3, <3>4
    <3> QED BY <2>5, <3>5 DEF q, u
  <2>7. Exact(g, r, D)
    <3>1. g.bytes = Ledger(g) + r
      <4> DEFINE x == SumBytes(m.retained)
                 p == m.pending
                 f == FailureBytes * Len(m.failures)
                 q == SumFunction(m.queued)
                 u == e.bytes
      <4>1. m.bytes = x + p + f + q + r BY <1>2 DEF Keeps, Exact, Ledger
      <4>2. g.bytes = m.bytes + u /\ Ledger(g) = x + p + f + (q + u)
        BY <2>5, <2>6 DEF Ledger
      <4>3. x \in Nat /\ p \in Nat /\ q \in Nat /\ u \in Nat /\ Len(m.failures) \in Nat
        BY <1>1, <2>2, LedgerNat
      <4>4. f \in Nat BY <4>3 DEF FailureBytes
      <4> HIDE DEF x, p, f, q, u
      <4> QED BY <4>1, <4>2, <4>3, <4>4
    <3>2. g.bytes <= room BY <1>5, <2>5 DEF Fits
    <3>3. ASSUME NEW t \in D PROVE g.queued[t] = SumBytes(g.queue[t])
      <4>1. m.queued[t] = SumBytes(m.queue[t]) /\ t \in Subs BY <1>2 DEF Keeps, Exact
      <4>2. SumBytes(Append(m.queue[s], e)) = SumBytes(m.queue[s]) + e.bytes
        BY <2>2, SumBytesAppend
      <4>3. CASE t = s BY <2>3, <2>4, <2>5, <4>1, <4>2, <4>3
      <4>4. CASE t # s BY <2>3, <2>4, <2>5, <4>1, <4>4
      <4> QED BY <4>3, <4>4
    <3> QED BY <2>2, <3>1, <3>2, <3>3 DEF Exact
  <2>8. \A t \in Subs : HasFailure(g, t) <=> HasFailure(m, t) BY <2>5 DEF HasFailure
  <2>9. Ends(g)
    <3>1. ASSUME NEW t \in Subs, g.queue[t] # <<>> PROVE t \in g.live \cup g.cancelled
      <4>1. CASE t = s BY <2>2, <2>5, <4>1
      <4>2. CASE t # s
        <5>1. m.queue[t] # <<>> BY <2>3, <2>5, <3>1, <4>2
        <5> QED BY <1>2, <2>5, <5>1 DEF Keeps, Ends
      <4> QED BY <4>1, <4>2
    <3> QED BY <1>2, <2>5, <2>8, <3>1 DEF Keeps, Ends
  <2>10. \A n \in Nat : TailTo(m, n) => TailTo(g, n) BY <2>5, Zenon DEF TailTo
  <2>11. Same(m, g) BY <2>5, <2>8, <2>10 DEF Same
  <2>12. Same(h, g) BY <1>3, <2>11, SameTransitive
  <2> QED BY <1>3, <2>1, <2>3, <2>5, <2>7, <2>9, <2>12 DEF Keeps
<1> QED BY <1>4, <1>5

\* All offers do so, in whatever order the ranks choose.
LEMMA OfferAllKeeps ==
  ASSUME NEW h, NEW r \in Nat, NEW D \in SUBSET Subs, Keeps(h, r, D),
         NEW e \in Events, NEW rank \in Ranks
  PROVE  /\ Keeps(OfferAll(h, e, rank), r, D) /\ Same(h, OfferAll(h, e, rank))
         /\ \A s \in Subs \ h.live : OfferAll(h, e, rank).queue[s] = h.queue[s]
         /\ \A s \in h.live : \/ OfferAll(h, e, rank).queue[s] = h.queue[s]
                              \/ OfferAll(h, e, rank).queue[s] = Append(h.queue[s], e)
<1> DEFINE S == h.live
           H == {g \in Hub : Keeps(g, r, D) /\ g.live = S}
           pick == [T \in SUBSET S |-> Slowest(h, T, rank)]
           step == [p \in S \X H |-> Offer(p[2], p[1], e)]
           Solution(f) == f = [T \in SUBSET S |->
                                 IF T = {} THEN h
                                 ELSE Offer(f[T \ {Slowest(h, T, rank)}], Slowest(h, T, rank), e)]
           C == CHOOSE f : Solution(f)
<1>1. h \in Hub /\ S \in SUBSET Subs /\ h \in H BY DEF Keeps, Hub
<1>2. IsFiniteSet(S) BY <1>1, EventHubAssumption, FS_Subset
<1>3. \A T \in SUBSET S : T # {} => Slowest(h, T, rank) \in T BY <1>1, SlowestIsOne
<1>4. Picks(pick, S) BY <1>3 DEF Picks
<1>5. step \in [S \X H -> H]
  <2>1. ASSUME NEW p \in S \X H PROVE Offer(p[2], p[1], e) \in H
    <3>1. p[1] \in S /\ p[1] \in Subs /\ Keeps(p[2], r, D) /\ p[2].live = S BY <1>1
    <3>2. Keeps(Offer(p[2], p[1], e), r, D) /\ Same(p[2], Offer(p[2], p[1], e))
      BY <3>1, OfferKeeps
    <3> QED BY <3>1, <3>2 DEF Keeps, Same
  <2> QED BY <2>1
<1>6. PICK f \in [SUBSET S -> H] : Solves(f, S, h, step, pick)
  <2> HIDE DEF H, pick, step, S
  <2> QED BY <1>1, <1>2, <1>4, <1>5, FoldExists, Zenon
<1>7. ASSUME NEW T \in SUBSET S
      PROVE  f[T] = IF T = {} THEN h
                    ELSE Offer(f[T \ {Slowest(h, T, rank)}], Slowest(h, T, rank), e)
  <2>1. CASE T = {} BY <1>6, <2>1 DEF Solves
  <2>2. CASE T # {}
    <3> DEFINE s == Slowest(h, T, rank)
    <3>1. pick[T] = s /\ s \in S /\ f[T \ {s}] \in H BY <1>3, <1>6, <2>2
    <3>2. <<s, f[T \ {s}]>> \in S \X H BY <3>1
    <3>3. step[<<s, f[T \ {s}]>>] = Offer(f[T \ {s}], s, e) BY <3>2
    <3> HIDE DEF step, pick, H, s
    <3>4. f[T] = step[<<s, f[T \ {s}]>>] BY <1>6, <2>2, <3>1 DEF Solves
    <3> QED BY <2>2, <3>3, <3>4 DEF s
  <2> QED BY <2>1, <2>2
<1>8. Solution(f)
  <2>1. f = [T \in SUBSET S |-> f[T]] BY <1>6
  <2> HIDE DEF step
  <2> QED BY ONLY <1>7, <2>1
<1>9. Solution(C) BY <1>8, Zenon
<1>10. OfferAll(h, e, rank) = C[S] BY Zenon DEF OfferAll, MapThenFoldSet
<1>11. \A T \in SUBSET S :
         C[T] = IF T = {} THEN h ELSE Offer(C[T \ {Slowest(h, T, rank)}], Slowest(h, T, rank), e)
  BY <1>9, Zenon
<1> HIDE DEF C
<1> DEFINE Offered(T, g) == /\ Keeps(g, r, D) /\ Same(h, g)
                            /\ \A s \in Subs \ T : g.queue[s] = h.queue[s]
                            /\ \A s \in T : \/ g.queue[s] = h.queue[s]
                                            \/ g.queue[s] = Append(h.queue[s], e)
           G == {T \in SUBSET S : Offered(T, C[T])}
<1>12. ASSUME NEW T \in SUBSET S, \A x \in T : T \ {x} \in G PROVE T \in G
  <2>1. CASE T = {}
    <3>1. C[T] = h BY <1>11, <2>1
    <3>2. Same(h, h) BY DEF Same
    <3> QED BY <2>1, <3>1, <3>2
  <2>2. CASE T # {}
    <3> DEFINE s == Slowest(h, T, rank)
               b == C[T \ {s}]
               g == Offer(b, s, e)
    <3>1. s \in T /\ s \in Subs BY <1>1, <1>3, <2>2
    <3>2. C[T] = g BY <1>11, <2>2
    <3>3. Offered(T \ {s}, b) BY <1>12, <3>1
    <3> HIDE DEF s, b
    <3>4. s \in b.live BY <3>1, <3>3 DEF Same
    <3>5. /\ Keeps(g, r, D) /\ Same(b, g)
          /\ \A t \in Subs \ {s} : g.queue[t] = b.queue[t]
          /\ g.queue[s] = b.queue[s] \/ g.queue[s] = Append(b.queue[s], e)
      BY <3>1, <3>3, <3>4, OfferKeeps
    <3> HIDE DEF g
    <3>6. Same(h, g) BY <3>3, <3>5, SameTransitive
    <3>7. b.queue[s] = h.queue[s] BY <3>1, <3>3
    <3>8. \A t \in Subs \ T : g.queue[t] = h.queue[t] BY <3>1, <3>3, <3>5
    <3>9. ASSUME NEW t \in T PROVE g.queue[t] = h.queue[t] \/ g.queue[t] = Append(h.queue[t], e)
      <4>1. CASE t = s BY <3>5, <3>7, <4>1
      <4>2. CASE t # s BY <1>1, <3>3, <3>5, <4>2
      <4> QED BY <4>1, <4>2
    <3> QED BY <3>2, <3>5, <3>6, <3>8, <3>9
  <2> QED BY <2>1, <2>2
<1>13. S \in G
  <2> HIDE DEF G
  <2> QED BY <1>2, <1>12, SetInduction
<1> QED BY <1>10, <1>13

-------------------------------------------------------------------------------
(***************************************************************************)
(* Who did not get the event is terminated.                                *)
(***************************************************************************)
LEMMA RemoveIs ==
  ASSUME NEW h \in Hub, NEW s \in Subs, NEW g, g = RemoveSubscriber(h, s)
  PROVE  /\ g \in Hub /\ g.live = h.live \ {s}
         /\ g.cancelled = IF s \in h.live THEN h.cancelled \cup {s} ELSE h.cancelled
         /\ g.next = h.next /\ g.retained = h.retained /\ g.pending = h.pending
         /\ g.queue = h.queue /\ g.queued = h.queued /\ g.owed = h.owed
         /\ g.failures = h.failures /\ g.bytes = h.bytes /\ g.overflowed = h.overflowed
<1>1. CASE s \in h.live
  <2>1. g = [h EXCEPT !.live = @ \ {s}, !.cancelled = @ \cup {s}]
    BY <1>1, Zenon DEF RemoveSubscriber
  <2>2. h.live \ {s} \in SUBSET Subs /\ h.cancelled \cup {s} \in SUBSET Subs BY DEF Hub
  <2> QED BY <1>1, <2>1, <2>2 DEF Hub
<1>2. CASE s \notin h.live
  <2>1. g = h BY <1>2, Zenon DEF RemoveSubscriber
  <2>2. h.live \ {s} = h.live BY <1>2
  <2> QED BY <1>2, <2>1, <2>2
<1> QED BY <1>1, <1>2

\* The list of failures is trimmed to its capacity.
LEMMA TrimFailuresKeeps ==
  ASSUME NEW h \in Hub, NEW r \in Nat, NEW D, Exact(h, r, D)
  PROVE  LET g == TrimFailures(h) IN g \in Hub /\ Exact(g, r, D) /\ Less(h, g)
<1>1. CASE Len(h.failures) > FailureCapacity
  <2>1. 0 \in 0..Len(h.retained) /\ 1 \in 0..Len(h.failures)
    BY <1>1, LedgerNat, EventHubAssumption
  <2> QED BY <1>1, <2>1, ShedKeeps DEF TrimFailures
<1>2. CASE ~(Len(h.failures) > FailureCapacity) BY <1>2 DEF TrimFailures, Less
<1> QED BY <1>1, <1>2

\* A failure is recorded for s, or s is owed the snapshot.
Charge(h, s, id) == IF Fits(h, FailureBytes) THEN Failed(h, s, id) ELSE Owed(h, s, id)

\* Charging the ledger changes nothing else.
LEMMA ChargeKeeps ==
  ASSUME NEW h \in Hub, NEW r \in Nat, NEW D, Exact(h, r, D), NEW s \in Subs, NEW id \in Nat,
         NEW g, g = Charge(h, s, id)
  PROVE  /\ g \in Hub /\ Exact(g, r, D)
         /\ g.next = h.next /\ g.pending = h.pending /\ g.retained = h.retained
         /\ g.live = h.live /\ g.cancelled = h.cancelled /\ g.queue = h.queue
         /\ \A t \in Subs \ {s} : /\ g.owed[t] = h.owed[t]
                                  /\ HasFailure(g, t) <=> HasFailure(h, t)
         /\ \/ g.owed[s] = h.owed[s]
            \/ g.owed[s] # None /\ (HasFailure(g, s) <=> HasFailure(h, s))
<1>1. CASE Fits(h, FailureBytes)
  <2> DEFINE x == [sub |-> s, id |-> id]
             F == Append(h.failures, x)
  <2>1. /\ h.failures \in Seq(Failures) /\ h.bytes \in Nat /\ room \in Nat
        /\ Len(h.failures) \in Nat /\ FailureBytes \in Nat
    BY DEF Hub, Exact, FailureBytes
  <2>2. x \in Failures /\ x.sub = s BY DEF Failures
  <2>3. g = [h EXCEPT !.bytes = @ + FailureBytes, !.failures = Append(@, x)]
    BY <1>1 DEF Charge, Failed
  <2>4. /\ F \in Seq(Failures) /\ Len(F) = Len(h.failures) + 1
        /\ \A i \in 1..Len(h.failures) : F[i] = h.failures[i]
        /\ F[Len(h.failures) + 1] = x
    <3> HIDE DEF x
    <3> QED BY <2>1, <2>2, AppendProperties
  <2> HIDE DEF x, F
  <2>5. /\ g \in Hub /\ g.bytes = h.bytes + FailureBytes /\ g.failures = F
        /\ g.next = h.next /\ g.pending = h.pending /\ g.retained = h.retained
        /\ g.live = h.live /\ g.cancelled = h.cancelled /\ g.queue = h.queue
        /\ g.queued = h.queued /\ g.owed = h.owed
    <3>1. g = [h EXCEPT !.bytes = @ + FailureBytes, !.failures = F] BY <2>3 DEF F
    <3>2. h.bytes + FailureBytes \in Nat BY <2>1
    <3> HIDE DEF Failures
    <3> QED BY <2>4, <3>1, <3>2 DEF Hub
  <2>6. ASSUME NEW t \in Subs \ {s} PROVE HasFailure(g, t) <=> HasFailure(h, t)
    <3>1. \A i \in 1..Len(F) : i \in 1..Len(h.failures) \/ i = Len(h.failures) + 1
      BY <2>1, <2>4
    <3>2. 1..Len(h.failures) \subseteq 1..Len(F) BY <2>1, <2>4
    <3>3. F[Len(h.failures) + 1].sub # t BY <2>2, <2>4
    <3>4. ASSUME HasFailure(g, t) PROVE HasFailure(h, t)
      <4>1. PICK i \in 1..Len(F) : F[i].sub = t BY <2>5, <3>4 DEF HasFailure
      <4> QED BY <2>4, <3>1, <3>3, <4>1 DEF HasFailure
    <3>5. ASSUME HasFailure(h, t) PROVE HasFailure(g, t)
      <4>1. PICK i \in 1..Len(h.failures) : h.failures[i].sub = t BY <3>5 DEF HasFailure
      <4> QED BY <2>4, <2>5, <3>2, <4>1 DEF HasFailure
    <3> QED BY <3>4, <3>5
  <2>7. Exact(g, r, D)
    <3>1. /\ FailureBytes * Len(F) = Len(F) + Len(F)
          /\ FailureBytes * Len(h.failures) = Len(h.failures) + Len(h.failures)
      <4>1. Len(F) \in Int /\ Len(h.failures) \in Int BY <2>1, <2>4
      <4> QED BY <4>1, Twice
    <3>2. g.bytes = Ledger(g) + r
      <4> DEFINE a == SumBytes(h.retained)
                 p == h.pending
                 l == Len(h.failures)
                 q == SumFunction(h.queued)
      <4>1. /\ h.bytes = a + p + (l + l) + q + r
            /\ Ledger(g) = a + p + ((l + 1) + (l + 1)) + q
        BY <2>4, <2>5, <3>1 DEF Exact, Ledger
      <4>2. g.bytes = h.bytes + 2 BY <2>5 DEF FailureBytes
      <4>3. a \in Nat /\ p \in Nat /\ q \in Nat /\ l \in Nat BY LedgerNat
      <4> HIDE DEF a, p, l, q
      <4> QED BY <4>1, <4>2, <4>3
    <3>3. g.bytes <= room BY <1>1, <2>5 DEF Fits
    <3> QED BY <2>5, <3>2, <3>3 DEF Exact
  <2> QED BY <2>5, <2>6, <2>7
<1>2. CASE ~Fits(h, FailureBytes)
  <2> DEFINE O == [h.owed EXCEPT ![s] = id]
  <2>1. O \in [Subs -> Nat \cup {None}] /\ O[s] = id /\ \A t \in Subs \ {s} : O[t] = h.owed[t]
    BY DEF Hub
  <2> HIDE DEF O
  <2>2. /\ g \in Hub /\ g.owed = O /\ g.bytes = h.bytes /\ g.failures = h.failures
        /\ g.next = h.next /\ g.pending = h.pending /\ g.retained = h.retained
        /\ g.live = h.live /\ g.cancelled = h.cancelled /\ g.queue = h.queue
        /\ g.queued = h.queued
    <3>1. g = [h EXCEPT !.owed = O] BY <1>2 DEF Charge, Owed, O
    <3> QED BY <2>1, <3>1 DEF Hub
  <2>3. \A t \in Subs : HasFailure(g, t) <=> HasFailure(h, t) BY <2>2 DEF HasFailure
  <2>4. Exact(g, r, D) BY <2>2 DEF Exact, Ledger
  <2>5. id # None BY EventHubAssumption
  <2> QED BY <2>1, <2>2, <2>3, <2>4, <2>5
<1> QED BY <1>1, <1>2

\* What the end of s does: to s, and to nobody else.
Ended(h, g, s) ==
  /\ g.live = h.live \ {s} /\ g.cancelled = h.cancelled \cup {s}
  /\ g.queue = h.queue /\ g.pending = h.pending /\ g.next = h.next
  /\ \A t \in Subs \ {s} : /\ g.owed[t] = h.owed[t]
                           /\ HasFailure(g, t) => HasFailure(h, t)
  /\ \A n \in Nat : TailTo(h, n) => TailTo(g, n)

\* One subscription ends: with a failure recorded, or owed the snapshot.
LEMMA RecordFailureKeeps ==
  ASSUME NEW h \in Hub, NEW r \in Nat, NEW D, Exact(h, r, D), NEW s \in Subs, NEW id \in Nat,
         NEW g, g = RecordFailure(MakeRoom(h, FailureBytes), s, id)
  PROVE  /\ g \in Hub /\ Exact(g, r, D)
         /\ Ends(h) /\ s \in h.live => Ends(g) /\ Ended(h, g, s)
<1> DEFINE m == MakeRoom(h, FailureBytes)
           a == Charge(m, s, id)
           b == RemoveSubscriber(a, s)
<1>1. m \in Hub /\ Exact(m, r, D) /\ Less(h, m) BY ShedUntilKeeps DEF MakeRoom
<1>2. g = TrimFailures(b) BY Zenon DEF RecordFailure, Charge
<1> HIDE DEF m
<1>3. /\ a \in Hub /\ Exact(a, r, D)
      /\ a.next = m.next /\ a.pending = m.pending /\ a.retained = m.retained
      /\ a.live = m.live /\ a.cancelled = m.cancelled /\ a.queue = m.queue
      /\ \A t \in Subs \ {s} : /\ a.owed[t] = m.owed[t]
                               /\ HasFailure(a, t) <=> HasFailure(m, t)
      /\ \/ a.owed[s] = m.owed[s]
         \/ a.owed[s] # None /\ (HasFailure(a, s) <=> HasFailure(m, s))
  BY <1>1, ChargeKeeps
<1> HIDE DEF a
<1>4. /\ b \in Hub /\ b.live = a.live \ {s}
      /\ b.cancelled = IF s \in a.live THEN a.cancelled \cup {s} ELSE a.cancelled
      /\ b.next = a.next /\ b.retained = a.retained /\ b.pending = a.pending
      /\ b.queue = a.queue /\ b.queued = a.queued /\ b.owed = a.owed
      /\ b.failures = a.failures /\ b.bytes = a.bytes
  BY <1>3, RemoveIs
<1> HIDE DEF b
<1>5. Exact(b, r, D) BY <1>3, <1>4 DEF Exact, Ledger
<1>6. g \in Hub /\ Exact(g, r, D) /\ Less(b, g) BY <1>2, <1>4, <1>5, TrimFailuresKeeps
<1>7. \A t \in Subs : HasFailure(b, t) <=> HasFailure(a, t) BY <1>4 DEF HasFailure
<1>8. ASSUME Ends(h), s \in h.live PROVE Ends(g) /\ Ended(h, g, s)
  <2>1. Ends(m) BY <1>1, <1>8, LessEnds
  <2>2. s \in m.live /\ m.live = h.live /\ m.cancelled = h.cancelled /\ m.queue = h.queue
        /\ m.owed = h.owed /\ m.pending = h.pending /\ m.next = h.next
    BY <1>1, <1>8 DEF Less
  <2>3. m.owed[s] = None /\ ~HasFailure(m, s) BY <2>1, <2>2 DEF Ends
  <2>4. b.live = m.live \ {s} /\ b.cancelled = m.cancelled \cup {s} /\ b.queue = m.queue
    BY <1>3, <1>4, <2>2
  <2>5. ASSUME NEW t \in Subs
        PROVE  /\ t \in b.live => b.owed[t] = None
               /\ b.owed[t] # None => t \in b.cancelled /\ ~HasFailure(b, t)
               /\ HasFailure(b, t) => t \in b.cancelled \ b.live
               /\ b.queue[t] # <<>> => t \in b.live \cup b.cancelled
    <3>1. CASE t = s BY <1>3, <1>4, <1>7, <2>3, <2>4, <3>1
    <3>2. CASE t # s
      <4>1. b.owed[t] = m.owed[t] /\ (HasFailure(b, t) <=> HasFailure(m, t))
        BY <1>3, <1>4, <1>7, <3>2
      <4>2. /\ t \in m.live => m.owed[t] = None
            /\ m.owed[t] # None => t \in m.cancelled /\ ~HasFailure(m, t)
            /\ HasFailure(m, t) => t \in m.cancelled \ m.live
            /\ m.queue[t] # <<>> => t \in m.live \cup m.cancelled
        BY <2>1 DEF Ends
      <4> QED BY <2>4, <3>2, <4>1, <4>2
    <3> QED BY <3>1, <3>2
  <2>6. Ends(b) BY <2>5 DEF Ends
  <2>7. Ends(g) BY <1>6, <2>6, LessEnds
  <2>8. \A n \in Nat : TailTo(h, n) => TailTo(g, n)
    <3>1. \A n \in Nat : TailTo(m, n) => TailTo(b, n) BY <1>3, <1>4, ZenonT(40) DEF TailTo
    <3>2. \A n \in Nat : TailTo(b, n) => TailTo(g, n) BY <1>6 DEF Less
    <3>3. \A n \in Nat : TailTo(h, n) => TailTo(m, n) BY <1>1 DEF Less
    <3> QED BY <3>1, <3>2, <3>3
  <2>9. ASSUME NEW t \in Subs \ {s}
        PROVE  /\ g.owed[t] = h.owed[t]
               /\ HasFailure(g, t) => HasFailure(h, t)
    <3>1. g.owed = b.owed /\ (HasFailure(g, t) => HasFailure(b, t)) BY <1>6 DEF Less
    <3>2. HasFailure(m, t) => HasFailure(h, t) BY <1>1 DEF Less
    <3> QED BY <1>3, <1>4, <1>7, <2>2, <3>1, <3>2
  <2>10. /\ g.live = b.live /\ g.cancelled = b.cancelled /\ g.queue = b.queue
         /\ g.pending = b.pending /\ g.next = b.next
    BY <1>6 DEF Less
  <2> QED BY <1>3, <1>4, <2>2, <2>4, <2>7, <2>8, <2>9, <2>10 DEF Ended
<1> QED BY <1>6, <1>8

\* What the publication of e does to the subscriptions: those that stay have e queued.
Dispatches(h, g, e) ==
  /\ Evolves(h, g) /\ g.pending = h.pending /\ g.next = h.next
  /\ \A n \in Nat : TailTo(h, n) => TailTo(g, n)
  /\ \A s \in g.live : g.queue[s] = Append(h.queue[s], e)

\* T of the subscribers to be terminated were.
Terminated(h, g, T) ==
  /\ g.live = h.live \ T /\ g.cancelled = h.cancelled \cup T
  /\ g.queue = h.queue /\ g.pending = h.pending /\ g.next = h.next
  /\ \A t \in Subs \ T : /\ g.owed[t] = h.owed[t]
                         /\ HasFailure(g, t) => HasFailure(h, t)
  /\ \A n \in Nat : TailTo(h, n) => TailTo(g, n)

\* All who did not get the event end.
LEMMA TerminateKeeps ==
  ASSUME NEW f \in Hub, NEW h, NEW r \in Nat, NEW D, Keeps(h, r, D), h.live = f.live,
         NEW e \in Events, NEW rank \in Ranks
  PROVE  LET S == {s \in f.live : h.queue[s] = f.queue[s]}
             g == Terminate(f, h, e, rank)
         IN  Keeps(g, r, D) /\ Terminated(h, g, S)
<1> DEFINE S == {s \in f.live : h.queue[s] = f.queue[s]}
           Do(g, s) == RecordFailure(MakeRoom(g, FailureBytes), s, e.id)
           H == {g \in Hub : Exact(g, r, D)}
           pick == [T \in SUBSET S |-> Slowest(f, T, rank)]
           step == [p \in S \X H |-> Do(p[2], p[1])]
           Solution(c) == c = [T \in SUBSET S |->
                                 IF T = {} THEN h
                                 ELSE Do(c[T \ {Slowest(f, T, rank)}], Slowest(f, T, rank))]
           C == CHOOSE c : Solution(c)
<1>1. S \in SUBSET Subs /\ h \in H /\ S \subseteq h.live /\ e.id \in Nat
  BY DEF Keeps, Hub, Events
<1>10. Terminate(f, h, e, rank) = C[S] BY Zenon DEF Terminate, MapThenFoldSet
<1>2. IsFiniteSet(S) BY <1>1, EventHubAssumption, FS_Subset
<1>3. \A T \in SUBSET S : T # {} => Slowest(f, T, rank) \in T BY <1>1, SlowestIsOne
<1>14. \A g \in H, s \in Subs :
         /\ Do(g, s) \in Hub /\ Exact(Do(g, s), r, D)
         /\ Ends(g) /\ s \in g.live =>
              Ends(Do(g, s)) /\ Ended(g, Do(g, s), s)
  BY <1>1, RecordFailureKeeps
<1> HIDE DEF Do
<1>4. Picks(pick, S) BY <1>3 DEF Picks
<1>5. step \in [S \X H -> H]
  <2>1. ASSUME NEW p \in S \X H PROVE Do(p[2], p[1]) \in H
    <3>1. p[1] \in Subs /\ p[2] \in H BY <1>1
    <3>2. Do(p[2], p[1]) \in Hub /\ Exact(Do(p[2], p[1]), r, D)
      <4> HIDE DEF H
      <4> QED BY <1>14, <3>1
    <3> QED BY <3>2
  <2> HIDE DEF H, S
  <2> QED BY <2>1
<1>6. PICK c \in [SUBSET S -> H] : Solves(c, S, h, step, pick)
  <2> HIDE DEF H, pick, step, S
  <2> QED BY <1>1, <1>2, <1>4, <1>5, FoldExists, Zenon
<1>15. h \in H BY <1>1
<1> HIDE DEF S, H
<1>7. ASSUME NEW T \in SUBSET S
      PROVE  c[T] = IF T = {} THEN h
                    ELSE Do(c[T \ {Slowest(f, T, rank)}], Slowest(f, T, rank))
  <2>1. CASE T = {} BY <1>6, <2>1 DEF Solves
  <2>2. CASE T # {}
    <3> DEFINE s == Slowest(f, T, rank)
    <3>1. pick[T] = s /\ s \in S /\ c[T \ {s}] \in H BY <1>3, <1>6, <2>2
    <3>2. <<s, c[T \ {s}]>> \in S \X H BY <3>1
    <3>3. step[<<s, c[T \ {s}]>>] = Do(c[T \ {s}], s) BY <3>2
    <3> HIDE DEF step, pick, s
    <3>4. c[T] = step[<<s, c[T \ {s}]>>] BY <1>6, <2>2, <3>1 DEF Solves
    <3> QED BY <2>2, <3>3, <3>4 DEF s
  <2> QED BY <2>1, <2>2
<1>8. Solution(c)
  <2>1. c = [T \in SUBSET S |-> c[T]] BY <1>6
  <2> HIDE DEF step
  <2> QED BY ONLY <1>7, <2>1
<1>9. Solution(C) BY <1>8, Zenon
<1>11. \A T \in SUBSET S :
         C[T] = IF T = {} THEN h ELSE Do(C[T \ {Slowest(f, T, rank)}], Slowest(f, T, rank))
  BY <1>9, Zenon
<1> HIDE DEF C
<1> DEFINE G == {T \in SUBSET S : Keeps(C[T], r, D) /\ Terminated(h, C[T], T)}
<1>12. ASSUME NEW T \in SUBSET S, \A x \in T : T \ {x} \in G PROVE T \in G
  <2>1. CASE T = {}
    <3>1. C[T] = h BY <1>11, <2>1
    <3>2. Terminated(h, h, {}) BY DEF Terminated
    <3> QED BY <2>1, <3>1, <3>2
  <2>2. CASE T # {}
    <3> DEFINE s == Slowest(f, T, rank)
               b == C[T \ {s}]
               g == Do(b, s)
    <3>1. s \in T /\ s \in Subs BY <1>1, <1>3, <2>2
    <3>2. C[T] = g BY <1>11, <2>2
    <3>3. Keeps(b, r, D) /\ Terminated(h, b, T \ {s}) BY <1>12, <3>1
    <3> HIDE DEF s, b
    <3>4. s \in b.live /\ b \in H BY <1>1, <3>1, <3>3 DEF Terminated, Keeps, H
    <3>5. Keeps(g, r, D) /\ Ended(b, g, s)
      <4>1. Ends(b) BY <3>3 DEF Keeps
      <4>2. g \in Hub /\ Exact(g, r, D) /\ Ends(g) /\ Ended(b, g, s)
        BY <1>14, <3>1, <3>4, <4>1
      <4> QED BY <4>2 DEF Keeps
    <3> HIDE DEF g
    <3>6. Terminated(h, g, T)
      <4>1. g.live = h.live \ T /\ g.cancelled = h.cancelled \cup T
        BY <3>1, <3>3, <3>5 DEF Terminated, Ended
      <4>2. g.queue = h.queue /\ g.pending = h.pending /\ g.next = h.next
        BY <3>3, <3>5 DEF Terminated, Ended
      <4>3. ASSUME NEW t \in Subs \ T
            PROVE  g.owed[t] = h.owed[t] /\ (HasFailure(g, t) => HasFailure(h, t))
        BY <3>1, <3>3, <3>5 DEF Terminated, Ended
      <4>4. \A n \in Nat : TailTo(h, n) => TailTo(g, n)
        BY <3>3, <3>5 DEF Terminated, Ended
      <4> QED BY <4>1, <4>2, <4>3, <4>4 DEF Terminated
    <3> QED BY <3>2, <3>5, <3>6
  <2> QED BY <2>1, <2>2
<1>13. S \in G
  <2> HIDE DEF G
  <2> QED BY <1>2, <1>12, SetInduction
<1> QED BY <1>10, <1>13 DEF S

\* Who stays after a dispatch has the event queued.
LEMMA DispatchLiveKeeps ==
  ASSUME NEW h, NEW r \in Nat, NEW D \in SUBSET Subs, Keeps(h, r, D),
         NEW e \in Events, NEW rank \in Ranks
  PROVE  /\ Keeps(DispatchLive(h, e, rank), r, D)
         /\ Dispatches(h, DispatchLive(h, e, rank), e)
<1> DEFINE o == OfferAll(h, e, rank)
           g == Terminate(h, o, e, rank)
           S == {s \in h.live : o.queue[s] = h.queue[s]}
<1>1. h \in Hub /\ h.live \subseteq Subs BY DEF Keeps, Hub
<1>2. /\ Keeps(o, r, D) /\ Same(h, o)
      /\ \A s \in Subs \ h.live : o.queue[s] = h.queue[s]
      /\ \A s \in h.live : o.queue[s] = h.queue[s] \/ o.queue[s] = Append(h.queue[s], e)
  BY OfferAllKeeps
<1>3. g = DispatchLive(h, e, rank) BY DEF DispatchLive
<1> HIDE DEF o
<1>4. o.live = h.live BY <1>2 DEF Same
<1>5. Keeps(g, r, D) /\ Terminated(o, g, S) BY <1>1, <1>2, <1>4, TerminateKeeps
<1> HIDE DEF g
<1>6. \A s \in h.live \ S : o.queue[s] = Append(h.queue[s], e) BY <1>2
<1>7. S \subseteq h.live OBVIOUS
<1> HIDE DEF S
<1>8. Evolves(h, g)
  <2>1. g.live = h.live \ S /\ g.cancelled = h.cancelled \cup S
    BY <1>2, <1>5 DEF Terminated, Same
  <2>2. h.live \ (h.live \ S) = S BY <1>7
  <2>3. ASSUME NEW s \in Subs \ h.live
        PROVE  /\ g.queue[s] = h.queue[s] /\ g.owed[s] = h.owed[s]
               /\ HasFailure(g, s) => HasFailure(h, s)
    <3>1. s \in Subs \ S BY <1>7
    <3>2. /\ g.queue[s] = o.queue[s] /\ g.owed[s] = o.owed[s]
          /\ HasFailure(g, s) => HasFailure(o, s)
      BY <1>5, <3>1 DEF Terminated
    <3> QED BY <1>2, <3>2 DEF Same
  <2> QED BY <2>1, <2>2, <2>3 DEF Evolves
<1>9. \A n \in Nat : TailTo(h, n) => TailTo(g, n) BY <1>2, <1>5 DEF Same, Terminated
<1>10. g.pending = h.pending /\ g.next = h.next BY <1>2, <1>5 DEF Same, Terminated
<1>11. \A s \in g.live : g.queue[s] = Append(h.queue[s], e)
  BY <1>4, <1>5, <1>6 DEF Terminated
<1> QED BY <1>3, <1>5, <1>8, <1>9, <1>10, <1>11 DEF Dispatches

-------------------------------------------------------------------------------
(***************************************************************************)
(* Publishing.                                                             *)
(***************************************************************************)
\* The queue of a subscriber in X holds the events after base[s], up to event n.
Follows(h, X, base, n) ==
  \A s \in h.live \cap X :
    /\ \A i \in 1..Len(h.queue[s]) :
         h.queue[s][i].id = base[s] + i /\ ~h.queue[s][i].snapshot
    /\ base[s] + Len(h.queue[s]) = n

Sound(h, r, D, X, base) ==
  Keeps(h, r, D) /\ TailTo(h, h.next - 1) /\ Follows(h, X, base, h.next - 1)

\* What a fold over the subscribers leaves follows from what was there.
LEMMA EvolvesFollows ==
  ASSUME NEW h, NEW g, Evolves(h, g), g.queue = h.queue, NEW X, NEW base, NEW n,
         Follows(h, X, base, n)
  PROVE  Follows(g, X, base, n)
BY DEF Evolves, Follows

\* A dispatch keeps the queues in step with the history.
LEMMA DispatchFollows ==
  ASSUME NEW h \in Hub, NEW g, NEW e \in Events, ~e.snapshot, Dispatches(h, g, e),
         NEW X, NEW base \in [Subs -> Nat], NEW n \in Nat, n = e.id - 1, Follows(h, X, base, n)
  PROVE  Follows(g, X, base, e.id)
<1>1. ASSUME NEW s \in g.live \cap X
      PROVE  /\ \A i \in 1..Len(g.queue[s]) :
                  g.queue[s][i].id = base[s] + i /\ ~g.queue[s][i].snapshot
             /\ base[s] + Len(g.queue[s]) = e.id
  <2> DEFINE q == h.queue[s]
             k == g.queue[s]
             b == base[s]
  <2>1. s \in h.live \cap X /\ s \in Subs /\ k = Append(q, e) /\ q \in Seq(Events)
    BY DEF Dispatches, Evolves, Hub
  <2>2. /\ \A i \in 1..Len(q) : q[i].id = b + i /\ ~q[i].snapshot
        /\ b + Len(q) = n
    BY <2>1 DEF Follows
  <2>3. b \in Nat /\ Len(q) \in Nat /\ e.id \in Nat BY <2>1 DEF Events
  <2> HIDE DEF q, k, b
  <2>4. /\ Len(k) = Len(q) + 1 /\ k[Len(q) + 1] = e
        /\ \A i \in 1..Len(q) : k[i] = q[i]
    BY <2>1, AppendProperties
  <2>5. b + (Len(q) + 1) = e.id
    <3> DEFINE l == Len(q)
               m == e.id
    <3>1. b + l = m - 1 /\ b \in Nat /\ l \in Nat /\ m \in Nat BY <2>2, <2>3
    <3> HIDE DEF l, m
    <3>2. b + (l + 1) = m BY ONLY <3>1
    <3> QED BY <3>2 DEF l, m
  <2>6. ASSUME NEW i \in 1..Len(k) PROVE k[i].id = b + i /\ ~k[i].snapshot
    <3>1. i \in 1..Len(q) \/ i = Len(q) + 1 BY <2>3, <2>4
    <3> QED BY <2>2, <2>4, <2>5, <3>1
  <2> QED BY <2>4, <2>5, <2>6 DEF k, b
<1> QED BY <1>1 DEF Follows

\* A dispatch of the last event: h is sound but for the queues, which miss it.
LEMMA DispatchSound ==
  ASSUME NEW h, NEW r \in Nat, NEW D \in SUBSET Subs, Keeps(h, r, D),
         NEW e \in Events, ~e.snapshot, NEW X, NEW base \in [Subs -> Nat],
         NEW n \in Nat, n = e.id - 1, Follows(h, X, base, n), NEW rank \in Ranks
  PROVE  LET g == DispatchLive(h, e, rank)
         IN  /\ Keeps(g, r, D) /\ Follows(g, X, base, e.id) /\ Evolves(h, g)
             /\ g.next = h.next /\ \A m \in Nat : TailTo(h, m) => TailTo(g, m)
<1>1. h \in Hub BY DEF Keeps
<1>2. Keeps(DispatchLive(h, e, rank), r, D) /\ Dispatches(h, DispatchLive(h, e, rank), e)
  BY DispatchLiveKeeps
<1>3. Follows(DispatchLive(h, e, rank), X, base, e.id) BY <1>1, <1>2, DispatchFollows
<1> QED BY <1>2, <1>3, Zenon DEF Dispatches

\* dispatch keeps what the hub is.
LEMMA AfterDispatchSound ==
  ASSUME NEW h, NEW r \in Nat, NEW D \in SUBSET Subs, NEW e \in Events,
         NEW X, NEW base \in [Subs -> Nat], NEW rank \in Ranks, NEW appended,
         Sound(h, r, D, X, base), h.next = e.id + 1
  PROVE  LET g == AfterDispatch(appended, h, e, rank)
         IN  Sound(g, r, D, X, base) /\ Evolves(h, g)
<1> DEFINE w == Warn(h, FALSE, rank)
           x == Event(e.id + 1, 0)
           g == DispatchLive(w, x, rank)
<1>1. CASE ~appended.overflowed /\ h.overflowed
  <2>1. AfterDispatch(appended, h, e, rank) = g BY <1>1 DEF AfterDispatch
  <2>2. h.live \subseteq Subs /\ h.next \in Nat /\ e.id \in Nat /\ h.next - 1 \in Nat
    BY DEF Sound, Keeps, Hub, Events
  <2>3. Keeps(w, r, D) /\ Appends(h, w) BY WarnKeeps DEF Sound
  <2> HIDE DEF w
  <2>4. x \in Events /\ ~x.snapshot /\ x.id = e.id + 1
    <3>1. e.id + 1 \in Nat /\ 0 \in Nat BY <2>2
    <3> QED BY <3>1, EventIs
  <2> HIDE DEF x
  <2>5. Follows(w, X, base, h.next - 1) BY <2>3, EvolvesFollows DEF Sound, Appends
  <2>6. h.next - 1 = x.id - 1 /\ x.id = w.next - 1 /\ x.id = h.next
    BY <2>2, <2>3, <2>4 DEF Appends
  <2>7. /\ Keeps(g, r, D) /\ Follows(g, X, base, x.id) /\ Evolves(w, g)
        /\ g.next = w.next /\ \A m \in Nat : TailTo(w, m) => TailTo(g, m)
    BY <2>2, <2>3, <2>4, <2>5, <2>6, DispatchSound
  <2> HIDE DEF g
  <2>8. TailTo(g, x.id) BY <2>2, <2>3, <2>6, <2>7 DEF Appends
  <2>9. Evolves(h, g) BY <2>2, <2>3, <2>7, EvolvesTransitive DEF Appends
  <2> QED BY <2>1, <2>6, <2>7, <2>8, <2>9 DEF Sound
<1>2. CASE ~(~appended.overflowed /\ h.overflowed)
  <2>1. AfterDispatch(appended, h, e, rank) = h BY <1>2 DEF AfterDispatch
  <2> QED BY <2>1 DEF Evolves
<1> QED BY <1>1, <1>2

\* A publication, with the warnings it may cause, keeps the hub sound.
LEMMA EmitEventSound ==
  ASSUME NEW h, NEW r \in Nat, NEW c \in Nat, NEW D \in SUBSET Subs,
         NEW e \in Events, c <= e.bytes, ~e.snapshot, e.id = h.next,
         NEW X, NEW base \in [Subs -> Nat], NEW rank \in Ranks,
         Sound(h, r + c, D, X, base)
  PROVE  LET g == EmitEvent(h, e, c, rank)
         IN  Sound(g, r, D, X, base) /\ Evolves(h, g)
<1> DEFINE a == AppendLog(h, e, c, rank)
<1>1. /\ h.live \subseteq Subs /\ h.next \in Nat /\ h.next - 1 \in Nat /\ e.id \in Nat
      /\ e.id - 1 \in Nat
  BY DEF Sound, Keeps, Hub, Events
<1>2. Keeps(a, r, D) /\ Appends(h, a) BY AppendLogKeeps DEF Sound
<1>3. EmitEvent(h, e, c, rank) = AfterAppend(h, a, e, rank) BY DEF EmitEvent
<1> HIDE DEF a
<1>4. /\ a.next = e.id + 1 /\ TailTo(a, e.id) /\ Evolves(h, a) /\ a.live \subseteq Subs
      /\ Follows(a, X, base, e.id - 1)
  BY <1>1, <1>2, EvolvesFollows DEF Sound, Appends, Keeps, Hub
<1>5. CASE ~h.overflowed /\ a.overflowed
  <2> DEFINE w == Warn(a, TRUE, rank)
             d == DispatchLive(w, e, rank)
             x == Event(e.id + 1, 0)
             g == DispatchLive(d, x, rank)
  <2>1. AfterAppend(h, a, e, rank) = g BY <1>5 DEF AfterAppend
  <2>2. a.next - 1 = e.id BY <1>1, <1>4
  <2>3. Keeps(w, r, D) /\ Appends(a, w) BY <1>2, <1>4, <2>2, WarnKeeps
  <2>4. x \in Events /\ ~x.snapshot /\ x.id = e.id + 1
    <3>1. e.id + 1 \in Nat /\ 0 \in Nat BY <1>1
    <3> QED BY <3>1, EventIs
  <2> HIDE DEF w, x
  <2>5. Follows(w, X, base, e.id - 1) BY <1>4, <2>3, EvolvesFollows DEF Appends
  <2>6. /\ w.next = e.id + 2 /\ TailTo(w, e.id + 1) /\ Evolves(a, w) /\ w.live \subseteq Subs
    BY <1>1, <1>4, <2>3 DEF Appends, Keeps, Hub
  <2>7. /\ Keeps(d, r, D) /\ Follows(d, X, base, e.id) /\ Evolves(w, d)
        /\ d.next = w.next /\ \A m \in Nat : TailTo(w, m) => TailTo(d, m)
    BY <1>1, <2>3, <2>5, DispatchSound
  <2> HIDE DEF d
  <2>8. e.id = x.id - 1 BY <1>1, <2>4
  <2>9. /\ Keeps(g, r, D) /\ Follows(g, X, base, x.id) /\ Evolves(d, g)
        /\ g.next = d.next /\ \A m \in Nat : TailTo(d, m) => TailTo(g, m)
    BY <1>1, <2>4, <2>7, <2>8, DispatchSound
  <2> HIDE DEF g
  <2>10. g.next - 1 = e.id + 1 /\ x.id = e.id + 1 /\ e.id + 1 \in Nat
    BY <1>1, <2>4, <2>6, <2>7, <2>9
  <2>11. TailTo(g, e.id + 1) BY <2>6, <2>7, <2>9, <2>10
  <2>12. Evolves(h, w) BY <1>1, <1>4, <2>6, EvolvesTransitive
  <2>13. Evolves(h, d) BY <1>1, <2>7, <2>12, EvolvesTransitive
  <2>14. Evolves(h, g) BY <1>1, <2>9, <2>13, EvolvesTransitive
  <2> QED BY <1>3, <2>1, <2>9, <2>10, <2>11, <2>14 DEF Sound
<1>6. CASE ~(~h.overflowed /\ a.overflowed)
  <2> DEFINE d == DispatchLive(a, e, rank)
             g == AfterDispatch(a, d, e, rank)
  <2>1. AfterAppend(h, a, e, rank) = g BY <1>6 DEF AfterAppend
  <2>2. /\ Keeps(d, r, D) /\ Follows(d, X, base, e.id) /\ Evolves(a, d)
        /\ d.next = a.next /\ \A m \in Nat : TailTo(a, m) => TailTo(d, m)
    BY <1>1, <1>2, <1>4, DispatchSound
  <2> HIDE DEF d
  <2>3. d.next - 1 = e.id /\ d.next = e.id + 1 BY <1>1, <1>4, <2>2
  <2>4. Sound(d, r, D, X, base) BY <1>1, <1>4, <2>2, <2>3 DEF Sound
  <2>5. Sound(g, r, D, X, base) /\ Evolves(d, g) BY <2>3, <2>4, AfterDispatchSound
  <2> HIDE DEF g
  <2>6. Evolves(h, d) BY <1>1, <1>4, <2>2, EvolvesTransitive
  <2>7. Evolves(h, g) BY <1>1, <2>5, <2>6, EvolvesTransitive
  <2> QED BY <1>3, <2>1, <2>5, <2>7
<1> QED BY <1>5, <1>6

\* emit keeps what the hub is.
LEMMA EmitSound ==
  ASSUME NEW h, NEW r \in Nat, NEW c \in Nat, NEW D \in SUBSET Subs,
         NEW payload \in Nat, c <= 1 + payload,
         NEW X, NEW base \in [Subs -> Nat], NEW rank \in Ranks,
         Sound(h, r + c, D, X, base)
  PROVE  LET g == Emit(h, payload, c, rank)
         IN  Sound(g, r, D, X, base) /\ Evolves(h, g)
<1> DEFINE e == Event(h.next, payload)
<1>1. h.next \in Nat BY DEF Sound, Keeps, Hub
<1>2. e \in Events /\ ~e.snapshot /\ e.id = h.next /\ c <= e.bytes BY <1>1, EventIs
<1>3. Emit(h, payload, c, rank) = EmitEvent(h, e, c, rank) BY DEF Emit
<1> HIDE DEF e
<1>4. Sound(EmitEvent(h, e, c, rank), r, D, X, base) /\ Evolves(h, EmitEvent(h, e, c, rank))
  BY <1>2, EmitEventSound
<1> QED BY ONLY <1>3, <1>4

\* A batch is published in the place of the rows it holds.
LEMMA FlushSound ==
  ASSUME NEW h, NEW r \in Nat, NEW D \in SUBSET Subs,
         NEW X, NEW base \in [Subs -> Nat], NEW rank \in Ranks, Sound(h, r, D, X, base)
  PROVE  Sound(Flush(h, rank), r, D, X, base) /\ Evolves(h, Flush(h, rank))
<1>1. CASE h.pending = 0
  <2>1. Flush(h, rank) = h BY <1>1 DEF Flush
  <2> QED BY <2>1 DEF Evolves
<1>2. CASE h.pending # 0
  <2> DEFINE f == [h EXCEPT !.pending = 0]
             c == h.pending
             g == Emit(f, c, c, rank)
  <2>1. Flush(h, rank) = g BY <1>2 DEF Flush
  <2>2. h \in Hub /\ c \in Nat /\ h.live \subseteq Subs BY DEF Sound, Keeps, Hub
  <2>3. /\ f \in Hub /\ f.next = h.next /\ f.retained = h.retained /\ f.pending = 0
        /\ f.live = h.live /\ f.cancelled = h.cancelled /\ f.queue = h.queue
        /\ f.queued = h.queued /\ f.owed = h.owed /\ f.failures = h.failures
        /\ f.bytes = h.bytes
    BY <2>2 DEF Hub
  <2> HIDE DEF f
  <2>4. \A s \in Subs : HasFailure(f, s) <=> HasFailure(h, s) BY <2>3 DEF HasFailure
  <2>5. Exact(f, r + c, D)
    <3>1. h.bytes = Ledger(h) + r BY DEF Sound, Keeps, Exact
    <3>2. Ledger(h) + r = Ledger(f) + (r + c)
      <4> DEFINE a == SumBytes(h.retained)
                 l == FailureBytes * Len(h.failures)
                 q == SumFunction(h.queued)
      <4>1. a \in Nat /\ q \in Nat /\ Len(h.failures) \in Nat BY <2>2, LedgerNat
      <4>2. l \in Nat BY <4>1 DEF FailureBytes
      <4>3. Ledger(h) = a + c + l + q /\ Ledger(f) = a + 0 + l + q BY <2>3 DEF Ledger
      <4> HIDE DEF a, l, q, c
      <4> QED BY <2>2, <4>1, <4>2, <4>3
    <3> QED BY <2>3, <3>1, <3>2 DEF Sound, Keeps, Exact
  <2>6. Ends(f) BY <2>3, <2>4 DEF Sound, Keeps, Ends
  <2>7. Evolves(h, f) BY <2>3, <2>4 DEF Evolves
  <2>8. Sound(f, r + c, D, X, base)
    <3>1. Keeps(f, r + c, D) BY <2>3, <2>5, <2>6 DEF Keeps
    <3>2. TailTo(f, f.next - 1) BY <2>3, Zenon DEF Sound, TailTo
    <3>3. Follows(f, X, base, f.next - 1) BY <2>3, <2>7, EvolvesFollows DEF Sound
    <3> QED BY <3>1, <3>2, <3>3 DEF Sound
  <2>9. c <= 1 + c BY <2>2
  <2> HIDE DEF c
  <2>10. Sound(g, r, D, X, base) /\ Evolves(f, g) BY <2>2, <2>8, <2>9, EmitSound
  <2> HIDE DEF g
  <2>11. Evolves(h, g) BY <2>2, <2>7, <2>10, EvolvesTransitive
  <2> QED BY <2>1, <2>10, <2>11
<1> QED BY <1>1, <1>2

\* An operation that publishes nothing keeps the hub sound.
LEMMA QuietSound ==
  ASSUME NEW h, NEW g, NEW r, NEW D, NEW X, NEW base, Sound(h, r, D, X, base),
         Keeps(g, r, D), Quiet(h, g), TailTo(g, h.next - 1)
  PROVE  Sound(g, r, D, X, base)
BY EvolvesFollows DEF Sound, Quiet

\* Making room in the ledger keeps what the hub is.
LEMMA MakeRoomSound ==
  ASSUME NEW h, NEW r \in Nat, NEW D, NEW X, NEW base, Sound(h, r, D, X, base), NEW n \in Nat
  PROVE  Sound(MakeRoom(h, n), r, D, X, base) /\ Evolves(h, MakeRoom(h, n))
<1>1. Keeps(MakeRoom(h, n), r, D) /\ Less(h, MakeRoom(h, n)) BY MakeRoomKeeps DEF Sound
<1>2. h.next - 1 \in Nat BY DEF Sound, Keeps, Hub
<1>3. TailTo(MakeRoom(h, n), h.next - 1) BY <1>1, <1>2, TailToLess DEF Sound
<1> QED BY <1>1, <1>3, LessQuiet, LessEvolves, QuietSound

\* Ending the slowest subscriber keeps what the hub is.
LEMMA TerminateSlowestSound ==
  ASSUME NEW h, NEW r \in Nat, NEW D, NEW X, NEW base, Sound(h, r, D, X, base), NEW rank \in Ranks
  PROVE  Sound(TerminateSlowest(h, rank), r, D, X, base) /\ Evolves(h, TerminateSlowest(h, rank))
<1> DEFINE g == TerminateSlowest(h, rank)
<1>1. Keeps(g, r, D) /\ Quiet(h, g) /\ g.retained = h.retained
  BY TerminateSlowestKeeps DEF Sound
<1> HIDE DEF g
<1>2. TailTo(g, h.next - 1) BY <1>1, Zenon DEF Sound, TailTo
<1>3. Sound(g, r, D, X, base) /\ Evolves(h, g) BY <1>1, <1>2, QuietSound DEF Quiet
<1> QED BY <1>3 DEF g

\* Adding a row to the batch keeps what the hub is.
LEMMA AddRowSound ==
  ASSUME NEW h, NEW r \in Nat, NEW D \in SUBSET Subs,
         NEW X, NEW base \in [Subs -> Nat], NEW rank \in Ranks, Sound(h, r, D, X, base)
  PROVE  Sound(AddRow(h, rank), r, D, X, base) /\ Evolves(h, AddRow(h, rank))
<1>0. h \in Hub /\ h.live \subseteq Subs /\ h.pending \in Nat /\ h.bytes \in Nat
  BY DEF Sound, Keeps, Hub
<1>1. CASE ~Fits(h, 1)
  <2> DEFINE f == TerminateSlowest(h, rank)
             k == Flush(f, rank)
             g == Emit(k, 1, 0, rank)
  <2>1. AddRow(h, rank) = g BY <1>1 DEF AddRow
  <2>2. Sound(f, r, D, X, base) /\ Evolves(h, f) BY TerminateSlowestSound
  <2> HIDE DEF f
  <2>3. Sound(k, r, D, X, base) /\ Evolves(f, k) BY <2>2, FlushSound
  <2> HIDE DEF k
  <2>4. Sound(k, r + 0, D, X, base) /\ 0 \in Nat /\ 1 \in Nat /\ 0 <= 1 + 1
    <3>1. r + 0 = r OBVIOUS
    <3> QED BY <2>3, <3>1
  <2>5. Sound(g, r, D, X, base) /\ Evolves(k, g) BY <2>4, EmitSound
  <2> HIDE DEF g
  <2>6. Evolves(h, k) BY <1>0, <2>2, <2>3, EvolvesTransitive
  <2>7. Evolves(h, g) BY <1>0, <2>5, <2>6, EvolvesTransitive
  <2> QED BY <2>1, <2>5, <2>7
<1>2. CASE Fits(h, 1)
  <2> DEFINE f == [h EXCEPT !.bytes = @ + 1, !.pending = @ + 1]
  <2>1. AddRow(h, rank) = IF h.pending + 1 < BatchSize THEN f ELSE Flush(f, rank)
    BY <1>2 DEF AddRow
  <2>2. h.pending + 1 \in Nat /\ h.bytes + 1 \in Nat BY <1>0
  <2>3. /\ f \in Hub /\ f.next = h.next /\ f.retained = h.retained /\ f.pending = h.pending + 1
        /\ f.live = h.live /\ f.cancelled = h.cancelled /\ f.queue = h.queue
        /\ f.queued = h.queued /\ f.owed = h.owed /\ f.failures = h.failures
        /\ f.bytes = h.bytes + 1
    BY <1>0, <2>2 DEF Hub
  <2> HIDE DEF f
  <2>4. \A s \in Subs : HasFailure(f, s) <=> HasFailure(h, s) BY <2>3 DEF HasFailure
  <2>5. Exact(f, r, D)
    <3>1. h.bytes = Ledger(h) + r BY DEF Sound, Keeps, Exact
    <3>2. h.bytes + 1 = Ledger(f) + r
      <4> DEFINE a == SumBytes(h.retained)
                 l == FailureBytes * Len(h.failures)
                 q == SumFunction(h.queued)
                 p == h.pending
      <4>1. a \in Nat /\ q \in Nat /\ Len(h.failures) \in Nat BY <1>0, LedgerNat
      <4>2. l \in Nat BY <4>1 DEF FailureBytes
      <4>3. Ledger(h) = a + p + l + q /\ Ledger(f) = a + (p + 1) + l + q BY <2>3 DEF Ledger
      <4>4. p \in Nat BY <1>0
      <4> HIDE DEF a, l, q, p
      <4> QED BY <3>1, <4>1, <4>2, <4>3, <4>4
    <3>3. f.bytes <= room BY <1>2, <2>3 DEF Fits
    <3> QED BY <2>3, <3>2, <3>3 DEF Sound, Keeps, Exact
  <2>6. Ends(f) BY <2>3, <2>4 DEF Sound, Keeps, Ends
  <2>7. Evolves(h, f) BY <2>3, <2>4 DEF Evolves
  <2>8. Sound(f, r, D, X, base)
    <3>1. Keeps(f, r, D) BY <2>3, <2>5, <2>6 DEF Keeps
    <3>2. TailTo(f, f.next - 1) BY <2>3, Zenon DEF Sound, TailTo
    <3>3. Follows(f, X, base, f.next - 1) BY <2>3, <2>7, EvolvesFollows DEF Sound
    <3> QED BY <3>1, <3>2, <3>3 DEF Sound
  <2>9. Sound(Flush(f, rank), r, D, X, base) /\ Evolves(f, Flush(f, rank)) BY <2>8, FlushSound
  <2>10. Evolves(h, Flush(f, rank)) BY <1>0, <2>7, <2>9, EvolvesTransitive
  <2> QED BY <2>1, <2>7, <2>8, <2>9, <2>10
<1> QED BY <1>1, <1>2

\* push_capture keeps the hub sound.
LEMMA PushSound ==
  ASSUME NEW h, NEW r \in Nat, NEW D \in SUBSET Subs, NEW X, NEW base \in [Subs -> Nat],
         NEW rank \in Ranks, NEW turned \in BOOLEAN, Sound(h, r, D, X, base)
  PROVE  Sound(Push(h, turned, rank), r, D, X, base) /\ Evolves(h, Push(h, turned, rank))
<1> DEFINE f == IF turned THEN Flush(h, rank) ELSE h
           m == MakeRoom(f, 1)
           g == AddRow(m, rank)
<1>0. h.live \subseteq Subs BY DEF Sound, Keeps, Hub
<1>1. Sound(f, r, D, X, base) /\ Evolves(h, f)
  <2>1. CASE turned BY <2>1, FlushSound
  <2>2. CASE ~turned BY <2>2 DEF Evolves
  <2> QED BY <2>1, <2>2
<1> HIDE DEF f
<1>2. Sound(m, r, D, X, base) /\ Evolves(f, m) BY <1>1, MakeRoomSound
<1> HIDE DEF m
<1>3. Sound(g, r, D, X, base) /\ Evolves(m, g) BY <1>2, AddRowSound
<1>4. g = Push(h, turned, rank) BY DEF Push, f, m
<1> HIDE DEF g
<1>5. Evolves(h, m) BY <1>0, <1>1, <1>2, EvolvesTransitive
<1>6. Evolves(h, g) BY <1>0, <1>3, <1>5, EvolvesTransitive
<1> QED BY <1>3, <1>4, <1>6

-------------------------------------------------------------------------------
(***************************************************************************)
(* The inductive invariant.                                                *)
(***************************************************************************)
Counted(p) == {s \in Subs : p[s] # "dropping" /\ p[s] # "gone"}

Reserved(rep) == SumFunction([s \in Subs |-> SumBytes(rep[s])])

Base(cur, rep) == [s \in Subs |-> cur[s] + Len(rep[s])]

HubInv == Sound(hub, Reserved(replay), Counted(pc), Subs \ deaf, Base(cursor, replay))

\* What the command and the pump of a subscription are at (p), have to replay, have sent
\* and have told goes with what the hub holds for it.
Pumped(h, s, p, rep, cur, tld) ==
  /\ p = "none" => s \notin h.live \cup h.cancelled /\ rep = <<>> /\ tld = 0
  /\ p # "none" /\ p # "replay" => rep = <<>>
  /\ s \in h.live => \A i \in 1..Len(rep) : rep[i].id = cur + i /\ ~rep[i].snapshot
  /\ \/ \A i \in 1..Len(rep) : ~rep[i].snapshot
     \/ Len(rep) = 1 /\ s \notin h.live \cup h.cancelled
  /\ tld > 0 => s \notin h.live /\ h.owed[s] = None /\ ~HasFailure(h, s) /\ rep = <<>>

\* The pump of a subscriber that is heard runs.
Heard(h, s, p) == s \in h.live => s \notin h.cancelled /\ (p = "replay" \/ p = "live")

PumpInv ==
  /\ pc \in [Subs -> Pcs] /\ replay \in [Subs -> Seq(Events)]
  /\ cursor \in [Subs -> Nat] /\ told \in [Subs -> Nat] /\ deaf \subseteq Subs
  /\ \A s \in Subs : Pumped(hub, s, pc[s], replay[s], cursor[s], told[s])
  /\ \A s \in Subs \ deaf : Heard(hub, s, pc[s])

Inv == HubInv /\ PumpInv /\ room \in Rooms

\* A fold leaves what the pumps hold.
LEMMA EvolvesPumped ==
  ASSUME NEW h, NEW g, h.live \subseteq Subs, Evolves(h, g), NEW s \in Subs,
         NEW p, NEW rep, NEW cur, NEW tld, Pumped(h, s, p, rep, cur, tld)
  PROVE  Pumped(g, s, p, rep, cur, tld)
<1>1. s \in g.live => s \in h.live BY DEF Evolves
<1>2. s \notin h.live \cup h.cancelled => s \notin g.live \cup g.cancelled BY DEF Evolves
<1>3. s \notin h.live => g.owed[s] = h.owed[s] /\ (HasFailure(g, s) => HasFailure(h, s))
  BY DEF Evolves
<1> QED BY <1>1, <1>2, <1>3, Zenon DEF Pumped

\* A fold leaves what was delivered.
LEMMA EvolvesHeard ==
  ASSUME NEW h, NEW g, Evolves(h, g), NEW s, NEW p, Heard(h, s, p)
  PROVE  Heard(g, s, p)
BY DEF Evolves, Heard

\* An operation of the hub that keeps it sound keeps the invariant.
LEMMA HubStep ==
  ASSUME Inv, Evolves(hub, hub'), UNCHANGED <<room, pump>>,
         Sound(hub', Reserved(replay), Counted(pc), Subs \ deaf, Base(cursor, replay))
  PROVE  Inv'
<1>1. /\ room' = room /\ pc' = pc /\ replay' = replay /\ cursor' = cursor /\ told' = told
      /\ deaf' = deaf
  BY DEF pump
<1>2. hub.live \subseteq Subs BY DEF Inv, HubInv, Sound, Keeps, Hub
<1>3. HubInv' BY <1>1 DEF HubInv, Sound, Keeps, Exact
<1>4. \A s \in Subs : Pumped(hub', s, pc[s], replay[s], cursor[s], told[s])
  BY <1>2, EvolvesPumped DEF Inv, PumpInv
<1>5. \A s \in Subs \ deaf : Heard(hub', s, pc[s]) BY EvolvesHeard DEF Inv, PumpInv
<1>6. PumpInv' BY <1>1, <1>4, <1>5 DEF Inv, PumpInv
<1> QED BY <1>1, <1>3, <1>6 DEF Inv

\* What is reserved is a number of bytes.
LEMMA ReservedNat ==
  ASSUME NEW rep \in [Subs -> Seq(Events)]
  PROVE  Reserved(rep) \in Nat
<1> DEFINE f == [s \in Subs |-> SumBytes(rep[s])]
<1>1. f \in [Subs -> Nat] BY SumBytesNat
<1>2. IsFiniteSet(Subs) BY EventHubAssumption
<1> HIDE DEF f
<1>3. SumFunction(f) \in Nat BY <1>1, <1>2, SumNat
<1> QED BY <1>3 DEF Reserved, f

\* What is reserved for replays changes by what one replay changes.
LEMMA ReservedChange ==
  ASSUME NEW rep \in [Subs -> Seq(Events)], NEW s \in Subs, NEW q \in Seq(Events)
  PROVE  /\ SumBytes(rep[s]) <= Reserved(rep)
         /\ Reserved([rep EXCEPT ![s] = q]) = Reserved(rep) - SumBytes(rep[s]) + SumBytes(q)
<1> DEFINE R == [rep EXCEPT ![s] = q]
           f == [t \in Subs |-> SumBytes(rep[t])]
           g == [t \in Subs |-> SumBytes(R[t])]
<1>1. R[s] = q /\ \A t \in Subs \ {s} : R[t] = rep[t] OBVIOUS
<1>2. R \in [Subs -> Seq(Events)] OBVIOUS
<1> HIDE DEF R
<1>3. f \in [Subs -> Nat] /\ g \in [Subs -> Nat] BY <1>2, SumBytesNat
<1>4. f[s] = SumBytes(rep[s]) /\ g[s] = SumBytes(q) /\ \A t \in Subs \ {s} : g[t] = f[t]
  BY <1>1
<1>5. IsFiniteSet(Subs) BY EventHubAssumption
<1> HIDE DEF f, g
<1>6. f[s] <= SumFunction(f) /\ SumFunction(g) = SumFunction(f) - f[s] + g[s]
  <2>1. \A t \in Subs \ {s} : g[t] = f[t] BY <1>4
  <2> QED BY ZenonT(60), <1>3, <1>5, <2>1, SumWithout
<1>7. Reserved(rep) = SumFunction(f) /\ Reserved(R) = SumFunction(g) BY DEF Reserved, f, g
<1> QED BY <1>4, <1>6, <1>7 DEF R

\* What the log and the batch hold is a number of bytes.
LEMMA BaseNat ==
  ASSUME NEW rep \in [Subs -> Seq(Events)], NEW cur \in [Subs -> Nat]
  PROVE  Base(cur, rep) \in [Subs -> Nat]
BY DEF Base

\* What publishing needs of the state.
LEMMA InvSound ==
  ASSUME Inv
  PROVE  /\ Reserved(replay) \in Nat /\ Counted(pc) \in SUBSET Subs
         /\ Base(cursor, replay) \in [Subs -> Nat] /\ room \in Nat
         /\ Sound(hub, Reserved(replay), Counted(pc), Subs \ deaf, Base(cursor, replay))
         /\ hub \in Hub /\ hub.live \subseteq Subs /\ Keeps(hub, Reserved(replay), Counted(pc))
<1>1. replay \in [Subs -> Seq(Events)] /\ cursor \in [Subs -> Nat] BY DEF Inv, PumpInv
<1>2. room \in Nat BY EventHubAssumption DEF Inv
<1>3. Counted(pc) \in SUBSET Subs BY DEF Counted
<1>4. Reserved(replay) \in Nat /\ Base(cursor, replay) \in [Subs -> Nat]
  BY <1>1, ReservedNat, BaseNat
<1>5. Sound(hub, Reserved(replay), Counted(pc), Subs \ deaf, Base(cursor, replay))
  BY DEF Inv, HubInv
<1> QED BY <1>2, <1>3, <1>4, <1>5 DEF Sound, Keeps, Hub

\* publish keeps the invariant.
LEMMA PublishStep == ASSUME Inv, Publish PROVE Inv'
<1>1. PICK payload \in Payloads, rank \in Ranks : hub' = Emit(hub, payload, 0, rank)
  BY DEF Publish
<1> DEFINE r == Reserved(replay)
           b == Base(cursor, replay)
           D == Counted(pc)
<1>2. /\ r \in Nat /\ D \in SUBSET Subs /\ b \in [Subs -> Nat]
      /\ Sound(hub, r, D, Subs \ deaf, b)
  BY InvSound
<1> HIDE DEF r, b, D
<1>3. payload \in Nat /\ 0 \in Nat /\ 0 <= 1 + payload /\ r + 0 = r
  BY <1>2, EventHubAssumption
<1>4. Sound(hub, r + 0, D, Subs \ deaf, b) BY <1>2, <1>3
<1>5. Sound(hub', r, D, Subs \ deaf, b) /\ Evolves(hub, hub')
  BY <1>1, <1>2, <1>3, <1>4, EmitSound
<1> QED BY <1>5, HubStep DEF Publish, r, b, D

\* push_capture keeps the invariant.
LEMMA PushCaptureStep == ASSUME Inv, PushCapture PROVE Inv'
<1>1. PICK turned \in BOOLEAN, rank \in Ranks : hub' = Push(hub, turned, rank)
  BY DEF PushCapture
<1>2. /\ Sound(hub', Reserved(replay), Counted(pc), Subs \ deaf, Base(cursor, replay))
      /\ Evolves(hub, hub')
  BY <1>1, InvSound, PushSound
<1> QED BY <1>2, HubStep DEF PushCapture

\* The timer of the batch keeps the invariant.
LEMMA FlushDueStep == ASSUME Inv, FlushDue PROVE Inv'
<1>1. PICK rank \in Ranks : hub' = Flush(hub, rank) BY DEF FlushDue
<1>2. /\ Sound(hub', Reserved(replay), Counted(pc), Subs \ deaf, Base(cursor, replay))
      /\ Evolves(hub, hub')
  BY <1>1, InvSound, FlushSound
<1> QED BY <1>2, HubStep DEF FlushDue

\* A change of the room for sessions keeps the invariant.
LEMMA SessionBytesStep == ASSUME Inv, SessionBytes PROVE Inv'
<1>1. /\ hub' = hub /\ pc' = pc /\ replay' = replay /\ cursor' = cursor /\ told' = told
      /\ deaf' = deaf /\ room' \in Rooms /\ room' \in Nat /\ hub.bytes <= room'
  BY EventHubAssumption DEF SessionBytes, pump
<1>2. HubInv' BY <1>1 DEF Inv, HubInv, Sound, Keeps, Exact
<1>3. PumpInv' BY <1>1 DEF Inv, PumpInv
<1> QED BY <1>1, <1>2, <1>3 DEF Inv

-------------------------------------------------------------------------------
(***************************************************************************)
(* A step of one subscription.                                             *)
(***************************************************************************)
\* Nothing the hub has of others is changed, but that failures may be given up.
Apart(h, g, s) ==
  \A t \in Subs \ {s} :
    /\ t \in g.live <=> t \in h.live
    /\ t \in g.cancelled <=> t \in h.cancelled
    /\ g.owed[t] = h.owed[t] /\ g.queue[t] = h.queue[t]
    /\ HasFailure(g, t) => HasFailure(h, t)

EndsOne(h, s) ==
  /\ s \in h.live => h.owed[s] = None
  /\ h.owed[s] # None => s \in h.cancelled /\ ~HasFailure(h, s)
  /\ HasFailure(h, s) => s \in h.cancelled \ h.live
  /\ h.queue[s] # <<>> => s \in h.live \cup h.cancelled

FollowsOne(h, s, b, n) ==
  /\ \A i \in 1..Len(h.queue[s]) :
       h.queue[s][i].id = b + i /\ ~h.queue[s][i].snapshot
  /\ b + Len(h.queue[s]) = n

\* A sequence whose elements are the same but at s.
At(f, g, s, S) == g \in [Subs -> S] /\ \A t \in Subs \ {s} : g[t] = f[t]

\* A subscription that ends apart from the others touches none of them.
LEMMA ApartEnds ==
  ASSUME NEW h, NEW g, NEW s \in Subs, Ends(h), Apart(h, g, s), EndsOne(g, s)
  PROVE  Ends(g)
<1>1. ASSUME NEW t \in Subs \ {s} PROVE EndsOne(g, t)
  <2>1. EndsOne(h, t) BY Zenon DEF Ends, EndsOne
  <2> QED BY <2>1 DEF Apart, EndsOne
<1>2. \A t \in Subs : EndsOne(g, t) BY <1>1
<1> QED BY <1>2, Zenon DEF Ends, EndsOne

\* A step of s leaves the other pumps alone.
LEMMA ApartPumped ==
  ASSUME NEW h, NEW g, NEW s \in Subs, Apart(h, g, s), NEW t \in Subs \ {s},
         NEW p, NEW rep, NEW cur, NEW tld, Pumped(h, t, p, rep, cur, tld)
  PROVE  Pumped(g, t, p, rep, cur, tld)
<1>1. /\ t \in g.live <=> t \in h.live
      /\ t \in g.cancelled <=> t \in h.cancelled
      /\ g.owed[t] = h.owed[t] /\ (HasFailure(g, t) => HasFailure(h, t))
  BY Zenon DEF Apart
<1> QED BY <1>1 DEF Pumped

\* A step of one subscription keeps the invariant of the others.
LEMMA PumpStep ==
  ASSUME Inv, NEW s \in Subs, hub' \in Hub, Exact(hub', Reserved(replay'), Counted(pc')),
         Apart(hub, hub', s), EndsOne(hub', s), hub'.next = hub.next,
         TailTo(hub', hub.next - 1),
         s \in hub'.live \ deaf' =>
           FollowsOne(hub', s, cursor'[s] + Len(replay'[s]), hub.next - 1) /\ Heard(hub', s, pc'[s]),
         At(pc, pc', s, Pcs), At(replay, replay', s, Seq(Events)),
         At(cursor, cursor', s, Nat), At(told, told', s, Nat),
         Pumped(hub', s, pc'[s], replay'[s], cursor'[s], told'[s]),
         deaf \subseteq deaf', deaf' \subseteq Subs, room' = room
  PROVE  Inv'
<1>1. Sound(hub, Reserved(replay), Counted(pc), Subs \ deaf, Base(cursor, replay))
  BY DEF Inv, HubInv
<1>2. Ends(hub') BY <1>1, ApartEnds DEF Sound, Keeps
<1>3. Keeps(hub', Reserved(replay'), Counted(pc')) BY <1>2 DEF Keeps
<1>4. ASSUME NEW t \in hub'.live \cap (Subs \ deaf')
      PROVE  FollowsOne(hub', t, Base(cursor', replay')[t], hub.next - 1)
  <2>1. t \in Subs BY <1>4
  <2>2. CASE t = s BY <1>4, <2>2 DEF Base
  <2>3. CASE t # s
    <3>1. t \in hub.live \cap (Subs \ deaf) /\ hub'.queue[t] = hub.queue[t]
      BY <2>1, <2>3, <1>4 DEF Apart
    <3>2. FollowsOne(hub, t, Base(cursor, replay)[t], hub.next - 1)
      BY <1>1, <3>1, Zenon DEF Sound, Follows, FollowsOne
    <3>3. Base(cursor', replay')[t] = Base(cursor, replay)[t] BY <2>1, <2>3 DEF Base, At
    <3> QED BY <3>1, <3>2, <3>3, Zenon DEF FollowsOne
  <2> QED BY <2>2, <2>3
<1>5. Follows(hub', Subs \ deaf', Base(cursor', replay'), hub.next - 1)
  BY <1>4, Zenon DEF Follows, FollowsOne
<1>6. Sound(hub', Reserved(replay'), Counted(pc'), Subs \ deaf', Base(cursor', replay'))
  BY <1>3, <1>5 DEF Sound
<1>7. HubInv'
  BY <1>6 DEF HubInv, Sound, Keeps, Exact
<1>8. ASSUME NEW t \in Subs PROVE Pumped(hub', t, pc'[t], replay'[t], cursor'[t], told'[t])
  <2>1. CASE t = s BY <2>1
  <2>2. CASE t # s
    <3>1. Pumped(hub, t, pc[t], replay[t], cursor[t], told[t]) BY DEF Inv, PumpInv
    <3>2. /\ pc'[t] = pc[t] /\ replay'[t] = replay[t] /\ cursor'[t] = cursor[t]
          /\ told'[t] = told[t]
      BY <2>2 DEF At
    <3> QED BY <2>2, <3>1, <3>2, ApartPumped
  <2> QED BY <2>1, <2>2
<1>9. ASSUME NEW t \in Subs \ deaf' PROVE Heard(hub', t, pc'[t])
  <2>1. CASE t = s BY <2>1 DEF Heard
  <2>2. CASE t # s
    <3>1. Heard(hub, t, pc[t]) BY DEF Inv, PumpInv
    <3>2. /\ pc'[t] = pc[t]
          /\ t \in hub'.live <=> t \in hub.live
          /\ t \in hub'.cancelled <=> t \in hub.cancelled
      BY <2>2 DEF At, Apart
    <3> QED BY <3>1, <3>2 DEF Heard
  <2> QED BY <2>1, <2>2
<1>10. PumpInv' BY <1>8, <1>9 DEF PumpInv, At
<1> QED BY <1>7, <1>10 DEF Inv

\* What Inv says of one subscription.
LEMMA InvAt ==
  ASSUME Inv, NEW s \in Subs
  PROVE  /\ pc \in [Subs -> Pcs] /\ replay \in [Subs -> Seq(Events)]
         /\ cursor \in [Subs -> Nat] /\ told \in [Subs -> Nat] /\ deaf \subseteq Subs
         /\ replay[s] \in Seq(Events) /\ cursor[s] \in Nat /\ told[s] \in Nat
         /\ Pumped(hub, s, pc[s], replay[s], cursor[s], told[s]) /\ EndsOne(hub, s)
         /\ s \notin deaf => Heard(hub, s, pc[s])
         /\ s \in hub.live \ deaf => FollowsOne(hub, s, cursor[s] + Len(replay[s]), hub.next - 1)
         /\ TailTo(hub, hub.next - 1) /\ Exact(hub, Reserved(replay), Counted(pc))
         /\ hub \in Hub /\ hub.next - 1 \in Nat
<1>1. Sound(hub, Reserved(replay), Counted(pc), Subs \ deaf, Base(cursor, replay))
  BY DEF Inv, HubInv
<1>2. EndsOne(hub, s) BY <1>1, Zenon DEF Sound, Keeps, Ends, EndsOne
<1>3. s \in hub.live \ deaf => FollowsOne(hub, s, cursor[s] + Len(replay[s]), hub.next - 1)
  <2>1. ASSUME s \in hub.live \ deaf
        PROVE  FollowsOne(hub, s, Base(cursor, replay)[s], hub.next - 1)
    <3>1. s \in hub.live \cap (Subs \ deaf) BY <2>1
    <3> QED BY <1>1, <3>1, Zenon DEF Sound, Follows, FollowsOne
  <2>2. Base(cursor, replay)[s] = cursor[s] + Len(replay[s]) BY DEF Base
  <2> QED BY <2>1, <2>2
<1>4. hub \in Hub /\ hub.next - 1 \in Nat BY <1>1 DEF Sound, Keeps, Hub
<1> QED BY <1>1, <1>2, <1>3, <1>4 DEF Inv, PumpInv, Sound, Keeps

\* An updated function at the place that was updated.
LEMMA SetAt ==
  ASSUME NEW S, NEW f \in [Subs -> S], NEW s \in Subs, NEW x \in S, NEW g, g = [f EXCEPT ![s] = x]
  PROVE  At(f, g, s, S) /\ g[s] = x
BY DEF At

\* An updated function elsewhere.
LEMMA SameAt ==
  ASSUME NEW S, NEW f \in [Subs -> S], NEW s
  PROVE  At(f, f, s, S)
BY DEF At

\* The start of a pump keeps the invariant.
LEMMA StartPumpStep == ASSUME Inv, NEW s \in Subs, StartPump(s) PROVE Inv'
<1>1. /\ pc[s] = "replay" /\ replay[s] = <<>> /\ pc' = [pc EXCEPT ![s] = "live"]
      /\ hub' = hub /\ replay' = replay /\ cursor' = cursor /\ told' = told
      /\ deaf' = deaf /\ room' = room
  BY DEF StartPump
<1>2. "live" \in Pcs BY DEF Pcs
<1>3. At(pc, pc', s, Pcs) /\ pc'[s] = "live" BY <1>1, <1>2, InvAt, SetAt
<1>4. /\ At(replay, replay', s, Seq(Events)) /\ At(cursor, cursor', s, Nat)
      /\ At(told, told', s, Nat)
  BY <1>1, InvAt, SameAt
<1>5. Counted(pc') = Counted(pc) BY <1>1, <1>3 DEF Counted, At
<1>6. Pumped(hub', s, pc'[s], replay'[s], cursor'[s], told'[s])
  BY <1>1, <1>3, InvAt DEF Pumped
<1>7. s \in hub'.live \ deaf' => Heard(hub', s, pc'[s]) BY <1>1, <1>3, InvAt DEF Heard
<1>8. Apart(hub, hub', s) BY <1>1 DEF Apart
<1> QED BY <1>1, <1>3, <1>4, <1>5, <1>6, <1>7, <1>8, InvAt, PumpStep

\* The end of a queue keeps the invariant.
LEMMA RecvNoneStep == ASSUME Inv, NEW s \in Subs, RecvNone(s) PROVE Inv'
<1>1. /\ pc[s] = "live" /\ pc' = [pc EXCEPT ![s] = "failure"]
      /\ s \in hub.cancelled \/ s \notin hub.live
      /\ hub' = hub /\ replay' = replay /\ cursor' = cursor /\ told' = told
      /\ deaf' = deaf /\ room' = room
  BY DEF RecvNone
<1>2. "failure" \in Pcs BY DEF Pcs
<1>3. At(pc, pc', s, Pcs) /\ pc'[s] = "failure" BY <1>1, <1>2, InvAt, SetAt
<1>4. /\ At(replay, replay', s, Seq(Events)) /\ At(cursor, cursor', s, Nat)
      /\ At(told, told', s, Nat)
  BY <1>1, InvAt, SameAt
<1>5. Counted(pc') = Counted(pc) BY <1>1, <1>3 DEF Counted, At
<1>6. Pumped(hub', s, pc'[s], replay'[s], cursor'[s], told'[s])
  BY <1>1, <1>3, InvAt DEF Pumped
<1>7. s \in hub'.live \ deaf' => Heard(hub', s, pc'[s]) BY <1>1, <1>3, InvAt DEF Heard
<1>8. Apart(hub, hub', s) BY <1>1 DEF Apart
<1> QED BY <1>1, <1>3, <1>4, <1>5, <1>6, <1>7, <1>8, InvAt, PumpStep

\* A failed delivery keeps the invariant.
LEMMA HangUpStep == ASSUME Inv, NEW s \in Subs, HangUp(s) PROVE Inv'
<1>1. /\ pc' = pc /\ hub' = hub /\ replay' = replay /\ cursor' = cursor /\ told' = told
      /\ deaf' = deaf \cup {s} /\ room' = room
  BY DEF HangUp
<1>2. deaf \subseteq deaf' /\ deaf' \subseteq Subs BY <1>1, InvAt
<1>3. /\ At(replay, replay', s, Seq(Events)) /\ At(cursor, cursor', s, Nat)
      /\ At(told, told', s, Nat) /\ At(pc, pc', s, Pcs)
  BY <1>1, InvAt, SameAt
<1>4. Apart(hub, hub', s) BY <1>1 DEF Apart
<1>5. s \in deaf' BY <1>1
<1> QED BY <1>1, <1>2, <1>3, <1>4, <1>5, InvAt, PumpStep

-------------------------------------------------------------------------------
(***************************************************************************)
(* Releasing the bytes of a subscription.                                  *)
(***************************************************************************)
LEMMA SameTail ==
  ASSUME NEW h, NEW g, g.retained = h.retained, NEW n, TailTo(h, n) PROVE TailTo(g, n)
BY Zenon DEF TailTo

\* n bytes that were reserved are released.
LEMMA ReleaseKeeps ==
  ASSUME NEW h \in Hub, NEW r \in Nat, NEW n \in Nat, n <= r, NEW D, Exact(h, r, D),
         NEW g, g = Release(h, n)
  PROVE  /\ g \in Hub /\ Exact(g, r - n, D) /\ g.next = h.next /\ g.retained = h.retained
         /\ g.live = h.live /\ g.cancelled = h.cancelled /\ g.owed = h.owed
         /\ g.queue = h.queue /\ g.queued = h.queued /\ g.failures = h.failures
<1>1. h.bytes \in Nat /\ h.bytes = Ledger(h) + r /\ Ledger(h) \in Nat
      /\ h.bytes <= room /\ room \in Nat
  BY LedgerNat DEF Hub, Exact
<1>2. n <= h.bytes /\ h.bytes - n \in Nat /\ h.bytes - n = Ledger(h) + (r - n)
      /\ h.bytes - n <= room
  <2> DEFINE l == Ledger(h)
             b == h.bytes
  <2>1. b = l + r /\ l \in Nat /\ b \in Nat /\ b <= room /\ room \in Nat BY <1>1
  <2> HIDE DEF l, b
  <2>2. n <= b /\ b - n \in Nat /\ b - n = l + (r - n) /\ b - n <= room BY <2>1
  <2> QED BY <2>2 DEF l, b
<1>3. g = [h EXCEPT !.bytes = @ - n] BY <1>2, ReleaseIs
<1>4. /\ g \in Hub /\ g.bytes = h.bytes - n /\ g.next = h.next /\ g.retained = h.retained
      /\ g.pending = h.pending
      /\ g.live = h.live /\ g.cancelled = h.cancelled /\ g.queue = h.queue
      /\ g.queued = h.queued /\ g.owed = h.owed /\ g.failures = h.failures
  BY <1>2, <1>3 DEF Hub
<1>5. Ledger(g) = Ledger(h) BY <1>4 DEF Ledger
<1>6. Exact(g, r - n, D) BY <1>1, <1>2, <1>4, <1>5 DEF Exact
<1> QED BY <1>4, <1>6

\* n bytes of the queue of s are released, and its counter goes down by as much.
Drained(h, s, n, q) == [Release(h, n) EXCEPT !.queue[s] = q, !.queued[s] = h.queued[s] - n]

DrainsTo(h, g, r, D, s, n, q) ==
  /\ g \in Hub /\ Exact(g, r, D) /\ g.next = h.next /\ g.retained = h.retained
  /\ g.live = h.live /\ g.cancelled = h.cancelled /\ g.owed = h.owed
  /\ g.queue = [h.queue EXCEPT ![s] = q] /\ g.failures = h.failures
  /\ g.queued = [h.queued EXCEPT ![s] = h.queued[s] - n] /\ g.pending = h.pending

\* Emptying a queue keeps what the hub is.
LEMMA DrainKeeps ==
  ASSUME NEW h \in Hub, NEW r \in Nat, NEW D \in SUBSET Subs, Exact(h, r, D), NEW s \in Subs,
         NEW n \in Nat, n <= h.queued[s], NEW q \in Seq(Events), NEW E \in SUBSET D,
         s \in E => h.queued[s] - n = SumBytes(q), NEW g, g = Drained(h, s, n, q)
  PROVE  DrainsTo(h, g, r, E, s, n, q)
<1> DEFINE N == [h.queued EXCEPT ![s] = h.queued[s] - n]
           Q == [h.queue EXCEPT ![s] = q]
<1>1. /\ h.queued \in [Subs -> Nat] /\ h.queued[s] \in Nat /\ h.queue \in [Subs -> Seq(Events)]
      /\ h.bytes \in Nat /\ h.bytes = Ledger(h) + r /\ h.bytes <= room /\ room \in Nat
  BY DEF Hub, Exact
<1>2. /\ N \in [Subs -> Nat] /\ N[s] = h.queued[s] - n
      /\ \A t \in Subs \ {s} : N[t] = h.queued[t]
  BY <1>1
<1>3. Q \in [Subs -> Seq(Events)] /\ Q[s] = q /\ \A t \in Subs \ {s} : Q[t] = h.queue[t]
  BY <1>1
<1> HIDE DEF N, Q
<1>4. SumFunction(h.queued) \in Nat /\ h.queued[s] <= SumFunction(h.queued)
      /\ SumFunction(N) = SumFunction(h.queued) - n
  <2> DEFINE F == h.queued
             f == h.queued[s]
  <2>1. IsFiniteSet(Subs) BY EventHubAssumption
  <2>2. /\ F \in [Subs -> Nat] /\ N \in [Subs -> Nat]
        /\ \A t \in Subs \ {s} : N[t] = F[t]
    BY <1>1, <1>2
  <2> HIDE DEF F
  <2>3. /\ SumFunction(F) \in Nat /\ F[s] <= SumFunction(F)
        /\ SumFunction(N) = SumFunction(F) - F[s] + N[s]
    BY <2>1, <2>2, SumNat, SumWithout
  <2>4. F[s] = f /\ N[s] = f - n /\ f \in Nat /\ n <= f BY <1>1, <1>2 DEF F
  <2> HIDE DEF f
  <2>5. SumFunction(N) = SumFunction(F) - n BY <2>3, <2>4
  <2> QED BY <2>3, <2>5 DEF F
<1>5. /\ n <= h.bytes /\ h.bytes - n \in Nat /\ h.bytes - n <= room
      /\ h.bytes - n = SumBytes(h.retained) + h.pending + FailureBytes * Len(h.failures)
                       + SumFunction(N) + r
  <2> DEFINE a == SumBytes(h.retained)
             l == FailureBytes * Len(h.failures)
             x == SumFunction(h.queued)
             p == h.pending
             b == h.bytes
             k == h.queued[s]
  <2>1. a \in Nat /\ x \in Nat /\ p \in Nat /\ Len(h.failures) \in Nat /\ b \in Nat
    BY <1>1, LedgerNat
  <2>2. l \in Nat BY <2>1 DEF FailureBytes
  <2>3. b = a + p + l + x + r /\ b <= room /\ room \in Nat /\ r \in Nat /\ n \in Nat
    BY <1>1 DEF Ledger
  <2>4. n <= k /\ k <= x /\ k \in Nat /\ SumFunction(N) = x - n BY <1>1, <1>4
  <2> HIDE DEF a, l, x, p, b, k
  <2>5. /\ n <= b /\ b - n \in Nat /\ b - n <= room
        /\ b - n = a + p + l + (x - n) + r
    BY ONLY <2>1, <2>2, <2>3, <2>4
  <2>6. b - n = a + p + l + SumFunction(N) + r BY <2>4, <2>5
  <2> QED BY <2>5, <2>6 DEF a, l, p, b
<1>6. g = [h EXCEPT !.bytes = @ - n, !.queue = Q, !.queued = N]
  <2>1. Release(h, n) = [h EXCEPT !.bytes = @ - n] BY <1>5, ReleaseIs
  <2> QED BY <2>1 DEF Hub, Q, N, Drained
<1>7. /\ g \in Hub /\ g.bytes = h.bytes - n /\ g.queue = Q /\ g.queued = N
      /\ g.next = h.next /\ g.retained = h.retained /\ g.pending = h.pending
      /\ g.live = h.live /\ g.cancelled = h.cancelled /\ g.owed = h.owed
      /\ g.failures = h.failures
  BY <1>2, <1>3, <1>5, <1>6 DEF Hub
<1>8. \A t \in E : g.queued[t] = SumBytes(g.queue[t])
  BY SMTT(40), <1>2, <1>3, <1>7 DEF Exact
<1>9. Exact(g, r, E) BY <1>1, <1>5, <1>7, <1>8 DEF Exact, Ledger
<1> QED BY <1>7, <1>9 DEF Q, N, DrainsTo

\* The failures of a subscription are taken out of the list, and released.
LEMMA WithoutKeeps ==
  ASSUME NEW h \in Hub, NEW r \in Nat, NEW D, Exact(h, r, D), NEW s \in Subs,
         NEW g, g = WithoutFailures(h, s)
  PROVE  /\ g \in Hub /\ Exact(g, r, D) /\ g.next = h.next /\ g.retained = h.retained
         /\ g.live = h.live /\ g.cancelled = h.cancelled /\ g.owed = h.owed
         /\ g.queue = h.queue /\ g.queued = h.queued
         /\ ~HasFailure(g, s) /\ \A t \in Subs : HasFailure(g, t) => HasFailure(h, t)
<1> DEFINE kept == {f \in Range(h.failures) : f.sub # s}
           rest == FailuresOfOthers(h.failures, s)
           n == FailureBytes * (Len(h.failures) - Len(rest))
<1>1. h.failures \in Seq(Failures) /\ Len(h.failures) \in Nat BY DEF Hub
<1>2. rest = Among(h.failures, kept) BY DEF FailuresOfOthers
<1>3. /\ rest \in Seq(Failures) /\ Len(rest) <= Len(h.failures)
      /\ \A i \in 1..Len(rest) : rest[i] \in kept
  <2> HIDE DEF kept, rest, Failures
  <2> QED BY <1>1, <1>2, AmongKept
<1>4. \A i \in 1..Len(rest) : rest[i].sub # s /\ \E j \in 1..Len(h.failures) : h.failures[j] = rest[i]
  <2>1. DOMAIN h.failures = 1..Len(h.failures) BY <1>1
  <2> HIDE DEF rest
  <2> QED BY <1>3, <2>1 DEF Range
<1>5. Len(rest) \in Nat BY <1>3
<1> HIDE DEF kept, rest
<1>6. /\ n \in Nat /\ n <= h.bytes /\ h.bytes - n \in Nat /\ h.bytes - n <= room /\ room \in Nat
      /\ h.bytes - n = SumBytes(h.retained) + h.pending + FailureBytes * Len(rest)
                       + SumFunction(h.queued) + r
  <2> DEFINE a == SumBytes(h.retained)
             x == SumFunction(h.queued)
             p == h.pending
             b == h.bytes
             l == Len(h.failures)
             m == Len(rest)
  <2>1. a \in Nat /\ x \in Nat /\ p \in Nat /\ l \in Nat /\ b \in Nat /\ m \in Nat /\ m <= l
    BY <1>1, <1>3, <1>5, LedgerNat DEF Hub
  <2>2. /\ FailureBytes * l = l + l /\ FailureBytes * m = m + m
        /\ n = (l - m) + (l - m)
    <3>1. l \in Int /\ m \in Int /\ l - m \in Int BY <2>1
    <3> QED BY <3>1, Twice
  <2>3. b = a + p + (l + l) + x + r /\ b <= room /\ room \in Nat
    BY <2>2 DEF Exact, Ledger
  <2> HIDE DEF a, x, p, b, l, m, n
  <2>4. /\ n \in Nat /\ n <= b /\ b - n \in Nat /\ b - n <= room
        /\ b - n = a + p + (m + m) + x + r
    BY <2>1, <2>2, <2>3
  <2>5. b - n = a + p + FailureBytes * m + x + r BY <2>2, <2>4
  <2> QED BY <2>3, <2>4, <2>5 DEF a, x, p, b, m
<1>7. g = [h EXCEPT !.bytes = @ - n, !.failures = rest]
  <2>1. Release(h, n) = [h EXCEPT !.bytes = @ - n] BY <1>6, ReleaseIs
  <2>2. g = [Release(h, n) EXCEPT !.failures = rest] BY Zenon DEF WithoutFailures, rest
  <2> HIDE DEF n
  <2> QED BY <2>1, <2>2 DEF Hub
<1> HIDE DEF n
<1>8. /\ g \in Hub /\ g.bytes = h.bytes - n /\ g.failures = rest
      /\ g.next = h.next /\ g.retained = h.retained /\ g.pending = h.pending
      /\ g.live = h.live /\ g.cancelled = h.cancelled /\ g.owed = h.owed
      /\ g.queue = h.queue /\ g.queued = h.queued
  <2> HIDE DEF Failures
  <2> QED BY <1>3, <1>6, <1>7 DEF Hub
<1>9. Exact(g, r, D) BY <1>6, <1>8 DEF Exact, Ledger
<1>10. \A t \in Subs : HasFailure(g, t) => HasFailure(h, t) /\ t # s
  BY <1>4, <1>8 DEF HasFailure
<1> QED BY <1>8, <1>9, <1>10

-------------------------------------------------------------------------------
(***************************************************************************)
(* Delivery: the replay, the live queue, the last word.                    *)
(***************************************************************************)
LEMMA TailOf ==
  ASSUME NEW q \in Seq(Events), q # <<>>
  PROVE  /\ Tail(q) \in Seq(Events) /\ Len(Tail(q)) = Len(q) - 1 /\ Head(q) = q[1]
         /\ Head(q) \in Events /\ Len(q) \in Nat /\ Len(q) >= 1
         /\ \A i \in 1..Len(Tail(q)) : i + 1 \in 1..Len(q) /\ Tail(q)[i] = q[i + 1]
<1>1. Len(q) \in Nat /\ Len(q) # 0 BY EmptySeq
<1>2. Head(q) \in Events /\ Tail(q) \in Seq(Events) BY SumBytesHead
<1>3. /\ Len(Tail(q)) = Len(q) - 1 /\ Head(q) = q[1]
      /\ \A i \in 1..Len(Tail(q)) : Tail(q)[i] = q[i + 1]
  BY HeadTailProperties
<1> QED BY <1>1, <1>2, <1>3

\* reclaim_for_limit keeps the invariant.
LEMMA ReclaimForLimitStep == ASSUME Inv, ReclaimForLimit PROVE Inv'
<1>1. PICK target \in Rooms \ {room} :
        LET shed == ShedUntil(hub, target)
        IN  hub' = IF shed.bytes <= target THEN shed
                   ELSE [shed EXCEPT !.live = {}, !.cancelled = @ \cup shed.live]
  BY DEF ReclaimForLimit
<1> DEFINE r == Reserved(replay)
           b == Base(cursor, replay)
           D == Counted(pc)
           f == ShedUntil(hub, target)
           g == [f EXCEPT !.live = {}, !.cancelled = @ \cup f.live]
<1>2. /\ r \in Nat /\ Sound(hub, r, D, Subs \ deaf, b) /\ hub \in Hub /\ Keeps(hub, r, D)
  BY InvSound
<1>3. UNCHANGED <<room, pump>> BY DEF ReclaimForLimit
<1>4. f \in Hub /\ Exact(f, r, D) /\ Less(hub, f)
  <2> HIDE DEF r, D
  <2> QED BY <1>2, ShedUntilKeeps DEF Keeps
<1>5. hub.next - 1 \in Nat BY <1>2 DEF Hub
<1>6. hub' = f \/ hub' = g BY <1>1
<1> HIDE DEF f, r, b, D
<1>7. Sound(f, r, D, Subs \ deaf, b) /\ Evolves(hub, f)
  <2>1. Keeps(f, r, D) BY <1>2, <1>4, LessEnds DEF Keeps
  <2>2. TailTo(f, hub.next - 1) BY <1>2, <1>4, <1>5, TailToLess DEF Sound
  <2> QED BY <1>2, <1>4, <2>1, <2>2, LessQuiet, LessEvolves, QuietSound
<1>8. Sound(g, r, D, Subs \ deaf, b) /\ Evolves(hub, g)
  <2>1. /\ g \in Hub /\ g.live = {} /\ g.cancelled = f.cancelled \cup f.live
        /\ g.next = f.next /\ g.retained = f.retained /\ g.pending = f.pending
        /\ g.queue = f.queue /\ g.queued = f.queued /\ g.owed = f.owed
        /\ g.failures = f.failures /\ g.bytes = f.bytes
    BY <1>4 DEF Hub
  <2> HIDE DEF g
  <2>2. \A s \in Subs : HasFailure(g, s) <=> HasFailure(f, s) BY <2>1 DEF HasFailure
  <2>3. Exact(g, r, D) BY <1>4, <2>1 DEF Exact, Ledger
  <2>4. Ends(g) BY <1>7, <2>1, <2>2 DEF Sound, Keeps, Ends
  <2>5. Evolves(f, g) BY <2>1, <2>2 DEF Evolves
  <2>6. TailTo(g, f.next - 1) BY <1>7, <2>1, Zenon DEF Sound, TailTo
  <2>7. Sound(g, r, D, Subs \ deaf, b)
    BY <1>7, <2>1, <2>3, <2>4, <2>5, <2>6, QuietSound DEF Keeps, Quiet
  <2>8. hub.live \subseteq Subs BY <1>2 DEF Hub
  <2> QED BY <1>7, <2>5, <2>7, <2>8, EvolvesTransitive
<1> HIDE DEF g
<1>9. Sound(hub', r, D, Subs \ deaf, b) /\ Evolves(hub, hub') BY <1>6, <1>7, <1>8
<1> QED BY <1>3, <1>9, HubStep DEF r, b, D

\* The delivery of a replay keeps the invariant.
LEMMA SendReplayStep == ASSUME Inv, NEW s \in Subs, SendReplay(s) PROVE Inv'
<1> DEFINE q == replay[s]
           e == Head(q)
           r == Reserved(replay)
           D == Counted(pc)
<1>1. /\ pc[s] = "replay" /\ q # <<>> /\ Deliver(s, e) /\ deaf' = deaf /\ room' = room
      /\ IF s \in deaf
         THEN /\ hub' = Release(hub, SumBytes(q)) /\ replay' = [replay EXCEPT ![s] = <<>>]
              /\ pc' = [pc EXCEPT ![s] = "drop"]
         ELSE /\ hub' = Release(hub, e.bytes) /\ replay' = [replay EXCEPT ![s] = Tail(q)]
              /\ pc' = pc
  BY DEF SendReplay
<1>2. /\ pc \in [Subs -> Pcs] /\ replay \in [Subs -> Seq(Events)]
      /\ cursor \in [Subs -> Nat] /\ told \in [Subs -> Nat] /\ deaf \subseteq Subs
      /\ q \in Seq(Events) /\ cursor[s] \in Nat /\ told[s] \in Nat
      /\ Pumped(hub, s, pc[s], q, cursor[s], told[s]) /\ EndsOne(hub, s)
      /\ s \notin deaf => Heard(hub, s, pc[s])
      /\ s \in hub.live \ deaf => FollowsOne(hub, s, cursor[s] + Len(q), hub.next - 1)
      /\ TailTo(hub, hub.next - 1) /\ Exact(hub, r, D) /\ hub \in Hub /\ r \in Nat
  BY InvAt, InvSound
<1>3. <<>> \in Seq(Events) /\ SumBytes(<<>>) = 0 /\ SumBytes(q) \in Nat
  BY <1>2, SumBytesEmpty, SumBytesNat
<1>4. /\ SumBytes(q) <= r
      /\ \A x \in Seq(Events) :
           Reserved([replay EXCEPT ![s] = x]) = r - SumBytes(q) + SumBytes(x)
  BY <1>2, ReservedChange
<1>5. /\ Tail(q) \in Seq(Events) /\ Len(Tail(q)) = Len(q) - 1 /\ e = q[1]
      /\ e \in Events /\ Len(q) \in Nat /\ Len(q) >= 1
      /\ \A i \in 1..Len(Tail(q)) : i + 1 \in 1..Len(q) /\ Tail(q)[i] = q[i + 1]
  BY <1>1, <1>2, TailOf
<1>6. e.bytes \in Nat /\ e.id \in Nat /\ SumBytes(Tail(q)) \in Nat
      /\ SumBytes(q) = e.bytes + SumBytes(Tail(q))
  BY <1>1, <1>2, <1>5, SumBytesHead, SumBytesNat DEF Events
<1> HIDE DEF q, e, r, D
<1>7. CASE s \in deaf
  <2>1. /\ hub' = Release(hub, SumBytes(q)) /\ replay' = [replay EXCEPT ![s] = <<>>]
        /\ pc' = [pc EXCEPT ![s] = "drop"] /\ cursor' = cursor /\ told' = told
    BY <1>1, <1>7 DEF Deliver
  <2>2. At(pc, pc', s, Pcs) /\ pc'[s] = "drop"
    <3>1. "drop" \in Pcs BY DEF Pcs
    <3> QED BY <1>2, <2>1, <3>1, SetAt
  <2>3. At(replay, replay', s, Seq(Events)) /\ replay'[s] = <<>> BY <1>2, <1>3, <2>1, SetAt
  <2>4. At(cursor, cursor', s, Nat) /\ At(told, told', s, Nat) BY <1>2, <2>1, SameAt
  <2>5. Counted(pc') = D BY <1>1, <1>2, <2>2 DEF Counted, At, D
  <2>6. Reserved(replay') = r - SumBytes(q)
    <3>1. Reserved(replay') = r - SumBytes(q) + 0 BY <1>3, <1>4, <2>1
    <3>2. r \in Nat /\ SumBytes(q) \in Nat BY <1>2, <1>3
    <3> QED BY ONLY <3>1, <3>2
  <2>7. /\ hub' \in Hub /\ Exact(hub', r - SumBytes(q), D) /\ hub'.next = hub.next
        /\ hub'.retained = hub.retained
        /\ hub'.live = hub.live /\ hub'.cancelled = hub.cancelled /\ hub'.owed = hub.owed
        /\ hub'.queue = hub.queue /\ hub'.failures = hub.failures
    BY <1>2, <1>3, <1>4, <2>1, ReleaseKeeps
  <2>8. \A t \in Subs : HasFailure(hub', t) <=> HasFailure(hub, t) BY <2>7 DEF HasFailure
  <2>9. Apart(hub, hub', s) BY <2>7, <2>8 DEF Apart
  <2>10. EndsOne(hub', s) BY <1>2, <2>7, <2>8 DEF EndsOne
  <2>11. TailTo(hub', hub.next - 1) BY <1>2, <2>7, Zenon DEF TailTo
  <2>12. Pumped(hub', s, pc'[s], replay'[s], cursor'[s], told'[s])
    BY <1>2, <2>1, <2>2, <2>3, <2>7, <2>8 DEF Pumped
  <2>13. deaf \subseteq deaf' /\ deaf' \subseteq Subs /\ s \in deaf' BY <1>1, <1>2, <1>7
  <2>14. Exact(hub', Reserved(replay'), Counted(pc')) BY <2>5, <2>6, <2>7
  <2> QED BY <1>1, <2>2, <2>3, <2>4, <2>7, <2>9, <2>10, <2>11, <2>12, <2>13, <2>14, PumpStep
<1>8. CASE s \notin deaf
  <2>1. hub' = Release(hub, e.bytes) /\ replay' = [replay EXCEPT ![s] = Tail(q)] /\ pc' = pc
    BY <1>1, <1>8
  <2>2. At(replay, replay', s, Seq(Events)) /\ replay'[s] = Tail(q) BY <1>2, <1>5, <2>1, SetAt
  <2>3. At(pc, pc', s, Pcs) BY <1>2, <2>1, SameAt
  <2>4. Reserved(replay') = r - e.bytes /\ e.bytes <= r
    <3> DEFINE x == SumBytes(q)
               y == e.bytes
               z == SumBytes(Tail(q))
    <3>1. Reserved(replay') = r - x + z BY <1>4, <1>5, <2>1
    <3>2. x = y + z /\ x <= r /\ x \in Nat /\ y \in Nat /\ z \in Nat /\ r \in Nat
      BY <1>2, <1>3, <1>4, <1>6
    <3> HIDE DEF x, y, z
    <3>3. Reserved(replay') = r - y /\ y <= r BY <3>1, <3>2
    <3> QED BY <3>3 DEF y
  <2>5. /\ hub' \in Hub /\ Exact(hub', r - e.bytes, D) /\ hub'.next = hub.next
        /\ hub'.retained = hub.retained
        /\ hub'.live = hub.live /\ hub'.cancelled = hub.cancelled /\ hub'.owed = hub.owed
        /\ hub'.queue = hub.queue /\ hub'.failures = hub.failures
    BY <1>2, <1>6, <2>1, <2>4, ReleaseKeeps
  <2>6. \A t \in Subs : HasFailure(hub', t) <=> HasFailure(hub, t) BY <2>5 DEF HasFailure
  <2>7. Apart(hub, hub', s) BY <2>5, <2>6 DEF Apart
  <2>8. EndsOne(hub', s) BY <1>2, <2>5, <2>6 DEF EndsOne
  <2>9. TailTo(hub', hub.next - 1) BY <1>2, <2>5, Zenon DEF TailTo
  <2>10. Exact(hub', Reserved(replay'), Counted(pc')) BY <2>1, <2>4, <2>5 DEF D
  <2>11. deaf \subseteq deaf' /\ deaf' \subseteq Subs BY <1>1, <1>2
  <2>12. ~(told[s] > 0)
    BY <1>1, <1>2, <1>5 DEF Pumped, q
  <2>13. Heard(hub', s, pc'[s]) BY <1>2, <1>8, <2>1, <2>5 DEF Heard
  <2>14. CASE e.snapshot
    <3>1. Len(q) = 1 /\ s \notin hub.live \cup hub.cancelled
      <4>1. 1 \in 1..Len(q) BY <1>5
      <4> QED BY <1>2, <1>5, <2>14, <4>1 DEF Pumped
    <3>2. Len(Tail(q)) = 0 /\ Tail(q) = <<>> BY <1>5, <3>1, EmptySeq
    <3>3. cursor' = cursor /\ told' = [told EXCEPT ![s] = @ + 1] BY <1>1, <1>8, <2>14 DEF Deliver
    <3>4. told[s] + 1 \in Nat BY <1>2
    <3>5. At(cursor, cursor', s, Nat) /\ At(told, told', s, Nat) BY <1>2, <3>3, <3>4, SetAt, SameAt
    <3>6. Pumped(hub', s, pc'[s], replay'[s], cursor'[s], told'[s])
      <4>1. pc'[s] = "replay" /\ replay'[s] = <<>> BY <1>1, <2>1, <2>2, <3>2
      <4>2. s \notin hub'.live \cup hub'.cancelled BY <2>5, <3>1
      <4>3. hub'.owed[s] = None /\ ~HasFailure(hub', s) BY <2>8, <4>2 DEF EndsOne
      <4>4. \A i \in 1..Len(<<>>) : FALSE OBVIOUS
      <4> QED BY <4>1, <4>2, <4>3, <4>4 DEF Pumped
    <3>7. s \notin hub'.live BY <2>5, <3>1
    <3> QED BY <1>1, <2>2, <2>3, <2>5, <2>7, <2>8, <2>9, <2>10, <2>11, <3>5, <3>6, <3>7, PumpStep
  <2>15. CASE ~e.snapshot
    <3>1. told' = told /\ cursor' = [cursor EXCEPT ![s] = e.id] BY <1>1, <1>8, <2>15 DEF Deliver
    <3>2. /\ At(cursor, cursor', s, Nat) /\ cursor'[s] = e.id /\ At(told, told', s, Nat)
      BY <1>2, <1>6, <3>1, SetAt, SameAt
    <3>3. s \in hub.live => e.id = cursor[s] + 1
      <4>1. 1 \in 1..Len(q) BY <1>5
      <4> QED BY <1>2, <1>5, <4>1 DEF Pumped
    <3>4. ASSUME s \in hub.live, NEW i \in 1..Len(Tail(q))
          PROVE  Tail(q)[i].id = e.id + i /\ ~Tail(q)[i].snapshot
      <4>1. i + 1 \in 1..Len(q) /\ Tail(q)[i] = q[i + 1] BY <1>5
      <4>2. q[i + 1].id = cursor[s] + (i + 1) /\ ~q[i + 1].snapshot
        BY <1>2, <3>4, <4>1 DEF Pumped
      <4>3. cursor[s] + (i + 1) = e.id + i BY <1>2, <3>3, <3>4
      <4> QED BY <4>1, <4>2, <4>3
    <3>5. \A i \in 1..Len(Tail(q)) : ~Tail(q)[i].snapshot
      <4>1. CASE Len(q) = 1 BY <1>5, <4>1
      <4>2. CASE Len(q) # 1
        <5>1. \A i \in 1..Len(q) : ~q[i].snapshot BY <1>2, <4>2 DEF Pumped
        <5> QED BY <1>5, <5>1
      <4> QED BY <4>1, <4>2
    <3>6. Pumped(hub', s, pc'[s], replay'[s], cursor'[s], told'[s])
      BY <1>1, <2>1, <2>2, <2>5, <2>12, <3>1, <3>2, <3>4, <3>5 DEF Pumped
    <3>7. ASSUME s \in hub'.live
          PROVE  FollowsOne(hub', s, cursor'[s] + Len(replay'[s]), hub.next - 1)
      <4>1. FollowsOne(hub, s, cursor[s] + Len(q), hub.next - 1) BY <1>2, <1>8, <2>5, <3>7
      <4>2. cursor'[s] + Len(replay'[s]) = cursor[s] + Len(q)
        BY <1>2, <1>5, <2>2, <2>5, <3>2, <3>3, <3>7
      <4>3. hub'.queue[s] = hub.queue[s] BY <2>5
      <4> QED BY <4>1, <4>2, <4>3, Zenon DEF FollowsOne
    <3> QED BY <1>1, <2>2, <2>3, <2>5, <2>7, <2>8, <2>9, <2>10, <2>11, <2>13, <3>2, <3>6, <3>7,
               PumpStep
  <2> QED BY <2>14, <2>15
<1> QED BY <1>7, <1>8

\* The delivery of an event keeps the invariant.
LEMMA RecvStep == ASSUME Inv, NEW s \in Subs, Recv(s) PROVE Inv'
<1> DEFINE q == hub.queue[s]
           e == Head(q)
           r == Reserved(replay)
           D == Counted(pc)
           k == hub.queued[s]
<1>1. /\ pc[s] = "live" /\ s \notin hub.cancelled /\ q # <<>> /\ Deliver(s, e)
      /\ hub' = [Release(hub, e.bytes) EXCEPT !.queue[s] = Tail(@), !.queued[s] = @ - e.bytes]
      /\ pc' = [pc EXCEPT ![s] = IF s \in deaf THEN "failure" ELSE "live"]
      /\ deaf' = deaf /\ room' = room /\ replay' = replay
  BY DEF Recv
<1>2. /\ pc \in [Subs -> Pcs] /\ replay \in [Subs -> Seq(Events)]
      /\ cursor \in [Subs -> Nat] /\ told \in [Subs -> Nat] /\ deaf \subseteq Subs
      /\ cursor[s] \in Nat /\ told[s] \in Nat
      /\ Pumped(hub, s, pc[s], replay[s], cursor[s], told[s]) /\ EndsOne(hub, s)
      /\ s \notin deaf => Heard(hub, s, pc[s])
      /\ s \in hub.live \ deaf => FollowsOne(hub, s, cursor[s] + Len(replay[s]), hub.next - 1)
      /\ TailTo(hub, hub.next - 1) /\ Exact(hub, r, D) /\ hub \in Hub /\ r \in Nat
      /\ D \subseteq Subs /\ s \in D
  BY <1>1, InvAt, InvSound DEF Counted
<1>3. s \in hub.live /\ replay[s] = <<>> /\ ~(told[s] > 0)
  BY <1>1, <1>2 DEF EndsOne, Pumped
<1>4. q \in Seq(Events) /\ k \in Nat /\ k = SumBytes(q) BY <1>2 DEF Hub, Exact
<1>5. /\ Tail(q) \in Seq(Events) /\ Len(Tail(q)) = Len(q) - 1 /\ e = q[1]
      /\ e \in Events /\ Len(q) \in Nat /\ Len(q) >= 1
      /\ \A i \in 1..Len(Tail(q)) : i + 1 \in 1..Len(q) /\ Tail(q)[i] = q[i + 1]
  BY <1>1, <1>4, TailOf
<1>6. e.bytes \in Nat /\ e.id \in Nat /\ SumBytes(Tail(q)) \in Nat
      /\ SumBytes(q) = e.bytes + SumBytes(Tail(q))
  BY <1>1, <1>4, <1>5, SumBytesHead, SumBytesNat DEF Events
<1>7. e.bytes <= k /\ k - e.bytes = SumBytes(Tail(q))
  <2> DEFINE x == e.bytes
             y == SumBytes(Tail(q))
  <2>1. k = x + y /\ x \in Nat /\ y \in Nat BY <1>4, <1>6
  <2> HIDE DEF k, x, y
  <2>2. x <= k /\ k - x = y BY ONLY <2>1
  <2> QED BY <2>2 DEF x, y
<1>8. hub' = Drained(hub, s, e.bytes, Tail(q))
  <2>1. Release(hub, e.bytes).queue = hub.queue /\ Release(hub, e.bytes).queued = hub.queued
    BY <1>2 DEF Release, Hub
  <2> QED BY <1>1, <2>1 DEF Drained
<1> HIDE DEF q, e, r, D, k
<1>9. /\ hub' \in Hub /\ Exact(hub', r, D) /\ hub'.next = hub.next
      /\ hub'.retained = hub.retained
      /\ hub'.live = hub.live /\ hub'.cancelled = hub.cancelled /\ hub'.owed = hub.owed
      /\ hub'.queue = [hub.queue EXCEPT ![s] = Tail(q)] /\ hub'.failures = hub.failures
  <2> DEFINE x == e.bytes
             T == Tail(q)
  <2>1. x <= hub.queued[s] /\ hub.queued[s] - x = SumBytes(T) BY <1>7 DEF k
  <2>2. x \in Nat /\ T \in Seq(Events) BY <1>5, <1>6
  <2>3. hub' = Drained(hub, s, x, T) BY <1>8
  <2>6. s \in D => hub.queued[s] - x = SumBytes(T) BY <2>1
  <2>4. hub \in Hub /\ r \in Nat /\ D \in SUBSET Subs /\ D \in SUBSET D /\ Exact(hub, r, D) BY <1>2
  <2> HIDE DEF x, T
  <2>5. DrainsTo(hub, hub', r, D, s, x, T)
    BY <2>1, <2>2, <2>3, <2>4, <2>6, DrainKeeps, Zenon
  <2> QED BY <2>5 DEF T, DrainsTo
<1>10. hub'.queue[s] = Tail(q) /\ \A t \in Subs \ {s} : hub'.queue[t] = hub.queue[t]
  BY <1>2, <1>9 DEF Hub
<1>11. \A t \in Subs : HasFailure(hub', t) <=> HasFailure(hub, t) BY <1>9 DEF HasFailure
<1>12. Apart(hub, hub', s) BY <1>9, <1>10, <1>11 DEF Apart
<1>13. EndsOne(hub', s) BY <1>2, <1>3, <1>9, <1>11 DEF EndsOne
<1>14. TailTo(hub', hub.next - 1) BY <1>2, <1>9, SameTail
<1>15. At(pc, pc', s, Pcs) /\ pc'[s] \in {"failure", "live"} /\ (s \notin deaf => pc'[s] = "live")
  <2>1. {"failure", "live"} \subseteq Pcs BY DEF Pcs
  <2>2. PICK p \in {"failure", "live"} : pc' = [pc EXCEPT ![s] = p] /\ (s \notin deaf => p = "live")
    BY <1>1
  <2>3. p \in Pcs BY <2>1
  <2> QED BY <1>2, <2>2, <2>3, SetAt
<1>16. Counted(pc') = D BY <1>1, <1>2, <1>15 DEF Counted, At, D
<1>17. Exact(hub', Reserved(replay'), Counted(pc')) BY <1>1, <1>9, <1>16 DEF r
<1>18. At(replay, replay', s, Seq(Events)) /\ replay'[s] = <<>> BY <1>1, <1>2, <1>3, SameAt
<1>19. deaf \subseteq deaf' /\ deaf' \subseteq Subs BY <1>1, <1>2
<1>20. told' = told /\ (s \in deaf => cursor' = cursor)
       /\ (s \notin deaf => cursor' = [cursor EXCEPT ![s] = e.id] /\ e.id = cursor[s] + 1)
  <2>1. CASE s \in deaf BY <1>1, <2>1 DEF Deliver
  <2>2. CASE s \notin deaf
    <3>1. FollowsOne(hub, s, cursor[s] + Len(replay[s]), hub.next - 1) BY <1>2, <1>3, <2>2
    <3>2. cursor[s] + Len(replay[s]) = cursor[s] BY <1>2, <1>3
    <3>3. 1 \in 1..Len(q) BY <1>5
    <3>4. e.id = cursor[s] + 1 /\ ~e.snapshot
      BY <1>5, <3>1, <3>2, <3>3 DEF FollowsOne, q
    <3> QED BY <1>1, <2>2, <3>4 DEF Deliver
  <2> QED BY <2>1, <2>2
<1>21. /\ At(cursor, cursor', s, Nat) /\ At(told, told', s, Nat) /\ told'[s] = told[s]
       /\ s \notin deaf => cursor'[s] = cursor[s] + 1
  BY ZenonT(60), <1>2, <1>6, <1>20, SetAt, SameAt
<1>22. Pumped(hub', s, pc'[s], replay'[s], cursor'[s], told'[s])
  <2>1. pc'[s] # "none" BY <1>15
  <2>2. \A i \in 1..Len(<<>>) : FALSE OBVIOUS
  <2> QED BY <1>3, <1>18, <1>21, <2>1, <2>2 DEF Pumped
<1>23. ASSUME s \in hub'.live \ deaf'
       PROVE  /\ FollowsOne(hub', s, cursor'[s] + Len(replay'[s]), hub.next - 1)
              /\ Heard(hub', s, pc'[s])
  <2>1. s \notin deaf BY <1>1, <1>23
  <2>2. FollowsOne(hub, s, cursor[s], hub.next - 1)
    <3>1. cursor[s] + Len(replay[s]) = cursor[s] BY <1>2, <1>3
    <3> QED BY <1>2, <1>3, <2>1, <3>1
  <2>3. cursor'[s] + Len(replay'[s]) = cursor[s] + 1 BY <1>2, <1>18, <1>21, <2>1
  <2>4. ASSUME NEW i \in 1..Len(Tail(q))
        PROVE  Tail(q)[i].id = (cursor[s] + 1) + i /\ ~Tail(q)[i].snapshot
    <3>1. i + 1 \in 1..Len(q) /\ Tail(q)[i] = q[i + 1] BY <1>5
    <3>2. q[i + 1].id = cursor[s] + (i + 1) /\ ~q[i + 1].snapshot
      BY <2>2, <3>1 DEF FollowsOne, q
    <3>3. cursor[s] + (i + 1) = (cursor[s] + 1) + i BY <1>2
    <3> QED BY <3>1, <3>2, <3>3
  <2>5. (cursor[s] + 1) + Len(Tail(q)) = hub.next - 1
    <3>1. cursor[s] + Len(q) = hub.next - 1 BY <2>2 DEF FollowsOne, q
    <3> QED BY <1>2, <1>5, <3>1
  <2>6. FollowsOne(hub', s, cursor[s] + 1, hub.next - 1)
    BY <1>10, <2>4, <2>5 DEF FollowsOne
  <2>7. Heard(hub', s, pc'[s]) BY <1>2, <1>9, <1>15, <2>1 DEF Heard
  <2> QED BY <2>3, <2>6, <2>7
<1> QED BY <1>1, <1>9, <1>12, <1>13, <1>14, <1>15, <1>17, <1>18, <1>19, <1>21, <1>22, <1>23, PumpStep

\* The delivery of SnapshotRequired keeps the invariant.
LEMMA RecvSnapshotStep == ASSUME Inv, NEW s \in Subs, RecvSnapshot(s) PROVE Inv'
<1> DEFINE r == Reserved(replay)
           D == Counted(pc)
           n == hub.queued[s]
           f == Drained(hub, s, n, <<>>)
<1>1. /\ pc[s] = "live" /\ s \in hub.cancelled /\ hub.owed[s] # None
      /\ hub' = [Release(hub, n) EXCEPT !.queue[s] = <<>>, !.queued[s] = 0, !.owed[s] = None]
      /\ Deliver(s, Snapshot(hub.owed[s]))
      /\ pc' = pc /\ deaf' = deaf /\ room' = room /\ replay' = replay
  BY DEF RecvSnapshot
<1>2. /\ pc \in [Subs -> Pcs] /\ replay \in [Subs -> Seq(Events)]
      /\ cursor \in [Subs -> Nat] /\ told \in [Subs -> Nat] /\ deaf \subseteq Subs
      /\ cursor[s] \in Nat /\ told[s] \in Nat
      /\ Pumped(hub, s, pc[s], replay[s], cursor[s], told[s]) /\ EndsOne(hub, s)
      /\ TailTo(hub, hub.next - 1) /\ Exact(hub, r, D) /\ hub \in Hub /\ r \in Nat
      /\ D \subseteq Subs /\ n \in Nat
  BY <1>1, InvAt, InvSound DEF Counted, Hub
<1>3. s \notin hub.live /\ ~HasFailure(hub, s) /\ replay[s] = <<>>
  BY <1>1, <1>2 DEF EndsOne, Pumped
<1>4. <<>> \in Seq(Events) /\ n <= n /\ n - n = 0 /\ SumBytes(<<>>) = 0 /\ D \subseteq D
  BY <1>2, SumBytesEmpty
<1>5. hub' = [f EXCEPT !.owed[s] = None]
  <2>1. hub.queued[s] - n = 0 BY <1>4
  <2> HIDE DEF n
  <2> QED BY <1>1, <2>1 DEF Drained
<1> HIDE DEF r, D, n
<1>6. /\ f \in Hub /\ Exact(f, r, D) /\ f.next = hub.next
      /\ f.retained = hub.retained
      /\ f.live = hub.live /\ f.cancelled = hub.cancelled /\ f.owed = hub.owed
      /\ f.queue = [hub.queue EXCEPT ![s] = <<>>] /\ f.failures = hub.failures
  <2>1. n <= hub.queued[s] /\ hub.queued[s] - n = SumBytes(<<>>) BY <1>4 DEF n
  <2> HIDE DEF f
  <2>2. f = Drained(hub, s, n, <<>>) BY DEF f
  <2>3. /\ hub \in Hub /\ r \in Nat /\ D \in SUBSET Subs /\ D \in SUBSET D /\ Exact(hub, r, D)
        /\ n \in Nat /\ <<>> \in Seq(Events)
    BY <1>2, <1>4
  <2>4. s \in D => hub.queued[s] - n = SumBytes(<<>>) BY <2>1
  <2>5. DrainsTo(hub, f, r, D, s, n, <<>>)
    BY <2>1, <2>2, <2>3, <2>4, DrainKeeps, Zenon
  <2> QED BY <2>5 DEF DrainsTo
<1> HIDE DEF f
<1>7. /\ hub' \in Hub /\ hub'.next = f.next /\ hub'.retained = f.retained
      /\ hub'.live = f.live /\ hub'.cancelled = f.cancelled
      /\ hub'.owed = [f.owed EXCEPT ![s] = None] /\ hub'.queue = f.queue
      /\ hub'.failures = f.failures /\ hub'.queued = f.queued /\ hub'.bytes = f.bytes
      /\ hub'.pending = f.pending
  <2>1. [f.owed EXCEPT ![s] = None] \in [Subs -> Nat \cup {None}] BY <1>6 DEF Hub
  <2> QED BY <1>5, <1>6, <2>1 DEF Hub
<1>8. Exact(hub', r, D) BY <1>6, <1>7 DEF Exact, Ledger
<1>9. /\ hub'.queue[s] = <<>> /\ hub'.owed[s] = None
      /\ \A t \in Subs \ {s} : hub'.queue[t] = hub.queue[t] /\ hub'.owed[t] = hub.owed[t]
  BY <1>2, <1>6, <1>7 DEF Hub
<1>10. \A t \in Subs : HasFailure(hub', t) <=> HasFailure(hub, t) BY <1>6, <1>7 DEF HasFailure
<1>11. Apart(hub, hub', s) BY <1>6, <1>7, <1>9, <1>10 DEF Apart
<1>12. EndsOne(hub', s) BY <1>3, <1>9, <1>10 DEF EndsOne
<1>13. TailTo(hub', hub.next - 1) BY <1>2, <1>6, <1>7, SameTail
<1>14. /\ At(pc, pc', s, Pcs) /\ At(replay, replay', s, Seq(Events)) BY <1>1, <1>2, SameAt
<1>15. /\ At(cursor, cursor', s, Nat) /\ At(told, told', s, Nat)
  <2>1. Snapshot(hub.owed[s]).snapshot BY DEF Snapshot
  <2>2. cursor' = cursor /\ (told' = told \/ told' = [told EXCEPT ![s] = @ + 1])
    BY <1>1, <2>1 DEF Deliver
  <2>3. told[s] + 1 \in Nat BY <1>2
  <2>4. CASE told' = told BY <1>2, <2>2, <2>4, SameAt
  <2>5. CASE told' = [told EXCEPT ![s] = @ + 1]
    <3>1. At(told, told', s, Nat) BY ZenonT(60), <1>2, <2>3, <2>5, SetAt
    <3> QED BY <1>2, <2>2, <3>1, SameAt
  <2> QED BY <2>2, <2>4, <2>5
<1>16. Pumped(hub', s, pc'[s], replay'[s], cursor'[s], told'[s])
  <2>1. \A i \in 1..Len(<<>>) : FALSE OBVIOUS
  <2> QED BY <1>1, <1>3, <1>6, <1>7, <1>9, <1>10, <2>1 DEF Pumped
<1>17. s \notin hub'.live BY <1>3, <1>6, <1>7
<1>18. Exact(hub', Reserved(replay'), Counted(pc')) BY <1>1, <1>8 DEF r, D
<1>19. deaf \subseteq deaf' /\ deaf' \subseteq Subs /\ hub'.next = hub.next BY <1>1, <1>2, <1>6, <1>7
<1> QED BY <1>1, <1>7, <1>11, <1>12, <1>13, <1>14, <1>15, <1>16, <1>17, <1>18, <1>19, PumpStep

\* take_failure keeps the invariant.
LEMMA TakeFailureStep == ASSUME Inv, NEW s \in Subs, TakeFailure(s) PROVE Inv'
<1> DEFINE r == Reserved(replay)
           D == Counted(pc)
<1>1. /\ pc[s] = "failure" /\ hub' = WithoutFailures(hub, s)
      /\ IF \E i \in DOMAIN hub.failures : hub.failures[i].sub = s
         THEN Deliver(s, Snapshot(hub.next - 1)) ELSE UNCHANGED <<cursor, told>>
      /\ pc' = [pc EXCEPT ![s] = "unsubscribe"]
      /\ deaf' = deaf /\ room' = room /\ replay' = replay
  BY DEF TakeFailure
<1>2. /\ pc \in [Subs -> Pcs] /\ replay \in [Subs -> Seq(Events)]
      /\ cursor \in [Subs -> Nat] /\ told \in [Subs -> Nat] /\ deaf \subseteq Subs
      /\ cursor[s] \in Nat /\ told[s] \in Nat
      /\ Pumped(hub, s, pc[s], replay[s], cursor[s], told[s]) /\ EndsOne(hub, s)
      /\ s \notin deaf => Heard(hub, s, pc[s])
      /\ TailTo(hub, hub.next - 1) /\ Exact(hub, r, D) /\ hub \in Hub /\ r \in Nat
  BY InvAt, InvSound
<1> HIDE DEF r, D
<1>3. /\ hub' \in Hub /\ Exact(hub', r, D) /\ hub'.next = hub.next
      /\ hub'.retained = hub.retained
      /\ hub'.live = hub.live /\ hub'.cancelled = hub.cancelled /\ hub'.owed = hub.owed
      /\ hub'.queue = hub.queue
      /\ ~HasFailure(hub', s) /\ \A t \in Subs : HasFailure(hub', t) => HasFailure(hub, t)
  BY <1>1, <1>2, WithoutKeeps
<1>4. Apart(hub, hub', s) BY <1>3 DEF Apart
<1>5. EndsOne(hub', s) BY <1>2, <1>3 DEF EndsOne
<1>6. TailTo(hub', hub.next - 1) BY <1>2, <1>3, SameTail
<1>7. At(pc, pc', s, Pcs) /\ pc'[s] = "unsubscribe"
  <2>1. "unsubscribe" \in Pcs BY DEF Pcs
  <2> QED BY <1>1, <1>2, <2>1, SetAt
<1>8. Counted(pc') = D BY <1>1, <1>2, <1>7 DEF Counted, At, D
<1>9. Exact(hub', Reserved(replay'), Counted(pc')) BY <1>1, <1>3, <1>8 DEF r
<1>10. At(replay, replay', s, Seq(Events)) /\ replay'[s] = <<>>
  BY <1>1, <1>2, SameAt DEF Pumped
<1>11. DOMAIN hub.failures = 1..Len(hub.failures) BY <1>2 DEF Hub
<1>12. /\ cursor' = cursor
       /\ \/ told' = told
          \/ HasFailure(hub, s) /\ told' = [told EXCEPT ![s] = @ + 1]
  <2>1. Snapshot(hub.next - 1).snapshot BY DEF Snapshot
  <2>2. CASE HasFailure(hub, s)
    <3>1. Deliver(s, Snapshot(hub.next - 1)) BY <1>1, <1>11, <2>2 DEF HasFailure
    <3> QED BY <2>1, <2>2, <3>1 DEF Deliver
  <2>3. CASE ~HasFailure(hub, s) BY <1>1, <1>11, <2>3 DEF HasFailure
  <2> QED BY <2>2, <2>3
<1>13. At(cursor, cursor', s, Nat) /\ At(told, told', s, Nat)
  <2>1. told[s] + 1 \in Nat BY <1>2
  <2>2. CASE told' = told BY <1>2, <1>12, <2>2, SameAt
  <2>3. CASE told' = [told EXCEPT ![s] = @ + 1]
    <3>1. At(told, told', s, Nat) BY <1>2, <2>1, <2>3, SetAt
    <3> QED BY <1>2, <1>12, <3>1, SameAt
  <2> QED BY <1>12, <2>2, <2>3
<1>14. Pumped(hub', s, pc'[s], replay'[s], cursor'[s], told'[s])
  <2>1. \A i \in 1..Len(<<>>) : FALSE OBVIOUS
  <2>2. told'[s] > 0 => s \notin hub.live /\ hub.owed[s] = None
    BY <1>2, <1>12 DEF Pumped, EndsOne
  <2> QED BY <1>3, <1>7, <1>10, <2>1, <2>2 DEF Pumped
<1>15. ~(s \in hub'.live \ deaf') BY <1>1, <1>2, <1>3 DEF Heard
<1>16. deaf \subseteq deaf' /\ deaf' \subseteq Subs BY <1>1, <1>2
<1> QED BY <1>1, <1>3, <1>4, <1>5, <1>6, <1>7, <1>9, <1>10, <1>13, <1>14, <1>15, <1>16, PumpStep

-------------------------------------------------------------------------------
(***************************************************************************)
(* The end of a pump, and of a receiver.                                   *)
(***************************************************************************)
\* What removing the subscriber of s leaves of the invariant's parts.
LEMMA RemoveApart ==
  ASSUME Inv, NEW s \in Subs, NEW g, g = RemoveSubscriber(hub, s)
  PROVE  /\ g \in Hub /\ Exact(g, Reserved(replay), Counted(pc)) /\ Apart(hub, g, s)
         /\ EndsOne(g, s) /\ g.next = hub.next /\ TailTo(g, hub.next - 1) /\ s \notin g.live
         /\ Pumped(g, s, pc[s], replay[s], cursor[s], told[s])
<1> DEFINE r == Reserved(replay)
           D == Counted(pc)
<1>1. /\ Pumped(hub, s, pc[s], replay[s], cursor[s], told[s]) /\ EndsOne(hub, s)
      /\ TailTo(hub, hub.next - 1) /\ Exact(hub, r, D) /\ hub \in Hub
  BY InvAt
<1> HIDE DEF r, D
<1>2. /\ g \in Hub /\ g.live = hub.live \ {s}
      /\ g.cancelled = IF s \in hub.live THEN hub.cancelled \cup {s} ELSE hub.cancelled
      /\ g.next = hub.next /\ g.retained = hub.retained /\ g.pending = hub.pending
      /\ g.queue = hub.queue /\ g.queued = hub.queued /\ g.owed = hub.owed
      /\ g.failures = hub.failures /\ g.bytes = hub.bytes
  <2> DEFINE h == hub
  <2>1. h \in Hub /\ g = RemoveSubscriber(h, s) BY <1>1
  <2> HIDE DEF h
  <2>2. /\ g \in Hub /\ g.live = h.live \ {s}
        /\ g.cancelled = IF s \in h.live THEN h.cancelled \cup {s} ELSE h.cancelled
        /\ g.next = h.next /\ g.retained = h.retained /\ g.pending = h.pending
        /\ g.queue = h.queue /\ g.queued = h.queued /\ g.owed = h.owed
        /\ g.failures = h.failures /\ g.bytes = h.bytes
    BY <2>1, RemoveIs
  <2> QED BY <2>2 DEF h
<1>3. Exact(g, r, D) BY <1>1, <1>2 DEF Exact, Ledger
<1>4. \A t \in Subs : HasFailure(g, t) <=> HasFailure(hub, t) BY <1>2 DEF HasFailure
<1>5. Apart(hub, g, s) BY <1>2, <1>4 DEF Apart
<1>6. EndsOne(g, s) BY <1>1, <1>2, <1>4 DEF EndsOne
<1>7. TailTo(g, hub.next - 1) BY <1>1, <1>2, SameTail
<1>8. Pumped(g, s, pc[s], replay[s], cursor[s], told[s])
  BY <1>1, <1>2, <1>4 DEF Pumped
<1> QED BY <1>2, <1>3, <1>5, <1>6, <1>7, <1>8 DEF r, D

\* unsubscribe keeps the invariant.
LEMMA UnsubscribeStep == ASSUME Inv, NEW s \in Subs, Unsubscribe(s) PROVE Inv'
<1>1. /\ pc[s] = "unsubscribe" /\ hub' = RemoveSubscriber(hub, s)
      /\ pc' = [pc EXCEPT ![s] = "drop"]
      /\ replay' = replay /\ cursor' = cursor /\ told' = told /\ deaf' = deaf /\ room' = room
  BY DEF Unsubscribe
<1>2. /\ hub' \in Hub /\ Exact(hub', Reserved(replay), Counted(pc)) /\ Apart(hub, hub', s)
      /\ EndsOne(hub', s) /\ hub'.next = hub.next /\ TailTo(hub', hub.next - 1)
      /\ s \notin hub'.live
      /\ Pumped(hub', s, pc[s], replay[s], cursor[s], told[s])
  BY <1>1, RemoveApart
<1>3. /\ pc \in [Subs -> Pcs] /\ replay \in [Subs -> Seq(Events)]
      /\ cursor \in [Subs -> Nat] /\ told \in [Subs -> Nat] /\ deaf \subseteq Subs
  BY InvAt
<1>4. At(pc, pc', s, Pcs) /\ pc'[s] = "drop"
  <2>1. "drop" \in Pcs BY DEF Pcs
  <2> QED BY <1>1, <1>3, <2>1, SetAt
<1>5. /\ At(replay, replay', s, Seq(Events)) /\ At(cursor, cursor', s, Nat)
      /\ At(told, told', s, Nat)
  BY <1>1, <1>3, SameAt
<1>6. Counted(pc') = Counted(pc) BY <1>1, <1>4 DEF Counted, At
<1>7. Pumped(hub', s, pc'[s], replay'[s], cursor'[s], told'[s])
  BY <1>1, <1>2, <1>4 DEF Pumped
<1> QED BY <1>1, <1>2, <1>3, <1>4, <1>5, <1>6, <1>7, PumpStep

\* The end of a pump keeps the invariant.
LEMMA QuitStep == ASSUME Inv, NEW s \in Subs, Quit(s) PROVE Inv'
<1>1. /\ hub' = RemoveSubscriber(hub, s) /\ pc' = pc
      /\ replay' = replay /\ cursor' = cursor /\ told' = told /\ deaf' = deaf /\ room' = room
  BY DEF Quit
<1>2. /\ hub' \in Hub /\ Exact(hub', Reserved(replay), Counted(pc)) /\ Apart(hub, hub', s)
      /\ EndsOne(hub', s) /\ hub'.next = hub.next /\ TailTo(hub', hub.next - 1)
      /\ s \notin hub'.live
      /\ Pumped(hub', s, pc[s], replay[s], cursor[s], told[s])
  BY <1>1, RemoveApart
<1>3. deaf \subseteq Subs BY InvAt
<1>4. /\ At(replay, replay', s, Seq(Events)) /\ At(cursor, cursor', s, Nat)
      /\ At(told, told', s, Nat) /\ At(pc, pc', s, Pcs)
  BY <1>1, InvAt, SameAt
<1> QED BY <1>1, <1>2, <1>3, <1>4, PumpStep

\* The first half of the drop of a receiver keeps the invariant.
LEMMA DropReceiverStep == ASSUME Inv, NEW s \in Subs, DropReceiver(s) PROVE Inv'
<1> DEFINE r == Reserved(replay)
           D == Counted(pc)
           E == D \ {s}
           n == hub.queued[s]
           q == hub.queue[s]
           f == Drained(hub, s, n, q)
<1>1. /\ pc[s] = "drop"
      /\ hub' = [Release(hub, n) EXCEPT !.cancelled = @ \cup {s}, !.queued[s] = 0]
      /\ pc' = [pc EXCEPT ![s] = "dropping"]
      /\ replay' = replay /\ cursor' = cursor /\ told' = told /\ deaf' = deaf /\ room' = room
  BY DEF DropReceiver
<1>2. /\ pc \in [Subs -> Pcs] /\ replay \in [Subs -> Seq(Events)]
      /\ cursor \in [Subs -> Nat] /\ told \in [Subs -> Nat] /\ deaf \subseteq Subs
      /\ Pumped(hub, s, pc[s], replay[s], cursor[s], told[s]) /\ EndsOne(hub, s)
      /\ s \notin deaf => Heard(hub, s, pc[s])
      /\ TailTo(hub, hub.next - 1) /\ Exact(hub, r, D) /\ hub \in Hub /\ r \in Nat
      /\ D \in SUBSET Subs /\ n \in Nat /\ q \in Seq(Events)
  BY InvAt, InvSound DEF Counted, Hub
<1>3. n <= hub.queued[s] /\ hub.queued[s] - n = 0 BY <1>2
<1>4. hub' = [f EXCEPT !.cancelled = @ \cup {s}]
  <2> DEFINE R == Release(hub, n)
             b == IF n > hub.bytes THEN 0 ELSE hub.bytes - n
  <2>1. b \in Nat BY <1>2 DEF Hub
  <2>2. R = [hub EXCEPT !.bytes = b] BY <1>2 DEF Release, Hub
  <2>3. hub' = [R EXCEPT !.cancelled = @ \cup {s}, !.queued[s] = 0] BY <1>1
  <2>4. f = [R EXCEPT !.queue[s] = q, !.queued[s] = 0] BY <1>3 DEF Drained
  <2> HIDE DEF b, R, f
  <2>5. R \in Hub /\ R.queue = hub.queue BY <1>2, <2>1, <2>2 DEF Hub
  <2>6. [R.queue EXCEPT ![s] = q] = R.queue BY <2>5 DEF Hub
  <2> HIDE DEF n, q
  <2>7. f = [R EXCEPT !.queued[s] = 0] BY <2>4, <2>5, <2>6 DEF Hub
  <2> QED BY <2>3, <2>5, <2>7 DEF Hub
<1> HIDE DEF r, D, E, n, q
<1>5. DrainsTo(hub, f, r, E, s, n, q)
  <2>1. hub \in Hub /\ r \in Nat /\ D \in SUBSET Subs /\ Exact(hub, r, D) BY <1>2
  <2>2. n \in Nat /\ q \in Seq(Events) /\ n <= hub.queued[s] BY <1>2, <1>3
  <2>3. E \in SUBSET D /\ s \notin E BY DEF E
  <2>4. s \in E => hub.queued[s] - n = SumBytes(q) BY <2>3
  <2> HIDE DEF f
  <2>5. f = Drained(hub, s, n, q) BY DEF f
  <2> QED BY <2>1, <2>2, <2>3, <2>4, <2>5, DrainKeeps, Zenon
<1> HIDE DEF f
<1>6. /\ hub' \in Hub /\ hub'.next = hub.next /\ hub'.retained = hub.retained
      /\ hub'.live = hub.live /\ hub'.cancelled = hub.cancelled \cup {s}
      /\ hub'.owed = hub.owed /\ hub'.queue = f.queue /\ hub'.failures = hub.failures
      /\ hub'.queued = f.queued /\ hub'.bytes = f.bytes /\ hub'.pending = f.pending
      /\ hub'.retained = f.retained /\ hub'.failures = f.failures
  <2>1. f \in Hub BY <1>5 DEF DrainsTo
  <2>2. f.cancelled \cup {s} \in SUBSET Subs BY <2>1 DEF Hub
  <2> QED BY <1>4, <1>5, <2>1, <2>2 DEF Hub, DrainsTo
<1>7. hub'.queue = hub.queue
  <2>1. hub.queue = [hub.queue EXCEPT ![s] = q] BY <1>2 DEF Hub, q
  <2> QED BY <1>5, <1>6, <2>1 DEF DrainsTo
<1>8. Exact(hub', r, E) BY <1>5, <1>6 DEF DrainsTo, Exact, Ledger
<1>9. \A t \in Subs : HasFailure(hub', t) <=> HasFailure(hub, t) BY <1>6 DEF HasFailure
<1>10. Apart(hub, hub', s) BY <1>6, <1>7, <1>9 DEF Apart
<1>11. s \notin hub.live \/ s \in deaf BY <1>1, <1>2 DEF Heard
<1>12. EndsOne(hub', s) BY <1>2, <1>6, <1>7, <1>9 DEF EndsOne
<1>13. TailTo(hub', hub.next - 1)
  <2>1. TailTo(hub, hub.next - 1) /\ hub'.retained = hub.retained BY <1>2, <1>6
  <2> QED BY <2>1, SameTail
<1>14. At(pc, pc', s, Pcs) /\ pc'[s] = "dropping"
  <2>1. "dropping" \in Pcs BY DEF Pcs
  <2> QED BY <1>1, <1>2, <2>1, SetAt
<1>15. Counted(pc') = E BY <1>1, <1>2, <1>14 DEF Counted, At, D, E
<1>16. /\ At(replay, replay', s, Seq(Events)) /\ At(cursor, cursor', s, Nat)
       /\ At(told, told', s, Nat)
  BY <1>1, <1>2, SameAt
<1>17. Pumped(hub', s, pc'[s], replay'[s], cursor'[s], told'[s])
  <2>1. replay[s] = <<>> BY <1>1, <1>2 DEF Pumped
  <2>2. \A i \in 1..Len(<<>>) : FALSE OBVIOUS
  <2> QED BY <1>1, <1>2, <1>6, <1>9, <1>14, <2>1, <2>2 DEF Pumped
<1>18. Exact(hub', Reserved(replay'), Counted(pc')) BY <1>1, <1>8, <1>15 DEF r
<1>19. deaf \subseteq deaf' /\ deaf' \subseteq Subs /\ ~(s \in hub'.live \ deaf')
  BY <1>1, <1>2, <1>6, <1>11
<1> QED BY <1>1, <1>6, <1>10, <1>12, <1>13, <1>14, <1>16, <1>17, <1>18, <1>19, PumpStep

\* The second half of the drop of a receiver keeps the invariant.
LEMMA FinishDropStep == ASSUME Inv, NEW s \in Subs, FinishDrop(s) PROVE Inv'
<1> DEFINE r == Reserved(replay)
           D == Counted(pc)
           f == RemoveSubscriber(hub, s)
           g == WithoutFailures(f, s)
<1>1. /\ pc[s] = "dropping" /\ hub' = [g EXCEPT !.queue[s] = <<>>]
      /\ pc' = [pc EXCEPT ![s] = "gone"]
      /\ replay' = replay /\ cursor' = cursor /\ told' = told /\ deaf' = deaf /\ room' = room
  BY DEF FinishDrop
<1>2. /\ pc \in [Subs -> Pcs] /\ replay \in [Subs -> Seq(Events)]
      /\ cursor \in [Subs -> Nat] /\ told \in [Subs -> Nat] /\ deaf \subseteq Subs
      /\ r \in Nat /\ D \in SUBSET Subs /\ s \notin D
  BY <1>1, InvAt, InvSound DEF Counted
<1>3. /\ f \in Hub /\ Exact(f, r, D) /\ Apart(hub, f, s)
      /\ EndsOne(f, s) /\ f.next = hub.next /\ TailTo(f, hub.next - 1) /\ s \notin f.live
      /\ Pumped(f, s, pc[s], replay[s], cursor[s], told[s])
  BY RemoveApart
<1> HIDE DEF r, D, f
<1>4. /\ g \in Hub /\ Exact(g, r, D) /\ g.next = f.next /\ g.retained = f.retained
      /\ g.live = f.live /\ g.cancelled = f.cancelled /\ g.owed = f.owed
      /\ g.queue = f.queue /\ g.queued = f.queued
      /\ ~HasFailure(g, s) /\ \A t \in Subs : HasFailure(g, t) => HasFailure(f, t)
  BY <1>2, <1>3, WithoutKeeps
<1> HIDE DEF g
<1>5. /\ hub' \in Hub /\ hub'.next = hub.next /\ hub'.retained = g.retained
      /\ hub'.live = g.live /\ hub'.cancelled = g.cancelled
      /\ hub'.owed = g.owed /\ hub'.queue = [g.queue EXCEPT ![s] = <<>>]
      /\ hub'.failures = g.failures
      /\ hub'.queued = g.queued /\ hub'.bytes = g.bytes /\ hub'.pending = g.pending
  <2>1. [g.queue EXCEPT ![s] = <<>>] \in [Subs -> Seq(Events)]
    <3>1. <<>> \in Seq(Events) OBVIOUS
    <3> QED BY <1>4, <3>1 DEF Hub
  <2> QED BY <1>1, <1>3, <1>4, <2>1 DEF Hub
<1>6. hub'.queue[s] = <<>> /\ \A t \in Subs \ {s} : hub'.queue[t] = g.queue[t]
  BY <1>4, <1>5 DEF Hub
<1>7. Exact(hub', r, D)
  <2>1. \A t \in D : hub'.queued[t] = SumBytes(hub'.queue[t])
    <3>1. \A t \in D : t \in Subs \ {s} BY <1>2
    <3> QED BY <1>4, <1>5, <1>6, <3>1 DEF Exact
  <2> QED BY <1>4, <1>5, <2>1 DEF Exact, Ledger
<1>8. \A t \in Subs : HasFailure(hub', t) <=> HasFailure(g, t) BY <1>5 DEF HasFailure
<1>9. Apart(hub, hub', s) BY <1>3, <1>4, <1>5, <1>6, <1>8 DEF Apart
<1>10. EndsOne(hub', s) BY <1>3, <1>4, <1>5, <1>6, <1>8 DEF EndsOne
<1>11. TailTo(hub', hub.next - 1) BY <1>3, <1>4, <1>5, SameTail
<1>12. At(pc, pc', s, Pcs) /\ pc'[s] = "gone"
  <2>1. "gone" \in Pcs BY DEF Pcs
  <2> QED BY <1>1, <1>2, <2>1, SetAt
<1>13. Counted(pc') = D BY <1>1, <1>2, <1>12 DEF Counted, At, D
<1>14. /\ At(replay, replay', s, Seq(Events)) /\ At(cursor, cursor', s, Nat)
       /\ At(told, told', s, Nat)
  BY <1>1, <1>2, SameAt
<1>15. Pumped(hub', s, pc'[s], replay'[s], cursor'[s], told'[s])
  <2>1. replay[s] = <<>> BY <1>1, <1>3 DEF Pumped
  <2>2. \A i \in 1..Len(<<>>) : FALSE OBVIOUS
  <2> QED BY <1>1, <1>3, <1>4, <1>5, <1>8, <1>12, <2>1, <2>2 DEF Pumped
<1>16. Exact(hub', Reserved(replay'), Counted(pc')) BY <1>1, <1>7, <1>13 DEF r
<1>17. deaf \subseteq deaf' /\ deaf' \subseteq Subs /\ s \notin hub'.live
  BY <1>1, <1>2, <1>3, <1>4, <1>5
<1> QED BY <1>1, <1>5, <1>9, <1>10, <1>11, <1>12, <1>14, <1>15, <1>16, <1>17, PumpStep

-------------------------------------------------------------------------------
(***************************************************************************)
(* Subscribing.                                                            *)
(***************************************************************************)
\* What is replayed from a cursor the log reaches back to: all the events after it.
LEMMA MissedIs ==
  ASSUME NEW h \in Hub, TailTo(h, h.next - 1), NEW after \in 0..(h.next - 1),
         after >= (h.next - 1) - Len(h.retained),
         NEW missed, missed = EventsAfter(h.retained, after)
  PROVE  /\ missed \in Seq(Events) /\ Len(missed) \in Nat /\ after + Len(missed) = h.next - 1
         /\ \A i \in 1..Len(missed) : missed[i].id = after + i /\ ~missed[i].snapshot
<1> DEFINE log == h.retained
           n == h.next - 1
           L == Len(log)
           d == after - (n - L)
           kept == {e \in Range(log) : e.id > after}
<1>1. log \in Seq(Events) /\ L \in Nat /\ n \in Nat /\ after \in Nat /\ after <= n BY DEF Hub
<1>2. after >= n - L OBVIOUS
<1>3. \A i \in 1..L : log[i].id = n - (L - i) /\ ~log[i].snapshot BY DEF TailTo
<1>4. DOMAIN log = 1..L BY <1>1
<1> HIDE DEF L, n
<1>5. d \in 0..L /\ L - d = n - after BY <1>1, <1>2
<1>6. \A i \in 1..L : log[i] \in kept <=> i > d
  <2>1. TAKE i \in 1..L
  <2>2. log[i] \in Range(log) BY <1>4 DEF Range
  <2>3. log[i].id = n - (L - i) BY <1>3
  <2>4. n - (L - i) > after <=> i > d BY <1>1
  <2> HIDE DEF log, d
  <2> QED BY <2>2, <2>3, <2>4
<1>7. missed = SubSeq(log, d + 1, L)
  <2>1. missed = Among(log, kept) BY DEF EventsAfter
  <2> HIDE DEF kept, d, log
  <2>2. Among(log, kept) = SubSeq(log, d + 1, Len(log))
    BY <1>1, <1>5, <1>6, AmongSuffix DEF L
  <2> QED BY <2>1, <2>2 DEF L
<1> HIDE DEF kept
<1>8. /\ missed \in Seq(Events) /\ Len(missed) = L - d
      /\ \A i \in 1..Len(missed) : missed[i] = log[d + i]
  <2> DEFINE m == d + 1
  <2>1. m \in Int /\ L \in Int /\ L = Len(log) /\ L - d \in Nat BY <1>1, <1>5 DEF L
  <2>2. \A i \in m..L : log[i] \in Events
    <3>1. \A i \in m..L : i \in 1..L BY <1>1, <1>5
    <3> HIDE DEF log
    <3> QED BY <1>1, <2>1, <3>1
  <2>3. missed = SubSeq(log, m, L) BY <1>7
  <2> HIDE DEF log, m
  <2>4. /\ missed \in Seq(Events) /\ Len(missed) = IF m <= L THEN L - m + 1 ELSE 0
        /\ \A i \in 1..(L - m + 1) : missed[i] = log[m + i - 1]
    BY <2>1, <2>2, <2>3, SubSeqProperties
  <2>5. L - m + 1 = L - d /\ (m <= L \/ L - d = 0) /\ \A i \in Int : m + i - 1 = d + i
    <3>1. d \in Int /\ L \in Int /\ d <= L /\ m = d + 1 BY <1>1, <1>5 DEF m
    <3> HIDE DEF d
    <3> QED BY <3>1
  <2>6. Len(missed) = L - d
    <3>1. (IF m <= L THEN L - m + 1 ELSE 0) = L - d
      <4>1. m \in Int /\ L \in Int BY <2>1
      <4>2. CASE m <= L BY <2>5, <4>2
      <4>3. CASE ~(m <= L) BY <2>5, <4>3
      <4> QED BY <4>2, <4>3
    <3> QED BY <2>4, <3>1
  <2>7. ASSUME NEW i \in 1..(L - d) PROVE missed[i] = log[d + i]
    <3>1. i \in 1..(L - m + 1) /\ i \in Int BY <2>5
    <3>2. missed[i] = log[m + i - 1] BY <2>4, <3>1
    <3>3. m + i - 1 = d + i BY <2>5, <3>1
    <3> QED BY <3>2, <3>3
  <2> QED BY <2>4, <2>6, <2>7
<1>9. Len(missed) \in Nat /\ after + Len(missed) = n
  <2>1. Len(missed) = n - after BY <1>5, <1>8
  <2> QED BY <1>1, <2>1
<1>10. ASSUME NEW i \in 1..Len(missed) PROVE missed[i].id = after + i /\ ~missed[i].snapshot
  <2>1. d + i \in 1..L
    <3>1. i \in 1..Len(missed) OBVIOUS
    <3>2. Len(missed) = L - d BY <1>8
    <3>3. d \in Int /\ L \in Int /\ 0 <= d BY <1>1, <1>5
    <3> HIDE DEF d
    <3> QED BY ONLY <3>1, <3>2, <3>3
  <2>2. log[d + i].id = n - (L - (d + i)) /\ ~log[d + i].snapshot BY <1>3, <2>1
  <2>3. n - (L - (d + i)) = after + i BY <1>1, <1>9
  <2> QED BY <1>8, <2>2, <2>3
<1> QED BY <1>8, <1>9, <1>10 DEF n

\* A cursor that is not stale is not older than the log.
LEMMA NotStale ==
  ASSUME NEW h \in Hub, TailTo(h, h.next - 1), NEW after \in 0..(h.next - 1),
         NEW oldest, oldest = IF h.retained = <<>> THEN h.next ELSE h.retained[1].id,
         ~(after + 1 < oldest)
  PROVE  after >= (h.next - 1) - Len(h.retained)
<1> DEFINE n == h.next - 1
           L == Len(h.retained)
<1>1. L \in Nat /\ n \in Nat /\ h.next = n + 1 /\ after \in Nat BY DEF Hub
<1>2. CASE h.retained = <<>>
  <2>1. oldest = n + 1 /\ L = 0 BY <1>1, <1>2
  <2> HIDE DEF n, L
  <2>2. after >= n - L BY <1>1, <2>1
  <2> QED BY <2>2 DEF n, L
<1>3. CASE h.retained # <<>>
  <2>1. L # 0 BY <1>3, EmptySeq DEF Hub
  <2>2. 1 \in 1..L BY <1>1, <2>1
  <2>3. h.retained[1].id = n - (L - 1) BY <2>2 DEF TailTo
  <2>4. oldest = n - (L - 1) BY <1>3, <2>3
  <2> HIDE DEF n, L
  <2>5. after >= n - L BY <1>1, <2>4
  <2> QED BY <2>5 DEF n, L
<1> QED BY <1>2, <1>3

\* The replay boundary and the registration are one step: nothing falls between.
LEMMA SubscribeStep == ASSUME Inv, NEW s \in Subs, Subscribe(s) PROVE Inv'
<1> DEFINE r == Reserved(replay)
           D == Counted(pc)
           m == MakeRoom(hub, 1)
           n == hub.next - 1
           Missed(after) == EventsAfter(hub.retained, after)
           Stale(after) == after + 1 < OldestId
           Registers(after) == ~Stale(after) /\ Fits(hub, SumBytes(Missed(after)))
<1>1. /\ pc \in [Subs -> Pcs] /\ replay \in [Subs -> Seq(Events)]
      /\ cursor \in [Subs -> Nat] /\ told \in [Subs -> Nat] /\ deaf \subseteq Subs
      /\ Pumped(hub, s, pc[s], replay[s], cursor[s], told[s]) /\ EndsOne(hub, s)
      /\ TailTo(hub, n) /\ Exact(hub, r, D) /\ hub \in Hub /\ r \in Nat /\ n \in Nat
      /\ pc[s] = "none" /\ Keeps(hub, r, D)
  BY InvAt, InvSound DEF Subscribe
<1>2. /\ replay[s] = <<>> /\ told[s] = 0 /\ s \notin hub.live \cup hub.cancelled
      /\ hub.queue[s] = <<>> /\ hub.owed[s] = None /\ ~HasFailure(hub, s)
  BY <1>1 DEF Pumped, EndsOne
<1>3. /\ room' = room /\ told' = told /\ deaf' = deaf /\ quit' = quit BY DEF Subscribe
<1>4. PICK after \in 0..n :
        /\ IF Registers(after)
           THEN /\ hub' = [hub EXCEPT !.bytes = @ + SumBytes(Missed(after)), !.live = @ \cup {s}]
                /\ replay' = [replay EXCEPT ![s] = Missed(after)]
                /\ pc' = [pc EXCEPT ![s] = "replay"]
           ELSE IF Fits(m, 1)
           THEN /\ hub' = [m EXCEPT !.bytes = @ + 1]
                /\ replay' = [replay EXCEPT ![s] = <<Snapshot(n)>>]
                /\ pc' = [pc EXCEPT ![s] = "replay"]
           ELSE hub' = m /\ replay' = replay /\ pc' = pc
        /\ cursor' = IF pc' = pc THEN cursor ELSE [cursor EXCEPT ![s] = after]
  BY Zenon DEF Subscribe
<1>5. <<>> \in Seq(Events) /\ SumBytes(<<>>) = 0 BY SumBytesEmpty
<1>6. after \in Nat BY <1>1
<1>7. "replay" \in Pcs BY DEF Pcs
<1>8. /\ m \in Hub /\ Exact(m, r, D) /\ Less(hub, m)
  <2> HIDE DEF r, D, m
  <2> QED BY <1>1, MakeRoomKeeps DEF Keeps, m
<1> HIDE DEF r, D, m, Missed, Stale, n
<1>9. ASSUME pc' = [pc EXCEPT ![s] = "replay"]
      PROVE  /\ pc' # pc /\ At(pc, pc', s, Pcs) /\ pc'[s] = "replay" /\ Counted(pc') = D
             /\ cursor' = [cursor EXCEPT ![s] = after]
             /\ At(cursor, cursor', s, Nat) /\ cursor'[s] = after /\ At(told, told', s, Nat)
  <2>1. At(pc, pc', s, Pcs) /\ pc'[s] = "replay" BY <1>1, <1>7, <1>9, SetAt
  <2>2. pc' # pc BY <1>1, <2>1
  <2>3. Counted(pc') = D BY <1>1, <2>1 DEF Counted, At, D
  <2>4. cursor' = [cursor EXCEPT ![s] = after] BY <1>4, <2>2
  <2>5. At(cursor, cursor', s, Nat) /\ cursor'[s] = after BY <1>1, <1>6, <2>4, SetAt
  <2>6. At(told, told', s, Nat) BY <1>1, <1>3, SameAt
  <2> QED BY <2>1, <2>2, <2>3, <2>4, <2>5, <2>6
<1>10. deaf \subseteq deaf' /\ deaf' \subseteq Subs BY <1>1, <1>3
<1>11. CASE Registers(after)
  <2> DEFINE missed == Missed(after)
             x == SumBytes(missed)
  <2>1. /\ hub' = [hub EXCEPT !.bytes = @ + x, !.live = @ \cup {s}]
        /\ replay' = [replay EXCEPT ![s] = missed] /\ pc' = [pc EXCEPT ![s] = "replay"]
        /\ Fits(hub, x) /\ ~Stale(after)
    BY <1>4, <1>11
  <2>2. /\ missed \in Seq(Events) /\ Len(missed) \in Nat /\ after + Len(missed) = n
        /\ \A i \in 1..Len(missed) : missed[i].id = after + i /\ ~missed[i].snapshot
    <3>1. TailTo(hub, hub.next - 1) /\ after \in 0..(hub.next - 1) BY <1>1, <1>4 DEF n
    <3>2. ~(after + 1 < OldestId) BY <2>1 DEF Stale
    <3>3. OldestId = IF hub.retained = <<>> THEN hub.next ELSE hub.retained[1].id
      BY DEF OldestId
    <3>4. after >= (hub.next - 1) - Len(hub.retained) BY <1>1, <3>1, <3>2, <3>3, NotStale
    <3>5. missed = EventsAfter(hub.retained, after) BY DEF Missed
    <3> HIDE DEF missed
    <3> QED BY ZenonT(60), <1>1, <3>1, <3>4, <3>5, MissedIs DEF n
  <2>3. x \in Nat BY <2>2, SumBytesNat
  <2> HIDE DEF missed
  <2>4. At(replay, replay', s, Seq(Events)) /\ replay'[s] = missed BY <1>1, <2>1, <2>2, SetAt
  <2>5. Reserved(replay') = r + x
    <3>1. Reserved(replay') = r - SumBytes(replay[s]) + SumBytes(missed)
      BY <1>1, <2>1, <2>2, ReservedChange DEF r
    <3>2. Reserved(replay') = r - 0 + x BY <1>2, <1>5, <3>1
    <3> QED BY <1>1, <2>3, <3>2
  <2> HIDE DEF x
  <2>6. /\ hub' \in Hub /\ hub'.bytes = hub.bytes + x /\ hub'.live = hub.live \cup {s}
        /\ hub'.next = hub.next /\ hub'.retained = hub.retained /\ hub'.pending = hub.pending
        /\ hub'.queue = hub.queue /\ hub'.queued = hub.queued /\ hub'.owed = hub.owed
        /\ hub'.failures = hub.failures /\ hub'.cancelled = hub.cancelled
    <3>1. hub.bytes + x \in Nat /\ hub.live \cup {s} \in SUBSET Subs BY <1>1, <2>3 DEF Hub
    <3> QED BY <1>1, <2>1, <3>1 DEF Hub
  <2>7. Exact(hub', r + x, D)
    <3> DEFINE b == hub.bytes
               l == Ledger(hub)
    <3>1. b = l + r /\ b \in Nat /\ l \in Nat /\ room \in Nat /\ b + x <= room
      BY <1>1, <2>1, LedgerNat DEF Exact, Hub, Fits
    <3> HIDE DEF b, l
    <3>2. b + x = l + (r + x) BY <1>1, <2>3, <3>1
    <3>3. Ledger(hub') = l BY <2>6 DEF Ledger, l
    <3>4. hub'.bytes = b + x BY <2>6 DEF b
    <3> QED BY <1>1, <2>6, <3>1, <3>2, <3>3, <3>4 DEF Exact
  <2>8. Exact(hub', Reserved(replay'), Counted(pc')) BY <1>9, <2>1, <2>5, <2>7
  <2>9. \A t \in Subs : HasFailure(hub', t) <=> HasFailure(hub, t) BY <2>6 DEF HasFailure
  <2>10. Apart(hub, hub', s) BY <2>6, <2>9 DEF Apart
  <2>11. EndsOne(hub', s) BY <1>2, <2>6, <2>9 DEF EndsOne
  <2>12. TailTo(hub', hub.next - 1) BY <1>1, <2>6, SameTail DEF n
  <2>13. Pumped(hub', s, pc'[s], replay'[s], cursor'[s], told'[s])
    <3>1. ~(told'[s] > 0) BY <1>2, <1>3
    <3>2. pc'[s] = "replay" /\ replay'[s] = missed /\ cursor'[s] = after BY <1>9, <2>1, <2>4
    <3> QED BY <2>2, <3>1, <3>2 DEF Pumped
  <2>14. FollowsOne(hub', s, cursor'[s] + Len(replay'[s]), hub.next - 1)
    <3>1. cursor'[s] + Len(replay'[s]) = n BY <1>9, <2>1, <2>2, <2>4
    <3>2. hub'.queue[s] = <<>> /\ Len(<<>>) = 0 /\ n + 0 = n /\ n = hub.next - 1
      BY <1>1, <1>2, <2>6 DEF n
    <3>3. \A i \in 1..Len(<<>>) : FALSE OBVIOUS
    <3> HIDE DEF n
    <3> QED BY <3>1, <3>2, <3>3 DEF FollowsOne
  <2>15. Heard(hub', s, pc'[s]) BY <1>2, <1>9, <2>1, <2>6 DEF Heard
  <2>16. At(pc, pc', s, Pcs) /\ At(cursor, cursor', s, Nat) /\ At(told, told', s, Nat)
    BY <1>9, <2>1
  <2> QED BY <1>3, <1>10, <2>4, <2>6, <2>8, <2>10, <2>11, <2>12, <2>13, <2>14, <2>15, <2>16, PumpStep
<1>12. CASE ~Registers(after) /\ Fits(m, 1)
  <2> DEFINE e == Snapshot(n)
  <2>1. /\ hub' = [m EXCEPT !.bytes = @ + 1] /\ replay' = [replay EXCEPT ![s] = <<e>>]
        /\ pc' = [pc EXCEPT ![s] = "replay"]
    BY <1>4, <1>12
  <2>2. e \in Events /\ e.bytes = 1 /\ <<e>> \in Seq(Events)
    <3>1. e \in Events /\ e.bytes = 1 BY <1>1 DEF Snapshot, Events
    <3> QED BY <3>1
  <2> HIDE DEF e
  <2>3. At(replay, replay', s, Seq(Events)) /\ replay'[s] = <<e>> BY <1>1, <2>1, <2>2, SetAt
  <2>4. Reserved(replay') = r + 1
    <3>1. Reserved(replay') = r - SumBytes(replay[s]) + SumBytes(<<e>>)
      BY <1>1, <2>1, <2>2, ReservedChange DEF r
    <3>2. SumBytes(<<e>>) = 1 BY <2>2, SumBytesOne
    <3>3. Reserved(replay') = r - 0 + 1 BY <1>2, <1>5, <3>1, <3>2
    <3> QED BY <1>1, <3>3
  <2>5. /\ hub' \in Hub /\ hub'.bytes = m.bytes + 1 /\ hub'.live = m.live
        /\ hub'.next = m.next /\ hub'.retained = m.retained /\ hub'.pending = m.pending
        /\ hub'.queue = m.queue /\ hub'.queued = m.queued /\ hub'.owed = m.owed
        /\ hub'.failures = m.failures /\ hub'.cancelled = m.cancelled
    <3>1. m.bytes + 1 \in Nat BY <1>8 DEF Hub
    <3> QED BY <1>8, <2>1, <3>1 DEF Hub
  <2>6. Exact(hub', r + 1, D)
    <3> DEFINE b == m.bytes
               l == Ledger(m)
    <3>1. b = l + r /\ b \in Nat /\ l \in Nat /\ room \in Nat /\ b + 1 <= room
      BY <1>8, <1>12, LedgerNat DEF Exact, Hub, Fits
    <3> HIDE DEF b, l
    <3>2. b + 1 = l + (r + 1) BY <1>1, <3>1
    <3>3. Ledger(hub') = l BY <2>5 DEF Ledger, l
    <3>4. hub'.bytes = b + 1 BY <2>5 DEF b
    <3> QED BY <1>8, <2>5, <3>1, <3>2, <3>3, <3>4 DEF Exact
  <2>7. Exact(hub', Reserved(replay'), Counted(pc')) BY <1>9, <2>1, <2>4, <2>6
  <2>8. \A t \in Subs : HasFailure(hub', t) => HasFailure(hub, t)
    <3>1. \A t \in Subs : HasFailure(m, t) => HasFailure(hub, t) BY <1>8 DEF Less
    <3>2. \A t \in Subs : HasFailure(hub', t) <=> HasFailure(m, t) BY <2>5 DEF HasFailure
    <3> QED BY <3>1, <3>2
  <2>9. /\ hub'.live = hub.live /\ hub'.cancelled = hub.cancelled /\ hub'.owed = hub.owed
        /\ hub'.queue = hub.queue /\ hub'.next = hub.next
    BY <1>8, <2>5 DEF Less
  <2>10. Apart(hub, hub', s) BY <2>8, <2>9 DEF Apart
  <2>11. EndsOne(hub', s) BY <1>2, <2>8, <2>9 DEF EndsOne
  <2>12. TailTo(hub', hub.next - 1)
    <3>1. TailTo(m, hub.next - 1) BY <1>1, <1>8, TailToLess DEF n
    <3> QED BY <2>5, <3>1, SameTail
  <2>13. Pumped(hub', s, pc'[s], replay'[s], cursor'[s], told'[s])
    <3>1. ~(told'[s] > 0) /\ s \notin hub'.live \cup hub'.cancelled BY <1>2, <1>3, <2>9
    <3>2. pc'[s] = "replay" /\ Len(replay'[s]) = 1 BY <1>9, <2>1, <2>3
    <3> QED BY <3>1, <3>2 DEF Pumped
  <2>14. s \notin hub'.live BY <1>2, <2>9
  <2>15. At(pc, pc', s, Pcs) /\ At(cursor, cursor', s, Nat) /\ At(told, told', s, Nat)
    BY <1>9, <2>1
  <2> QED BY <1>3, <1>10, <2>3, <2>5, <2>7, <2>9, <2>10, <2>11, <2>12, <2>13, <2>14, <2>15, PumpStep
<1>13. CASE ~Registers(after) /\ ~Fits(m, 1)
  <2>1. hub' = m /\ replay' = replay /\ pc' = pc BY <1>4, <1>13
  <2>2. cursor' = cursor BY <1>4, <2>1
  <2>3. UNCHANGED <<room, pump>> BY <1>3, <2>1, <2>2 DEF pump
  <2>4. /\ Sound(hub', Reserved(replay), Counted(pc), Subs \ deaf, Base(cursor, replay))
        /\ Evolves(hub, hub')
    BY <2>1, InvSound, MakeRoomSound DEF m
  <2> QED BY <2>3, <2>4, HubStep
<1> QED BY <1>11, <1>12, <1>13

-------------------------------------------------------------------------------
(***************************************************************************)
(* The theorems.                                                           *)
(***************************************************************************)
\* The hub starts empty.
LEMMA InitInv == Init => Inv
<1> SUFFICES ASSUME Init PROVE Inv OBVIOUS
<1> DEFINE zeros == [s \in Subs |-> 0]
           empty == [s \in Subs |-> <<>>]
<1>1. /\ hub = [next |-> 1, retained |-> <<>>, pending |-> 0, overflowed |-> FALSE, live |-> {},
                queue |-> empty, queued |-> zeros, cancelled |-> {},
                owed |-> [s \in Subs |-> None], failures |-> <<>>, bytes |-> 0]
      /\ room \in Rooms /\ pc = [s \in Subs |-> "none"] /\ replay = empty
      /\ cursor = zeros /\ told = zeros /\ deaf = {}
  BY DEF Init
<1>2. room \in Nat BY <1>1, EventHubAssumption
<1>3. /\ zeros \in [Subs -> Nat] /\ empty \in [Subs -> Seq(Events)]
      /\ [s \in Subs |-> None] \in [Subs -> Nat \cup {None}] /\ <<>> \in Seq(Failures)
  OBVIOUS
<1>4. SumFunction(zeros) = 0
  <2>1. IsFiniteSet(Subs) /\ \A s \in Subs : zeros[s] = 0 BY EventHubAssumption
  <2> HIDE DEF zeros
  <2> QED BY <1>3, <2>1, SumOfZeros
<1>5. Reserved(replay) = 0
  <2> DEFINE f == [s \in Subs |-> SumBytes(replay[s])]
  <2>1. f = zeros BY <1>1, SumBytesEmpty
  <2> QED BY <1>4, <2>1 DEF Reserved
<1> HIDE DEF zeros, empty
<1>6. hub \in Hub
  <2>1. 1 \in Nat \ {0} /\ 0 \in Nat /\ <<>> \in Seq(Events) /\ {} \in SUBSET Subs OBVIOUS
  <2> HIDE DEF Failures
  <2> QED BY <1>1, <1>3, <2>1 DEF Hub
<1>7. /\ hub.next = 1 /\ hub.retained = <<>> /\ hub.pending = 0 /\ hub.live = {}
      /\ hub.queue = empty /\ hub.queued = zeros /\ hub.cancelled = {}
      /\ hub.owed = [s \in Subs |-> None] /\ hub.failures = <<>> /\ hub.bytes = 0
  BY <1>1
<1>8. Exact(hub, Reserved(replay), Counted(pc))
  <2>1. Ledger(hub) = 0
    <3>1. Len(<<>>) = 0 OBVIOUS
    <3> QED BY <1>4, <1>7, <3>1, SumBytesEmpty DEF Ledger, FailureBytes
  <2>2. \A s \in Subs : hub.queued[s] = 0 /\ hub.queue[s] = <<>> BY <1>7 DEF zeros, empty
  <2>3. 0 <= room /\ hub.bytes = 0 /\ 0 = 0 + 0 BY <1>2, <1>7
  <2> QED BY <1>2, <1>5, <2>1, <2>2, <2>3, SumBytesEmpty DEF Exact, Counted
<1>9. \A s \in Subs : ~HasFailure(hub, s) BY <1>7 DEF HasFailure
<1>10. Ends(hub) BY <1>7, <1>9 DEF Ends, empty
<1>11. TailTo(hub, hub.next - 1) BY <1>7, EmptyTail
<1>12. HubInv BY <1>6, <1>7, <1>8, <1>10, <1>11 DEF HubInv, Sound, Keeps, Follows
<1>13. PumpInv
  <2>1. "none" \in Pcs BY DEF Pcs
  <2>2. \A s \in Subs : Pumped(hub, s, pc[s], replay[s], cursor[s], told[s])
    BY <1>1, <1>7 DEF Pumped, zeros, empty
  <2>3. \A s \in Subs : Heard(hub, s, pc[s]) BY <1>7 DEF Heard
  <2> QED BY <1>1, <1>3, <2>1, <2>2, <2>3 DEF PumpInv, zeros, empty
<1> QED BY <1>1, <1>12, <1>13 DEF Inv

\* Every operation and every step of a subscription keeps the invariant.
LEMMA NextInv == Inv /\ [Next]_vars => Inv'
<1> SUFFICES ASSUME Inv, [Next]_vars PROVE Inv' OBVIOUS
<1>1. CASE Publish BY <1>1, PublishStep
<1>2. CASE PushCapture BY <1>2, PushCaptureStep
<1>3. CASE FlushDue BY <1>3, FlushDueStep
<1>4. CASE SessionBytes BY <1>4, SessionBytesStep
<1>5. CASE ReclaimForLimit BY <1>5, ReclaimForLimitStep
<1>6. ASSUME NEW s \in Subs, Subscribe(s) PROVE Inv' BY <1>6, SubscribeStep
<1>7. ASSUME NEW s \in Subs, SendReplay(s) PROVE Inv' BY <1>7, SendReplayStep
<1>8. ASSUME NEW s \in Subs, StartPump(s) PROVE Inv' BY <1>8, StartPumpStep
<1>9. ASSUME NEW s \in Subs, Recv(s) PROVE Inv' BY <1>9, RecvStep
<1>10. ASSUME NEW s \in Subs, RecvSnapshot(s) PROVE Inv' BY <1>10, RecvSnapshotStep
<1>11. ASSUME NEW s \in Subs, RecvNone(s) PROVE Inv' BY <1>11, RecvNoneStep
<1>12. ASSUME NEW s \in Subs, TakeFailure(s) PROVE Inv' BY <1>12, TakeFailureStep
<1>13. ASSUME NEW s \in Subs, Unsubscribe(s) PROVE Inv' BY <1>13, UnsubscribeStep
<1>14. ASSUME NEW s \in Subs, DropReceiver(s) PROVE Inv' BY <1>14, DropReceiverStep
<1>15. ASSUME NEW s \in Subs, FinishDrop(s) PROVE Inv' BY <1>15, FinishDropStep
<1>16. ASSUME NEW s \in Subs, Quit(s) PROVE Inv' BY <1>16, QuitStep
<1>17. ASSUME NEW s \in Subs, HangUp(s) PROVE Inv' BY <1>17, HangUpStep
<1>18. CASE UNCHANGED vars
  <2>1. hub' = hub /\ room' = room /\ pc' = pc /\ replay' = replay /\ cursor' = cursor
        /\ told' = told /\ deaf' = deaf
    BY <1>18 DEF vars, pump
  <2>2. HubInv' BY <2>1 DEF Inv, HubInv, Sound, Keeps, Exact
  <2>3. PumpInv' BY <2>1 DEF Inv, PumpInv
  <2> QED BY <2>1, <2>2, <2>3 DEF Inv
<1> QED BY <1>1, <1>2, <1>3, <1>4, <1>5, <1>6, <1>7, <1>8, <1>9, <1>10, <1>11, <1>12, <1>13,
           <1>14, <1>15, <1>16, <1>17, <1>18 DEF Next

\* The invariant holds in every state: the hub is sound (its ledger exact, its log without a
\* hole, the queues in step with it) and every pump is where the hub thinks it is.
THEOREM HubInvariant == Spec => []Inv
BY InitInv, NextInv, PTL DEF Spec

\* The ledger is exact, whatever is published, reclaimed, cut off, delivered and dropped in
\* between (every reservation and release of events.rs, against the ledger of capacity.rs).
THEOREM LedgerIsExact == Spec => []LedgerExact
<1>1. Inv => LedgerExact
  <2> SUFFICES ASSUME Inv PROVE LedgerExact OBVIOUS
  <2>1. Exact(hub, Reserved(replay), Counted(pc)) BY DEF Inv, HubInv, Sound, Keeps
  <2>2. hub.bytes = Ledger(hub) + Reserved(replay) /\ hub.bytes <= room BY <2>1 DEF Exact
  <2>3. \A s \in Subs : pc[s] # "dropping" /\ pc[s] # "gone" => hub.queued[s] = SumBytes(hub.queue[s])
    BY <2>1 DEF Exact, Counted
  <2> QED BY <2>2, <2>3 DEF LedgerExact, Ledger, Reserved
<1> QED BY <1>1, HubInvariant, PTL

\* No registered subscriber that is heard misses an event or gets one twice, between the
\* replay and the live queue, and when others are cut off (subscribe, dispatch_live).
THEOREM NothingIsMissed == Spec => []NothingMissed
<1>1. Inv => NothingMissed
  <2> SUFFICES ASSUME Inv PROVE NothingMissed OBVIOUS
  <2>1. RetainedIsTail
    <3>1. TailTo(hub, hub.next - 1) /\ hub \in Hub BY DEF Inv, HubInv, Sound, Keeps
    <3>2. DOMAIN hub.retained = 1..Len(hub.retained) BY <3>1 DEF Hub
    <3> QED BY <3>1, <3>2 DEF TailTo, RetainedIsTail
  <2>2. ASSUME NEW s \in hub.live \ deaf
        PROVE  LET coming == replay[s] \o hub.queue[s]
               IN  /\ \A i \in DOMAIN coming : coming[i].id = cursor[s] + i
                   /\ pc[s] \in {"replay", "live"} => cursor[s] + Len(coming) = hub.next - 1
    <3> DEFINE a == replay[s]
               b == hub.queue[s]
               c == cursor[s]
               n == hub.next - 1
    <3>1. s \in Subs BY <2>2 DEF Inv, HubInv, Sound, Keeps, Hub
    <3>2. /\ a \in Seq(Events) /\ b \in Seq(Events) /\ c \in Nat /\ n \in Nat
          /\ Pumped(hub, s, pc[s], a, c, told[s]) /\ FollowsOne(hub, s, c + Len(a), n)
      BY <2>2, <3>1, InvAt DEF Hub
    <3>3. \A i \in 1..Len(a) : a[i].id = c + i BY <2>2, <3>2 DEF Pumped
    <3>4. /\ \A i \in 1..Len(b) : b[i].id = (c + Len(a)) + i
          /\ (c + Len(a)) + Len(b) = n
      BY <3>2 DEF FollowsOne
    <3> HIDE DEF a, b, c, n
    <3>5. /\ DOMAIN (a \o b) = 1..(Len(a) + Len(b)) /\ Len(a \o b) = Len(a) + Len(b)
          /\ \A i \in 1..(Len(a) + Len(b)) :
               (a \o b)[i] = IF i <= Len(a) THEN a[i] ELSE b[i - Len(a)]
          /\ Len(a) \in Nat /\ Len(b) \in Nat
      BY <3>2
    <3>6. ASSUME NEW i \in DOMAIN (a \o b) PROVE (a \o b)[i].id = c + i
      <4>1. CASE i <= Len(a)
        <5>1. i \in 1..Len(a) BY <3>5, <4>1
        <5> QED BY <3>3, <3>5, <4>1, <5>1
      <4>2. CASE ~(i <= Len(a))
        <5>1. i - Len(a) \in 1..Len(b) BY <3>5, <4>2
        <5>2. b[i - Len(a)].id = (c + Len(a)) + (i - Len(a)) BY <3>4, <5>1
        <5>3. (c + Len(a)) + (i - Len(a)) = c + i BY <3>2, <3>5
        <5> QED BY <3>5, <4>2, <5>2, <5>3
      <4> QED BY <4>1, <4>2
    <3>7. c + Len(a \o b) = n BY <3>2, <3>4, <3>5
    <3> QED BY <3>6, <3>7 DEF a, b, c, n
  <2> QED BY <2>1, <2>2 DEF NothingMissed
<1> QED BY <1>1, HubInvariant, PTL

\* What is sent to one subscription leaves the others' front ends alone.
LEMMA DeliverApart ==
  ASSUME NEW s \in Subs, NEW t \in Subs, s # t, NEW e, Deliver(t, e),
         cursor \in [Subs -> Nat], told \in [Subs -> Nat]
  PROVE  told'[s] = told[s] /\ cursor'[s] = cursor[s]
<1>1. told' = told \/ told' = [told EXCEPT ![t] = @ + 1] BY DEF Deliver
<1>2. cursor' = cursor \/ cursor' = [cursor EXCEPT ![t] = e.id] BY DEF Deliver
<1> QED BY <1>1, <1>2

\* Who was told has nothing left that could be sent.
LEMMA WordKept ==
  ASSUME Inv, [Next]_vars, NEW s \in Subs, told[s] > 0
  PROVE  told'[s] = told[s] /\ cursor'[s] = cursor[s]
<1>1. /\ cursor \in [Subs -> Nat] /\ told \in [Subs -> Nat] /\ told[s] \in Nat
      /\ Pumped(hub, s, pc[s], replay[s], cursor[s], told[s]) /\ EndsOne(hub, s) /\ hub \in Hub
  BY InvAt
<1>2. /\ s \notin hub.live /\ hub.owed[s] = None /\ ~HasFailure(hub, s) /\ replay[s] = <<>>
      /\ pc[s] # "none"
  BY <1>1 DEF Pumped
<1>3. s \notin hub.cancelled => hub.queue[s] = <<>> BY <1>1, <1>2 DEF EndsOne
<1>4. CASE UNCHANGED <<cursor, told>> BY <1>4
<1>5. ASSUME NEW t \in Subs, Subscribe(t) PROVE told'[s] = told[s] /\ cursor'[s] = cursor[s]
  <2>1. t # s BY <1>2, <1>5 DEF Subscribe
  <2>2. told' = told /\ \E after : cursor' = cursor \/ cursor' = [cursor EXCEPT ![t] = after]
    BY <1>5, Zenon DEF Subscribe
  <2> QED BY <1>1, <2>1, <2>2
<1>6. ASSUME NEW t \in Subs, SendReplay(t) PROVE told'[s] = told[s] /\ cursor'[s] = cursor[s]
  <2>1. t # s /\ Deliver(t, Head(replay[t])) BY <1>2, <1>6 DEF SendReplay
  <2> QED BY <1>1, <2>1, DeliverApart
<1>7. ASSUME NEW t \in Subs, Recv(t) PROVE told'[s] = told[s] /\ cursor'[s] = cursor[s]
  <2>1. t # s /\ Deliver(t, Head(hub.queue[t])) BY <1>3, <1>7 DEF Recv
  <2> QED BY <1>1, <2>1, DeliverApart
<1>8. ASSUME NEW t \in Subs, RecvSnapshot(t) PROVE told'[s] = told[s] /\ cursor'[s] = cursor[s]
  <2>1. t # s /\ Deliver(t, Snapshot(hub.owed[t])) BY <1>2, <1>8 DEF RecvSnapshot
  <2> QED BY <1>1, <2>1, DeliverApart
<1>9. ASSUME NEW t \in Subs, TakeFailure(t) PROVE told'[s] = told[s] /\ cursor'[s] = cursor[s]
  <2>1. DOMAIN hub.failures = 1..Len(hub.failures) BY <1>1 DEF Hub
  <2>2. CASE t = s
    <3>1. ~\E i \in DOMAIN hub.failures : hub.failures[i].sub = t BY <1>2, <2>1, <2>2 DEF HasFailure
    <3> QED BY <1>9, <3>1 DEF TakeFailure
  <2>3. CASE t # s
    <3>1. UNCHANGED <<cursor, told>> \/ Deliver(t, Snapshot(hub.next - 1)) BY <1>9 DEF TakeFailure
    <3> QED BY <1>1, <2>3, <3>1, DeliverApart
  <2> QED BY <2>2, <2>3
<1>10. Publish \/ PushCapture \/ FlushDue \/ SessionBytes \/ ReclaimForLimit \/ UNCHANGED vars
         => UNCHANGED <<cursor, told>>
  BY DEF Publish, PushCapture, FlushDue, SessionBytes, ReclaimForLimit, vars, pump
<1>11. ASSUME NEW t \in Subs,
              StartPump(t) \/ RecvNone(t) \/ Unsubscribe(t) \/ DropReceiver(t) \/ FinishDrop(t)
                \/ Quit(t) \/ HangUp(t)
       PROVE  UNCHANGED <<cursor, told>>
  BY <1>11 DEF StartPump, RecvNone, Unsubscribe, DropReceiver, FinishDrop, Quit, HangUp
<1> QED BY <1>4, <1>5, <1>6, <1>7, <1>8, <1>9, <1>10, <1>11 DEF Next

\* SnapshotRequired comes once, and nothing after it: recv, take_subscription_failure and
\* the replay never tell a front end twice.
THEOREM SnapshotIsLast == Spec => LastWord
<1>1. Inv /\ [Next]_vars => [\A s \in Subs : told[s] > 0 => told'[s] = told[s] /\ cursor'[s] = cursor[s]]_vars
  BY WordKept
<1> QED BY <1>1, HubInvariant, PTL DEF Spec, LastWord
-------------------------------------------------------------------------------
Acts == RuleActions \cup {t.act : t \in FilledIn}

\* A filled-in template is one of the actions, with its parameters.
LEMMA TemplatesAre ==
  ASSUME NEW n \in Int, NEW m \in Int, NEW on \in BOOLEAN
  PROVE  \A t \in RequestTemplates(n, on) \cup StatusTemplates(n) \cup ResponseTemplates(n)
                    \cup ShapingTemplates(n, m, on) :
           t.act.kind \in Kinds /\ Parameters(t.act)
<1> USE DEF Of, Kinds, Parameters, Edits, Terminals, RequestEnds, ResponseEnds
<1>1. \A t \in RequestTemplates(n, on) : t.act.kind \in Kinds /\ Parameters(t.act)
  <2> DEFINE drop == Of("request", [kind |-> "DropResponse", read |-> ~ on])
  <2>1. drop.act.kind = "DropResponse" /\ (drop.act.read <=> ~ on) OBVIOUS
  <2>2. drop.act.read \in BOOLEAN OBVIOUS
  <2>3. drop.act.kind \in Kinds /\ Parameters(drop.act) BY <2>1, <2>2
  <2> DEFINE others == {Of("tls", [kind |-> "RejectTls"]), Of("request", [kind |-> "Disconnect"]),
               Of("request", [kind |-> "Delay", ms |-> n]),
               Of("request", [kind |-> "SetJson", path |-> "good"]),
               Of("request", [kind |-> "ConnectTimeout", ms |-> n]),
               Of("request", [kind |-> "WriteTimeout", ms |-> n]),
               Of("request", [kind |-> "ReadTimeout", ms |-> n]),
               Of("request", [kind |-> "CutUpload", n |-> n])}
  <2>4. \A t \in others : t.act.kind \in Kinds /\ Parameters(t.act) OBVIOUS
  <2>5. RequestTemplates(n, on) = others \cup {drop}
    <3> HIDE DEF Of
    <3> QED BY Zenon DEF RequestTemplates
  <2> HIDE DEF drop, others
  <2> QED BY <2>3, <2>4, <2>5
<1>2. \A t \in StatusTemplates(n) : t.act.kind \in Kinds /\ Parameters(t.act)
  BY DEF StatusTemplates
<1>3. \A t \in ResponseTemplates(n) : t.act.kind \in Kinds /\ Parameters(t.act)
  BY DEF ResponseTemplates
<1>4. \A t \in ShapingTemplates(n, m, on) : t.act.kind \in Kinds /\ Parameters(t.act)
  BY DEF ShapingTemplates, Shaped
<1> QED BY <1>1, <1>2, <1>3, <1>4

\* So is every action a rule may have.
LEMMA ActsAre == \A a \in Acts : a.kind \in Kinds /\ Parameters(a) /\ a # Null
<1>1. ASSUME NEW t \in FilledIn PROVE t.act.kind \in Kinds /\ Parameters(t.act)
  <2>1. PICK n \in Given, m \in Given, on \in BOOLEAN :
          t \in RequestTemplates(n, on) \cup StatusTemplates(n) \cup ResponseTemplates(n)
                 \cup ShapingTemplates(n, m, on)
    BY DEF FilledIn
  <2>2. n \in Int /\ m \in Int BY ActionAssumption
  <2> QED BY <2>1, <2>2, TemplatesAre
<1> QED BY <1>1, ActionAssumption, FormAssumption DEF Acts
-------------------------------------------------------------------------------
\* Sums of sequences of numbers.
Summed(P, s) == P[0] = 0 /\ \A i \in 1..Len(s) : P[i] = P[i - 1] + s[i]

\* A sum is the last of its partial sums.
LEMMA SumSums ==
  ASSUME NEW s \in Seq(Int)
  PROVE  \E P \in [0..Len(s) -> Int] : Summed(P, s) /\ Sum(s) = P[Len(s)]
<1> DEFINE step == [p \in Int \X Int |-> p[2] + p[1]]
           Solution(f) == f = [T \in SUBSET DOMAIN s |->
                                 IF T = {} THEN 0 ELSE f[T \ {Max(T)}] + s[Max(T)]]
           C == CHOOSE f : Solution(f)
<1>1. step \in [Int \X Int -> Int] OBVIOUS
<1>2. PICK f \in [SUBSET DOMAIN s -> Int] : SolvesSequence(f, s, 0, step)
  <2> HIDE DEF step
  <2>1. 0 \in Int OBVIOUS
  <2> QED BY <1>1, <2>1, FoldOfSequence, Zenon
<1>3. ASSUME NEW T \in SUBSET DOMAIN s
      PROVE  f[T] = IF T = {} THEN 0 ELSE f[T \ {Max(T)}] + s[Max(T)]
  <2>1. f[T] = IF T = {} THEN 0 ELSE step[<<s[Max(T)], f[T \ {Max(T)}]>>]
    BY <1>2, Zenon DEF SolvesSequence
  <2>2. CASE T # {}
    <3>1. DOMAIN s = 1..Len(s) /\ Len(s) \in Nat OBVIOUS
    <3>2. Max(T) \in T BY <2>2, <3>1, MaxExists
    <3>3. s[Max(T)] \in Int BY <3>1, <3>2
    <3>4. f[T \ {Max(T)}] \in Int BY <1>2
    <3>5. step[<<s[Max(T)], f[T \ {Max(T)}]>>] = f[T \ {Max(T)}] + s[Max(T)]
      BY <3>3, <3>4
    <3> QED BY ONLY <2>1, <2>2, <3>5
  <2>3. CASE T = {} BY ONLY <2>1, <2>3
  <2> QED BY ONLY <2>1, <2>2, <2>3
<1>4. f = [T \in SUBSET DOMAIN s |-> IF T = {} THEN 0 ELSE f[T \ {Max(T)}] + s[Max(T)]]
  <2>1. f = [T \in SUBSET DOMAIN s |-> f[T]] BY <1>2
  <2> HIDE DEF step
  <2> QED BY ONLY <1>3, <2>1
<1>5. Solution(f) BY <1>4
<1>6. Solution(C) BY <1>5, Zenon
<1>7. Sum(s) = C[DOMAIN s] BY Zenon DEF Sum, FoldLeft, MapThenFoldSet
<1>8. DOMAIN s = 1..Len(s) /\ Len(s) \in Nat OBVIOUS
<1>9. \A T \in SUBSET DOMAIN s : C[T] = IF T = {} THEN 0 ELSE C[T \ {Max(T)}] + s[Max(T)]
  BY <1>6, Zenon
<1> HIDE DEF C, Solution, step
<1>10. C[1..0] = 0
  <2>1. 1..0 = {} OBVIOUS
  <2> QED BY <1>9, <2>1
<1>11. ASSUME NEW i \in 1..Len(s) PROVE C[1..i] = C[1..(i - 1)] + s[i]
  <2>0. i \in 1..Len(s) OBVIOUS
  <2>1. (1..i) \in SUBSET DOMAIN s /\ (1..i) # {}
    <3>1. i \in 1..i /\ \A j \in 1..i : j \in 1..Len(s) BY ONLY <1>8, <2>0
    <3> QED BY ONLY <1>8, <3>1, ZenonT(40)
  <2>2. Max(1..i) = i BY MaxOfInterval
  <2>3. (1..i) \ {i} = 1..(i - 1) OBVIOUS
  <2>4. C[1..i] = C[(1..i) \ {Max(1..i)}] + s[Max(1..i)] BY ONLY <1>9, <2>1, Zenon
  <2> QED BY ONLY <2>2, <2>3, <2>4
<1> DEFINE P == [i \in 0..Len(s) |-> C[1..i]]
           G == {i \in 0..Len(s) : C[1..i] \in Int}
<1>12. ASSUME NEW i \in 0..(Len(s) - 1), i \in G PROVE i + 1 \in G
  <2>1. i + 1 \in 1..Len(s) /\ (i + 1) - 1 = i BY <1>8
  <2>2. s[i + 1] \in Int BY <2>1
  <2> QED BY <1>11, <1>12, <2>1, <2>2
<1>13. \A i \in 0..Len(s) : i \in G
  <2>1. 0 \in G BY <1>8, <1>10
  <2>2. \A i \in 0..(Len(s) - 1) : i \in G => i + 1 \in G BY <1>12
  <2> HIDE DEF G
  <2> QED BY <1>8, <2>1, <2>2, Counting, Zenon
<1>14. P \in [0..Len(s) -> Int] BY <1>13
<1>15. Summed(P, s) BY <1>8, <1>10, <1>11 DEF Summed
<1>16. Sum(s) = P[Len(s)] BY <1>7, <1>8
<1> QED BY <1>14, <1>15, <1>16

\* Any sequence of partial sums ends in the sum.
LEMMA SumIs ==
  ASSUME NEW s \in Seq(Int), NEW Q, Summed(Q, s)
  PROVE  Sum(s) = Q[Len(s)]
<1>1. PICK P : Summed(P, s) /\ Sum(s) = P[Len(s)] BY SumSums
<1> DEFINE G == {i \in 0..Len(s) : P[i] = Q[i]}
<1>2. Len(s) \in Nat OBVIOUS
<1>3. 0 \in G BY <1>1, <1>2 DEF Summed
<1>4. ASSUME NEW i \in 0..(Len(s) - 1), i \in G PROVE i + 1 \in G
  <2>1. i + 1 \in 1..Len(s) /\ (i + 1) - 1 = i BY <1>2
  <2>2. P[i + 1] = P[i] + s[i + 1] /\ Q[i + 1] = Q[i] + s[i + 1] BY <1>1, <2>1 DEF Summed
  <2> QED BY <1>4, <2>1, <2>2
<1>5. \A i \in 0..(Len(s) - 1) : i \in G => i + 1 \in G BY <1>4
<1> HIDE DEF G
<1>6. \A i \in 0..Len(s) : i \in G BY <1>2, <1>3, <1>5, Counting, Zenon
<1> QED BY <1>1, <1>2, <1>6 DEF G

\* Nothing adds up to zero.
LEMMA SumEmpty == Sum(<<>>) = 0
<1>1. <<>> \in Seq(Int) /\ Len(<<>>) = 0 OBVIOUS
<1>2. Summed([i \in {0} |-> 0], <<>>) BY <1>1 DEF Summed
<1> QED BY <1>1, <1>2, SumIs

\* What is appended is added.
LEMMA SumAppend ==
  ASSUME NEW s \in Seq(Int), NEW e \in Int
  PROVE  Sum(s) \in Int /\ Sum(Append(s, e)) = Sum(s) + e
<1>1. PICK P \in [0..Len(s) -> Int] : Summed(P, s) /\ Sum(s) = P[Len(s)] BY SumSums
<1> DEFINE n == Len(s) + 1
           Q == [i \in 0..n |-> IF i = n THEN P[Len(s)] + e ELSE P[i]]
<1>2. Append(s, e) \in Seq(Int) /\ Len(Append(s, e)) = n /\ n \in Nat /\ Len(s) \in Nat OBVIOUS
<1>3. \A i \in 1..n : Append(s, e)[i] = IF i = n THEN e ELSE s[i] OBVIOUS
<1>4. ASSUME NEW i \in 1..n PROVE Q[i] = Q[i - 1] + Append(s, e)[i]
  <2>1. CASE i = n BY <1>2, <1>3, <2>1
  <2>2. CASE i # n
    <3>1. i \in 1..Len(s) /\ i - 1 \in 0..n /\ i - 1 # n /\ i \in 0..n BY <1>2, <2>2
    <3>2. P[i] = P[i - 1] + s[i] BY <1>1, <3>1 DEF Summed
    <3> QED BY <1>3, <2>2, <3>1, <3>2
  <2> QED BY <2>1, <2>2
<1>5. Summed(Q, Append(s, e)) BY <1>1, <1>2, <1>4 DEF Summed
<1> HIDE DEF Q
<1>6. Sum(Append(s, e)) = Q[n] BY <1>2, <1>5, SumIs
<1> QED BY <1>1, <1>2, <1>6 DEF Q

\* The delay of one action.
LEMMA TotalOfOne ==
  ASSUME NEW a, DelayOf(a) \in Int PROVE Total(<<a>>) = DelayOf(a)
<1> DEFINE one == [i \in DOMAIN <<a>> |-> DelayOf(<<a>>[i])]
<1>1. <<>> \in Seq(Int) /\ Append(<<>>, DelayOf(a)) = <<DelayOf(a)>> OBVIOUS
<1>2. one = <<DelayOf(a)>> OBVIOUS
<1>3. Sum(<<DelayOf(a)>>) = 0 + DelayOf(a) BY <1>1, SumAppend, SumEmpty
<1> QED BY <1>2, <1>3 DEF Total
-------------------------------------------------------------------------------
\* C[i] is what is left of the first i actions of s.
FaultsOf(C, s) ==
  C[0] = <<>> /\ \A i \in 1..Len(s) :
    C[i] = IF s[i].kind \in Edits \cup {"Pause"} THEN C[i - 1] ELSE Append(C[i - 1], s[i])

\* Faults is the last of the sequences it goes through.
LEMMA FaultsLeave ==
  ASSUME NEW A, NEW s \in Seq(A)
  PROVE  \E C : FaultsOf(C, s) /\ Faults(s) = C[Len(s)]
<1> DEFINE step == [p \in A \X Seq(A) |->
                      IF p[1].kind \in Edits \cup {"Pause"} THEN p[2] ELSE Append(p[2], p[1])]
           Solution(f) == f = [T \in SUBSET DOMAIN s |->
                                 IF T = {} THEN <<>>
                                 ELSE IF s[Max(T)].kind \in Edits \cup {"Pause"} THEN f[T \ {Max(T)}]
                                 ELSE Append(f[T \ {Max(T)}], s[Max(T)])]
           D == CHOOSE f : Solution(f)
<1>1. step \in [A \X Seq(A) -> Seq(A)]
  <2>1. ASSUME NEW p \in A \X Seq(A)
        PROVE  (IF p[1].kind \in Edits \cup {"Pause"} THEN p[2] ELSE Append(p[2], p[1])) \in Seq(A)
    <3>1. p[1] \in A /\ p[2] \in Seq(A) OBVIOUS
    <3>2. Append(p[2], p[1]) \in Seq(A) BY <3>1, AppendProperties
    <3> QED BY <3>1, <3>2
  <2> QED BY <2>1
<1>2. PICK f \in [SUBSET DOMAIN s -> Seq(A)] : SolvesSequence(f, s, <<>>, step)
  <2> HIDE DEF step
  <2>1. <<>> \in Seq(A) OBVIOUS
  <2> QED BY <1>1, <2>1, FoldOfSequence, Zenon
<1>3. ASSUME NEW T \in SUBSET DOMAIN s
      PROVE  f[T] = IF T = {} THEN <<>>
                    ELSE IF s[Max(T)].kind \in Edits \cup {"Pause"} THEN f[T \ {Max(T)}]
                    ELSE Append(f[T \ {Max(T)}], s[Max(T)])
  <2>1. f[T] = IF T = {} THEN <<>> ELSE step[<<s[Max(T)], f[T \ {Max(T)}]>>]
    BY <1>2, Zenon DEF SolvesSequence
  <2>2. CASE T # {}
    <3>1. DOMAIN s = 1..Len(s) /\ Len(s) \in Nat OBVIOUS
    <3>2. Max(T) \in T BY <2>2, <3>1, MaxExists
    <3>3. s[Max(T)] \in A BY <3>1, <3>2
    <3>4. f[T \ {Max(T)}] \in Seq(A) BY <1>2
    <3>5. <<s[Max(T)], f[T \ {Max(T)}]>> \in A \X Seq(A) BY <3>3, <3>4
    <3>6. step[<<s[Max(T)], f[T \ {Max(T)}]>>]
             = IF s[Max(T)].kind \in Edits \cup {"Pause"} THEN f[T \ {Max(T)}]
               ELSE Append(f[T \ {Max(T)}], s[Max(T)])
      BY <3>5
    <3> HIDE DEF step
    <3> QED BY ONLY <2>1, <2>2, <3>6
  <2>3. CASE T = {} BY ONLY <2>1, <2>3
  <2> QED BY ONLY <2>2, <2>3
<1>4. Solution(f)
  <2>1. f = [T \in SUBSET DOMAIN s |-> f[T]] BY <1>2
  <2> HIDE DEF step
  <2> QED BY ONLY <1>3, <2>1
<1>5. Solution(D) BY <1>4, Zenon
<1>6. Faults(s) = D[DOMAIN s] BY Zenon DEF Faults, FoldLeft, MapThenFoldSet
<1>7. DOMAIN s = 1..Len(s) /\ Len(s) \in Nat OBVIOUS
<1>8. \A T \in SUBSET DOMAIN s :
        D[T] = IF T = {} THEN <<>>
               ELSE IF s[Max(T)].kind \in Edits \cup {"Pause"} THEN D[T \ {Max(T)}]
               ELSE Append(D[T \ {Max(T)}], s[Max(T)])
  BY <1>5, Zenon
<1> HIDE DEF D, Solution, step
<1>9. D[1..0] = <<>>
  <2>1. 1..0 = {} OBVIOUS
  <2> QED BY <1>8, <2>1
<1>10. ASSUME NEW i \in 1..Len(s)
       PROVE  D[1..i] = IF s[i].kind \in Edits \cup {"Pause"} THEN D[1..(i - 1)]
                        ELSE Append(D[1..(i - 1)], s[i])
  <2>1. (1..i) \in SUBSET DOMAIN s /\ (1..i) # {} BY <1>7
  <2>2. Max(1..i) = i BY MaxOfInterval
  <2>3. (1..i) \ {i} = 1..(i - 1) OBVIOUS
  <2>4. D[1..i] = IF s[Max(1..i)].kind \in Edits \cup {"Pause"} THEN D[(1..i) \ {Max(1..i)}]
                  ELSE Append(D[(1..i) \ {Max(1..i)}], s[Max(1..i)])
    BY ONLY <1>8, <2>1, Zenon
  <2> QED BY ONLY <2>2, <2>3, <2>4
<1> DEFINE C == [i \in 0..Len(s) |-> D[1..i]]
<1>11. FaultsOf(C, s) BY <1>7, <1>9, <1>10 DEF FaultsOf
<1>12. Faults(s) = C[Len(s)] BY <1>6, <1>7
<1> QED BY <1>11, <1>12

\* A fault is one of the actions, and the last one only if it is the last of them.
LEMMA FaultsAre ==
  ASSUME NEW A, NEW s \in Seq(A)
  PROVE  /\ Faults(s) \in Seq(A)
         /\ \A j \in 1..Len(Faults(s)) : \E i \in 1..Len(s) :
              /\ Faults(s)[j] = s[i] /\ s[i].kind \notin Edits \cup {"Pause"}
              /\ i = Len(s) => j = Len(Faults(s))
<1>1. PICK C : FaultsOf(C, s) /\ Faults(s) = C[Len(s)] BY FaultsLeave
<1> DEFINE E == Edits \cup {"Pause"}
           Good(c, n) == /\ c \in Seq(A)
                         /\ \A j \in 1..Len(c) : \E i \in 1..n :
                              c[j] = s[i] /\ s[i].kind \notin E /\ (i = n => j = Len(c))
           G == {i \in 0..Len(s) : Good(C[i], i)}
<1>2. Len(s) \in Nat OBVIOUS
<1>3. 0 \in G
  <2>1. C[0] = <<>> BY <1>1, Zenon DEF FaultsOf
  <2>2. Good(<<>>, 0) OBVIOUS
  <2>3. 0 \in 0..Len(s) BY <1>2
  <2> HIDE DEF Good
  <2> QED BY <2>1, <2>2, <2>3
<1>4. ASSUME NEW n \in 0..(Len(s) - 1), n \in G PROVE n + 1 \in G
  <2> DEFINE c == C[n]
  <2>1. n + 1 \in 1..Len(s) /\ (n + 1) - 1 = n /\ n + 1 \in 0..Len(s) BY <1>2
  <2>2. C[n + 1] = IF s[n + 1].kind \in E THEN c ELSE Append(c, s[n + 1])
    BY <1>1, <2>1 DEF FaultsOf
  <2>3. Good(c, n) BY <1>4
  <2> HIDE DEF c, E
  <2>4. CASE s[n + 1].kind \notin E
    <3>1. s[n + 1] \in A BY <2>1
    <3> DEFINE d == Append(c, s[n + 1])
    <3>2. /\ d \in Seq(A) /\ Len(d) = Len(c) + 1 /\ Len(c) \in Nat
          /\ \A j \in 1..Len(c) : d[j] = c[j]
          /\ d[Len(c) + 1] = s[n + 1]
      BY <2>3, <3>1, AppendProperties
    <3> HIDE DEF d
    <3>3. ASSUME NEW j \in 1..Len(d)
          PROVE  \E i \in 1..n + 1 : d[j] = s[i] /\ s[i].kind \notin E /\ (i = n + 1 => j = Len(d))
      <4>1. CASE j = Len(d) BY <2>4, <3>2, <4>1
      <4>2. CASE j # Len(d)
        <5>1. j \in 1..Len(c) BY <3>2, <4>2
        <5>2. PICK i \in 1..n : c[j] = s[i] /\ s[i].kind \notin E BY <2>3, <5>1
        <5>3. i \in 1..n + 1 /\ i # n + 1 BY <5>2
        <5> QED BY <3>2, <5>1, <5>2, <5>3
      <4> QED BY <4>1, <4>2
    <3>4. Good(d, n + 1) BY <3>2, <3>3
    <3> HIDE DEF Good
    <3> QED BY <2>1, <2>2, <2>4, <3>4 DEF d
  <2>5. CASE s[n + 1].kind \in E
    <3>1. ASSUME NEW j \in 1..Len(c)
          PROVE  \E i \in 1..n + 1 : c[j] = s[i] /\ s[i].kind \notin E /\ (i = n + 1 => j = Len(c))
      <4>1. PICK i \in 1..n : c[j] = s[i] /\ s[i].kind \notin E BY <2>3
      <4>2. i \in 1..n + 1 /\ i # n + 1 BY <4>1
      <4> QED BY <4>1, <4>2
    <3>2. Good(c, n + 1) BY <2>3, <3>1
    <3> HIDE DEF Good
    <3> QED BY <2>1, <2>2, <2>5, <3>2
  <2> QED BY <2>4, <2>5
<1>5. \A i \in 0..(Len(s) - 1) : i \in G => i + 1 \in G BY <1>4
<1> HIDE DEF G
<1>6. \A i \in 0..Len(s) : i \in G BY <1>2, <1>3, <1>5, Counting, Zenon
<1>7. Good(Faults(s), Len(s))
  <2>1. Len(s) \in 0..Len(s) BY <1>2
  <2>2. Len(s) \in G BY <1>6, <2>1
  <2> HIDE DEF Good
  <2>3. Good(C[Len(s)], Len(s)) BY <2>2 DEF G
  <2> QED BY <1>1, <2>3
<1> QED BY <1>7
-------------------------------------------------------------------------------
\* The concatenations of the first of some sequences exist.
LEMMA FlattenExists ==
  ASSUME NEW A, NEW ss \in Seq(Seq(A))
  PROVE  \E f \in [1..Len(ss) -> Seq(A)] : \A i \in 1..Len(ss) :
           f[i] = IF i = 1 THEN ss[i] ELSE f[i - 1] \o ss[i]
<1> DEFINE Good(f, n) == f \in [1..n -> Seq(A)] /\ \A i \in 1..n :
                           f[i] = IF i = 1 THEN ss[i] ELSE f[i - 1] \o ss[i]
           G == {n \in 0..Len(ss) : \E f : Good(f, n)}
<1>1. Len(ss) \in Nat /\ \A i \in 1..Len(ss) : ss[i] \in Seq(A) OBVIOUS
<1>2. 0 \in G
  <2>1. Good(<<>>, 0) OBVIOUS
  <2> HIDE DEF Good
  <2> QED BY <1>1, <2>1
<1>3. ASSUME NEW n \in 0..(Len(ss) - 1), n \in G PROVE n + 1 \in G
  <2>1. PICK f : Good(f, n) BY <1>3
  <2>2. n \in Nat /\ n + 1 \in 1..Len(ss) /\ n + 1 \in 0..Len(ss) BY <1>1
  <2> DEFINE last == IF n = 0 THEN ss[n + 1] ELSE f[n] \o ss[n + 1]
             g == [i \in 1..n + 1 |-> IF i = n + 1 THEN last ELSE f[i]]
  <2>3. last \in Seq(A)
    <3>1. n # 0 => f[n] \in Seq(A) BY <2>1, <2>2
    <3>2. ss[n + 1] \in Seq(A) BY <1>1, <2>2
    <3> QED BY <3>1, <3>2, ConcatProperties
  <2>4. \A i \in 1..n + 1 : i # n + 1 => i \in 1..n BY <2>2
  <2>5. g \in [1..n + 1 -> Seq(A)] BY <2>1, <2>3, <2>4
  <2>6. ASSUME NEW i \in 1..n + 1
        PROVE  g[i] = IF i = 1 THEN ss[i] ELSE g[i - 1] \o ss[i]
    <3>1. CASE i = n + 1
      <4>1. g[i] = last BY <3>1
      <4>2. n # 0 => n \in 1..n + 1 /\ g[n] = f[n] /\ i - 1 = n BY <2>2, <3>1
      <4>3. i = 1 <=> n = 0 BY <2>2, <3>1
      <4> QED BY <3>1, <4>1, <4>2, <4>3
    <3>2. CASE i # n + 1
      <4>1. i \in 1..n /\ g[i] = f[i] BY <2>4, <3>2
      <4>2. i # 1 => i - 1 \in 1..n + 1 /\ i - 1 # n + 1 /\ g[i - 1] = f[i - 1] BY <2>2, <4>1
      <4> QED BY <2>1, <4>1, <4>2
    <3> QED BY <3>1, <3>2
  <2> HIDE DEF g
  <2>7. Good(g, n + 1) BY <2>5, <2>6
  <2> QED BY <2>2, <2>7
<1>4. \A n \in 0..(Len(ss) - 1) : n \in G => n + 1 \in G BY <1>3
<1> HIDE DEF G
<1>5. Len(ss) \in G
  <2>1. \A n \in 0..Len(ss) : n \in G BY <1>1, <1>2, <1>4, Counting, Zenon
  <2> QED BY <1>1, <2>1
<1> QED BY <1>5 DEF G

\* What is flattened out of sequences is in one of them.
LEMMA FlattenIs ==
  ASSUME NEW A, NEW ss \in Seq(Seq(A))
  PROVE  /\ FlattenSeq(ss) \in Seq(A)
         /\ \A j \in 1..Len(FlattenSeq(ss)) : \E k \in 1..Len(ss) : \E i \in 1..Len(ss[k]) :
              FlattenSeq(ss)[j] = ss[k][i]
<1>1. Len(ss) \in Nat /\ \A i \in 1..Len(ss) : ss[i] \in Seq(A) OBVIOUS
<1>2. CASE Len(ss) = 0
  <2>1. FlattenSeq(ss) = ss /\ ss = <<>> BY <1>2 DEF FlattenSeq
  <2> QED BY <2>1
<1>3. CASE Len(ss) # 0
  <2> DEFINE n == Len(ss)
             Solution(f) == f = [i \in 1..n |-> IF i = 1 THEN ss[i] ELSE f[i - 1] \o ss[i]]
             D == CHOOSE f : Solution(f)
  <2>1. PICK f \in [1..n -> Seq(A)] : \A i \in 1..n :
          f[i] = IF i = 1 THEN ss[i] ELSE f[i - 1] \o ss[i]
    BY FlattenExists
  <2>2. Solution(f)
    <3>1. f = [i \in 1..n |-> f[i]] BY <2>1
    <3> QED BY <2>1, <3>1
  <2>3. Solution(D) BY <2>2, Zenon
  <2>4. FlattenSeq(ss) = D[n] BY <1>3, Zenon DEF FlattenSeq
  <2>5. \A i \in 1..n : D[i] = IF i = 1 THEN ss[i] ELSE D[i - 1] \o ss[i] BY <2>3, Zenon
  <2> HIDE DEF D, Solution
  <2> DEFINE Good(c, m) == /\ c \in Seq(A)
                           /\ \A j \in 1..Len(c) : \E k \in 1..m : \E i \in 1..Len(ss[k]) : c[j] = ss[k][i]
             G == {m \in 0..n : m = 0 \/ Good(D[m], m)}
  <2>6. 0 \in G BY <1>1
  <2>7. ASSUME NEW m \in 0..(n - 1), m \in G PROVE m + 1 \in G
    <3>1. m + 1 \in 1..n /\ (m + 1) - 1 = m /\ m + 1 \in 0..n /\ m \in Nat BY <1>1
    <3>2. D[m + 1] = IF m + 1 = 1 THEN ss[m + 1] ELSE D[m] \o ss[m + 1] BY <2>5, <3>1
    <3>3. ss[m + 1] \in Seq(A) BY <1>1, <3>1
    <3>4. CASE m = 0
      <4>1. D[m + 1] = ss[m + 1] BY <3>2, <3>4
      <4>2. Good(ss[m + 1], m + 1) BY <3>1, <3>3
      <4> HIDE DEF Good
      <4> QED BY <3>1, <4>1, <4>2
    <3>5. CASE m # 0
      <4> DEFINE c == D[m]
                 d == c \o ss[m + 1]
      <4>1. Good(c, m) BY <2>7, <3>5
      <4>2. D[m + 1] = d
        <5>1. m + 1 # 1 BY <3>1, <3>5
        <5> QED BY ONLY <3>2, <5>1
      <4> HIDE DEF c
      <4>3. /\ d \in Seq(A) /\ Len(d) = Len(c) + Len(ss[m + 1])
            /\ \A j \in 1..Len(d) : d[j] = IF j <= Len(c) THEN c[j] ELSE ss[m + 1][j - Len(c)]
            /\ Len(c) \in Nat /\ Len(ss[m + 1]) \in Nat
        BY <3>3, <4>1, ConcatProperties
      <4> HIDE DEF d
      <4>4. ASSUME NEW j \in 1..Len(d)
            PROVE  \E k \in 1..m + 1 : \E i \in 1..Len(ss[k]) : d[j] = ss[k][i]
        <5>1. CASE j <= Len(c)
          <6>0. j \in 1..Len(c) BY <4>3, <5>1
          <6>1. PICK k \in 1..m : \E i \in 1..Len(ss[k]) : c[j] = ss[k][i] BY <4>1, <6>0
          <6>2. k \in 1..m + 1 BY <6>1
          <6> QED BY <4>3, <5>1, <6>1, <6>2
        <5>2. CASE j > Len(c)
          <6>1. j - Len(c) \in 1..Len(ss[m + 1]) /\ d[j] = ss[m + 1][j - Len(c)] /\ m + 1 \in 1..m + 1
            BY <3>1, <4>3, <5>2
          <6> QED BY <6>1
        <5> QED BY <4>3, <5>1, <5>2
      <4>5. Good(d, m + 1) BY <4>3, <4>4
      <4> HIDE DEF Good
      <4> QED BY <3>1, <4>2, <4>5
    <3> QED BY <3>4, <3>5
  <2>8. \A m \in 0..(n - 1) : m \in G => m + 1 \in G BY <2>7
  <2>9. Good(D[n], n)
    <3> HIDE DEF G, Good
    <3>1. \A m \in 0..n : m \in G BY <1>1, <2>6, <2>8, Counting, Zenon
    <3>2. n \in G BY <1>1, <3>1
    <3> QED BY <1>3, <3>2 DEF G
  <2> HIDE DEF Good
  <2>10. Good(FlattenSeq(ss), n) BY <2>4, <2>9
  <2> QED BY <2>10 DEF Good
<1> QED BY <1>2, <1>3
-------------------------------------------------------------------------------
Marks == {b.id : b \in Bodies} \cup {"json", "text", "user", "bad", "mock"}
BodyType == [id : Marks, len : Nat, json : {"no", "bare", "yes"}]
MessageType == [body : BodyType, status : Int, declared : Int]

\* A message as it is received is a message.
LEMMA PlainIs == \A b \in BodyType : Plain(b) \in MessageType /\ Plain(b).body = b
BY DEF Plain, BodyType, MessageType

\* A text is a body.
LEMMA TextIs == \A id \in Marks, n \in Nat : Text(id, n) \in BodyType /\ Text(id, n).id = id
BY DEF Text, BodyType

\* An edit leaves a message, or nothing.
LEMMA EditedIs ==
  ASSUME NEW a, Parameters(a), NEW m \in MessageType \cup {Null}
  PROVE  Edited(m, a) \in MessageType \cup {Null}
<1>1. CASE m = Null BY <1>1 DEF Edited
<1>2. CASE m # Null /\ a.kind = "SetJson"
  <2>1. m \in MessageType BY <1>2
  <2>2. m.body \in BodyType BY <2>1 DEF MessageType
  <2>3. [m EXCEPT !.body.id = "json"] \in MessageType
    <3> DEFINE b == [m.body EXCEPT !.id = "json"]
    <3>1. b \in BodyType BY <2>2 DEF BodyType, Marks
    <3>2. [m EXCEPT !.body.id = "json"] = [m EXCEPT !.body = b] BY <2>1 DEF MessageType
    <3> HIDE DEF b
    <3> QED BY <2>1, <3>1, <3>2 DEF MessageType
  <2>4. Edited(m, a) = IF m.body.json = "yes" THEN [m EXCEPT !.body.id = "json"] ELSE Null
    BY <1>2 DEF Edited
  <2> QED BY <2>3, <2>4
<1>3. CASE m # Null /\ a.kind = "ReplaceBody"
  <2>1. a.len \in Nat BY <1>3 DEF Parameters
  <2>2. Plain(Text("text", a.len)) \in MessageType
    <3>1. Text("text", a.len) \in BodyType BY <2>1, TextIs DEF Marks
    <3> QED BY <3>1, PlainIs
  <2>3. Edited(m, a) = Plain(Text("text", a.len)) BY <1>3 DEF Edited
  <2> QED BY <2>2, <2>3
<1>4. CASE m # Null /\ a.kind # "SetJson" /\ a.kind # "ReplaceBody"
  BY <1>4 DEF Edited
<1> QED BY <1>1, <1>2, <1>3, <1>4

\* What the rules make of a message is a message, or nothing.
LEMMA EditsAre ==
  ASSUME NEW A, \A a \in A : Parameters(a), NEW s \in Seq(A), NEW m \in MessageType
  PROVE  FoldLeft(Edited, m, s) \in MessageType \cup {Null}
<1> DEFINE H == MessageType \cup {Null}
           step == [p \in A \X H |-> Edited(p[2], p[1])]
           Solution(f) == f = [T \in SUBSET DOMAIN s |->
                                 IF T = {} THEN m ELSE Edited(f[T \ {Max(T)}], s[Max(T)])]
           D == CHOOSE f : Solution(f)
<1> HIDE DEF H
<1>1. step \in [A \X H -> H]
  <2>1. ASSUME NEW p \in A \X H PROVE Edited(p[2], p[1]) \in H
    <3>1. p[1] \in A /\ p[2] \in H OBVIOUS
    <3> QED BY <3>1, EditedIs DEF H
  <2> QED BY <2>1
<1>2. PICK f \in [SUBSET DOMAIN s -> H] : SolvesSequence(f, s, m, step)
  <2> HIDE DEF step
  <2>1. m \in H BY DEF H
  <2> QED BY <1>1, <2>1, FoldOfSequence, Zenon
<1>3. DOMAIN s = 1..Len(s) /\ Len(s) \in Nat /\ \A i \in 1..Len(s) : s[i] \in A OBVIOUS
<1>4. ASSUME NEW T \in SUBSET DOMAIN s
      PROVE  f[T] = IF T = {} THEN m ELSE Edited(f[T \ {Max(T)}], s[Max(T)])
  <2>1. f[T] = IF T = {} THEN m ELSE step[<<s[Max(T)], f[T \ {Max(T)}]>>]
    BY <1>2, Zenon DEF SolvesSequence
  <2>2. CASE T # {}
    <3>1. Max(T) \in T BY <1>3, <2>2, MaxExists
    <3>2. s[Max(T)] \in A BY <1>3, <3>1
    <3>3. f[T \ {Max(T)}] \in H BY <1>2
    <3>4. <<s[Max(T)], f[T \ {Max(T)}]>> \in A \X H BY <3>2, <3>3
    <3>5. step[<<s[Max(T)], f[T \ {Max(T)}]>>] = Edited(f[T \ {Max(T)}], s[Max(T)])
      BY <3>4
    <3> HIDE DEF step
    <3> QED BY ONLY <2>1, <2>2, <3>5
  <2>3. CASE T = {} BY ONLY <2>1, <2>3
  <2> QED BY ONLY <2>2, <2>3
<1>5. Solution(f)
  <2>1. f = [T \in SUBSET DOMAIN s |-> f[T]] BY <1>2
  <2> HIDE DEF step
  <2> QED BY ONLY <1>4, <2>1
<1>6. Solution(D) BY <1>5, Zenon
<1>7. FoldLeft(Edited, m, s) = D[DOMAIN s] BY Zenon DEF FoldLeft, MapThenFoldSet
<1>8. \A T \in SUBSET DOMAIN s : D[T] = IF T = {} THEN m ELSE Edited(D[T \ {Max(T)}], s[Max(T)])
  BY <1>6, Zenon
<1> HIDE DEF D, Solution, step
<1> DEFINE G == {i \in 0..Len(s) : D[1..i] \in H}
<1>9. 0 \in G
  <2>1. 1..0 = {} /\ m \in H BY DEF H
  <2>2. D[1..0] = m BY <1>8, <2>1
  <2> QED BY <1>3, <2>1, <2>2
<1>10. ASSUME NEW n \in 0..(Len(s) - 1), n \in G PROVE n + 1 \in G
  <2> DEFINE i == n + 1
  <2>1. i \in 1..Len(s) /\ i - 1 = n /\ i \in 0..Len(s) /\ i \in Nat /\ i > 0 BY <1>3
  <2>2. (1..i) \in SUBSET DOMAIN s /\ (1..i) # {}
    <3> HIDE DEF i
    <3>1. 1 \in 1..i /\ \A x \in 1..i : x \in 1..Len(s) BY <1>3, <2>1
    <3> QED BY <1>3, <3>1
  <2>3. Max(1..i) = i BY <2>1, MaxOfInterval
  <2>4. (1..i) \ {i} = 1..n BY <2>1
  <2>5. D[1..i] = Edited(D[(1..i) \ {Max(1..i)}], s[Max(1..i)]) BY ONLY <1>8, <2>2, Zenon
  <2>6. D[1..i] = Edited(D[1..n], s[i]) BY ONLY <2>3, <2>4, <2>5
  <2>7. D[1..n] \in MessageType \cup {Null} BY <1>10 DEF H
  <2>8. Parameters(s[i]) BY <1>3, <2>1
  <2>9. D[1..i] \in H BY <2>6, <2>7, <2>8, EditedIs DEF H
  <2> QED BY <2>1, <2>9
<1>11. \A n \in 0..(Len(s) - 1) : n \in G => n + 1 \in G BY <1>10
<1> HIDE DEF G
<1>12. \A n \in 0..Len(s) : n \in G BY <1>3, <1>9, <1>11, Counting, Zenon
<1>13. Len(s) \in G BY <1>3, <1>12
<1> QED BY <1>3, <1>7, <1>13 DEF G, H
-------------------------------------------------------------------------------
RuleType == [stage : {"tls", "request", "response"}, acts : Seq(Acts)]

RulesInv ==
  /\ rules \in Seq(RuleType)
  /\ \A i \in 1..Len(rules) : \A j \in 1..Len(rules[i].acts) :
       Compatible(rules[i].stage, rules[i].acts[j])

\* What is composed for a stage fits it, and nothing follows what ends the message.
LEMMA ComposedIs ==
  ASSUME RulesInv, NEW st, NEW hits
  PROVE  /\ Composed(st, hits) \in Seq(Acts)
         /\ \A i \in 1..Len(Composed(st, hits)) :
              /\ Compatible(st, Composed(st, hits)[i])
              /\ Composed(st, hits)[i].kind \in Terminals => i = Len(Composed(st, hits))
<1> DEFINE A == {a \in Acts : Compatible(st, a)}
           ss == [i \in DOMAIN rules |->
                    IF i \in hits /\ rules[i].stage = st THEN rules[i].acts ELSE <<>>]
           all == FlattenSeq(ss)
           n == FirstEnd(all)
           ends == {i \in DOMAIN all : all[i].kind \in Terminals}
<1>1. ss \in Seq(Seq(A))
  <2>1. DOMAIN rules = 1..Len(rules) /\ Len(rules) \in Nat BY DEF RulesInv
  <2>2. ASSUME NEW i \in 1..Len(rules), rules[i].stage = st PROVE rules[i].acts \in Seq(A)
    <3>1. rules[i] \in RuleType BY DEF RulesInv
    <3>2. rules[i].acts \in Seq(Acts) BY <3>1 DEF RuleType
    <3>3. \A j \in 1..Len(rules[i].acts) : rules[i].acts[j] \in A BY <2>2, <3>2 DEF RulesInv
    <3> HIDE DEF A
    <3> QED BY <3>2, <3>3
  <2>3. <<>> \in Seq(A) OBVIOUS
  <2> HIDE DEF A
  <2>4. \A i \in 1..Len(rules) :
          (IF i \in hits /\ rules[i].stage = st THEN rules[i].acts ELSE <<>>) \in Seq(A)
    BY <2>2, <2>3
  <2> QED BY <2>1, <2>4
<1> HIDE DEF A, ss
<1>2. all \in Seq(A) BY <1>1, FlattenIs
<1>3. Composed(st, hits) = SubSeq(all, 1, n) BY Zenon DEF Composed, ss
<1> HIDE DEF all
<1>4. /\ n \in 0..Len(all)
      /\ \A i \in 1..Len(all) : i < n => all[i].kind \notin Terminals
  <2>1. DOMAIN all = 1..Len(all) /\ Len(all) \in Nat BY <1>2
  <2>2. CASE ends = {}
    <3>1. n = Len(all) BY <2>2 DEF FirstEnd
    <3> QED BY <2>1, <2>2, <3>1
  <2>3. CASE ends # {}
    <3>1. n = Min(ends) BY <2>3, Zenon DEF FirstEnd, Min
    <3>2. ends \in SUBSET Nat BY <2>1
    <3>3. n \in ends /\ \A x \in ends : n <= x BY <2>3, <3>1, <3>2, MinExists
    <3> HIDE DEF n
    <3> QED BY <2>1, <3>2, <3>3
  <2> QED BY <2>2, <2>3
<1> HIDE DEF n
<1> DEFINE acts == SubSeq(all, 1, n)
<1>5. /\ acts \in Seq(A) /\ Len(acts) = n
      /\ \A i \in 1..n : acts[i] = all[i]
  <2>1. Len(all) \in Nat /\ n \in Nat /\ n <= Len(all) BY <1>2, <1>4
  <2>2. \A i \in 1..n : all[i] \in A BY <1>2, <2>1
  <2> QED BY <1>2, <2>1, <2>2, SubSeqProperties
<1>6. ASSUME NEW i \in 1..Len(acts)
      PROVE  Compatible(st, acts[i]) /\ (acts[i].kind \in Terminals => i = Len(acts))
  <2>1. acts[i] \in A BY <1>5
  <2>2. i \in 1..Len(all) /\ acts[i] = all[i] BY <1>2, <1>4, <1>5
  <2>3. i < n => acts[i].kind \notin Terminals BY <1>4, <2>2
  <2> HIDE DEF acts
  <2> QED BY <1>4, <1>5, <2>1, <2>3 DEF A
<1>7. acts \in Seq(Acts)
  <2>1. A \subseteq Acts BY DEF A
  <2> QED BY <1>5, <2>1
<1> HIDE DEF acts
<1> QED BY <1>3, <1>6, <1>7 DEF acts
-------------------------------------------------------------------------------
RequestKinds == {"Delay", "Jitter", "Throttle", "Intermittent"} \cup RequestEnds
ResponseKinds ==
  {"Delay", "Jitter", "Throttle", "Intermittent", "CustomStatus", "DropResponse"} \cup ResponseEnds

\* What may be executed for a stage.
Suits(st, f) ==
  /\ f.kind \in (CASE st = "tls" -> {"RejectTls"} [] st = "request" -> RequestKinds
                   [] st = "response" -> ResponseKinds)
  /\ Parameters(f) /\ f # Null
  /\ st = "response" => ~Misplaced(f)

\* The decision is the last of the faults.
Appended == decision # Null /\ decision.kind \notin {"ForwardOriginal", "ForwardModified"}

StageInv ==
  /\ outcome \in {"rules", "paused", "unfit body"} =>
       decision = Null /\ at = 0 /\ waited = 0 /\ schedule.cut = Null
  /\ outcome = "rules" => faults = <<>>
  /\ outcome # "rules" => stage \in {"tls", "request", "response"}
  /\ outcome \in {"paused", "running"} => stage # "tls"
  /\ outcome # "rules" /\ stage # "tls" => original \in MessageType /\ message \in MessageType
  /\ schedule = [jitter |-> schedule.jitter, throttle |-> schedule.throttle,
                 gaps |-> schedule.gaps, cut |-> schedule.cut]

FaultsInv ==
  /\ faults \in Seq(Acts \cup Decisions) /\ at \in 0..Len(faults)
  /\ \A i \in 1..Len(faults) :
       /\ Suits(stage, faults[i])
       /\ faults[i].kind \in Terminals => i = Len(faults) \/ (Appended /\ i = Len(faults) - 1)
  /\ Appended => Len(faults) > 0 /\ faults[Len(faults)] = decision
  /\ decision # Null => /\ decision \in Decisions /\ stage \in {"request", "response"}
                         /\ Supports(stage, decision.kind)

\* What the first n of the faults delay a message.
SleptIn(fs, n) == Sum([i \in 1..n |-> IF fs[i].kind = "Delay" THEN fs[i].ms ELSE 0])

EndInv ==
  /\ waited = SleptIn(faults, at)
  /\ Settled /\ stage # "tls" /\ outcome # "unfit body" =>
       \/ at = Len(faults)
       \/ Appended /\ at > 0 /\ at = Len(faults) - 1 /\ faults[at].kind \in Terminals

\* g is the last of vs that belongs to a fault of that kind, among the first n.
Latest(vs, fs, n, kind, g) ==
  \A i \in 1..n : fs[i].kind = kind => g = vs[i] \/ \E j \in (i + 1)..n : fs[j].kind = kind

Statuses(fs) == [i \in 1..Len(fs) |-> fs[i].status]

ResponseInv ==
  stage = "response" =>
    /\ Latest(faults, faults, at, "Jitter", schedule.jitter)
    /\ Latest(faults, faults, at, "Throttle", schedule.throttle)
    /\ Latest(faults, faults, at, "Intermittent", schedule.gaps)
    /\ Latest(faults, faults, at, "CutDownload", schedule.cut)
    /\ schedule.cut = Null \/ \E i \in 1..at :
         faults[i].kind = "CutDownload" /\ schedule.cut = faults[i]
    /\ Latest(Statuses(faults), faults, at, "CustomStatus", message.status)
    /\ \A i \in 1..at : faults[i].kind = "InvalidJson" => message.body.id = "bad"

\* The last fault, once it is executed.
LastInv ==
  at > 0 /\ at = Len(faults) =>
    /\ stage = "request" =>
         /\ faults[at].kind = "Disconnect" => outcome = "disconnected"
         /\ faults[at].kind = "Mock" => outcome = "mocked" /\ message.status = faults[at].status
    /\ stage = "response" =>
         /\ faults[at].kind = "WrongLength" =>
              IF message.body.len + faults[at].delta < 0 THEN outcome = "CONFIG_INVALID"
              ELSE message.declared = message.body.len + faults[at].delta
         /\ faults[at].kind = "Truncate" =>
              outcome = IF faults[at].n >= message.body.len THEN "CONFIG_INVALID" ELSE "truncated"
         /\ faults[at].kind = "DropResponse" => outcome = "answer dropped"
         /\ faults[at].kind = "CutDownload" /\ Settled => outcome \in {"CONFIG_INVALID", "sent and cut"}

\* Only the decision ends the message.
RulesGoOn == \A i \in 1..Len(faults) : faults[i].kind \in Terminals => Appended /\ i = Len(faults)

ChoiceInv ==
  decision # Null /\ RulesGoOn =>
    /\ decision.kind = "ForwardOriginal" => message.body = original.body
    /\ decision.kind = "ForwardModified" => message.body.id = "user"
    /\ decision.kind = "Truncate" => decision.n < message.body.len

\* What a request was sent with.
SentInv ==
  /\ stage = "request" /\ decision = Null /\ Settled
       /\ outcome \notin {"CONFIG_INVALID", "disconnected", "mocked", "unfit body"} =>
       \A i \in 1..Len(faults) :
         /\ faults[i].kind = "Jitter" => Unshaped \/ Superseded(i) \/ schedule.jitter = faults[i]
         /\ faults[i].kind = "Throttle" => Unshaped \/ Superseded(i) \/ schedule.throttle = faults[i]
         /\ faults[i].kind = "Intermittent" => Unshaped \/ Superseded(i) \/ schedule.gaps = faults[i]
         /\ faults[i].kind \in Terminals => outcome \in EndOf(faults[i].kind)
  /\ stage = "request" /\ outcome \in {"disconnected", "mocked"} =>
       at > 0 /\ outcome \in EndOf(faults[at].kind)
  /\ stage = "tls" /\ Has("RejectTls") => outcome = "rejected"

ConfigInv == outcome = "CONFIG_INVALID" => TooFar

EffectsInv ==
  /\ RulesInv /\ StageInv /\ FaultsInv /\ EndInv /\ ResponseInv /\ LastInv
  /\ ChoiceInv /\ SentInv /\ ConfigInv

\* Before the first fault nothing is slept.
LEMMA SleptNone == \A fs : SleptIn(fs, 0) = 0
<1>1. 1..0 = {} OBVIOUS
<1>2. \A fs : [i \in 1..0 |-> IF fs[i].kind = "Delay" THEN fs[i].ms ELSE 0] = <<>> BY <1>1
<1> QED BY <1>2, SumEmpty DEF SleptIn

\* One more fault adds its delay.
LEMMA SleptNext ==
  ASSUME NEW fs, NEW n \in Nat, \A i \in 1..n + 1 : fs[i].kind = "Delay" => fs[i].ms \in Int
  PROVE  /\ SleptIn(fs, n) \in Int
         /\ SleptIn(fs, n + 1) = SleptIn(fs, n) + IF fs[n + 1].kind = "Delay" THEN fs[n + 1].ms ELSE 0
<1> DEFINE v(i) == IF fs[i].kind = "Delay" THEN fs[i].ms ELSE 0
           s == [i \in 1..n |-> v(i)]
           t == [i \in 1..n + 1 |-> v(i)]
<1>1. \A i \in 1..n + 1 : v(i) \in Int OBVIOUS
<1> HIDE DEF v
<1>2. s \in Seq(Int) /\ v(n + 1) \in Int
  <2>1. \A i \in 1..n : v(i) \in Int BY <1>1
  <2>2. v(n + 1) \in Int BY <1>1
  <2> QED BY <2>1, <2>2
<1>3. t = Append(s, v(n + 1))
  <2>1. Len(s) = n /\ DOMAIN Append(s, v(n + 1)) = 1..n + 1 BY <1>2
  <2>2. \A i \in 1..n + 1 : Append(s, v(n + 1))[i] = v(i) BY <1>2, <2>1
  <2>3. Append(s, v(n + 1)) \in Seq(Int) /\ Len(Append(s, v(n + 1))) = n + 1
    BY <1>2, <2>1, AppendProperties
  <2>4. t \in Seq(Int) /\ Len(t) = n + 1 BY <1>1
  <2> HIDE DEF s, t
  <2>5. \A i \in 1..n + 1 : t[i] = v(i) BY DEF t
  <2> QED BY <2>2, <2>3, <2>4, <2>5, SeqEqual
<1>4. SleptIn(fs, n) = Sum(s) /\ SleptIn(fs, n + 1) = Sum(t) BY Zenon DEF SleptIn, v
<1> HIDE DEF s, t
<1>5. SleptIn(fs, n + 1) = SleptIn(fs, n) + v(n + 1) /\ SleptIn(fs, n) \in Int BY <1>2, <1>3, <1>4, SumAppend
<1> QED BY <1>5 DEF v

\* The next fault of a kind becomes the last of it, another one does not.
LEMMA LatestNext ==
  ASSUME NEW vs, NEW fs, NEW n \in Nat, NEW kind, NEW g, NEW h, Latest(vs, fs, n, kind, g),
         fs[n + 1].kind = kind => h = vs[n + 1], fs[n + 1].kind # kind => h = g
  PROVE  Latest(vs, fs, n + 1, kind, h)
<1> SUFFICES ASSUME NEW i \in 1..n + 1, fs[i].kind = kind
             PROVE  h = vs[i] \/ \E j \in (i + 1)..n + 1 : fs[j].kind = kind
  BY DEF Latest
<1>1. CASE i = n + 1 BY <1>1
<1>2. CASE i # n + 1 /\ fs[n + 1].kind = kind
  <2>1. n + 1 \in (i + 1)..n + 1 BY <1>2
  <2> QED BY <1>2, <2>1
<1>3. CASE i # n + 1 /\ fs[n + 1].kind # kind
  <2>1. i \in 1..n BY <1>3
  <2>2. g = vs[i] \/ \E j \in (i + 1)..n : fs[j].kind = kind BY <2>1 DEF Latest
  <2>3. \A j \in (i + 1)..n : j \in (i + 1)..n + 1 BY <2>1
  <2> QED BY <1>3, <2>2, <2>3
<1> QED BY <1>1, <1>2, <1>3

\* Before the first fault there is no last one.
LEMMA NoneLatest == \A vs, fs, kind, g : Latest(vs, fs, 0, kind, g)
BY DEF Latest

\* The fault that is executed.
LEMMA NowIs ==
  ASSUME FaultsInv, at < Len(faults)
  PROVE  /\ at \in Nat /\ Len(faults) \in Nat /\ at + 1 \in 1..Len(faults) /\ Now = faults[at + 1]
         /\ Suits(stage, Now)
         /\ Now.kind \in Terminals => at + 1 = Len(faults) \/ (Appended /\ at + 1 = Len(faults) - 1)
<1>1. Len(faults) \in Nat /\ at \in Nat BY DEF FaultsInv
<1>2. at + 1 \in 1..Len(faults) BY <1>1
<1>3. Now = faults[at + 1] BY DEF Now
<1> QED BY <1>1, <1>2, <1>3 DEF FaultsInv

\* What every execution of a fault keeps.
LEMMA Executes ==
  ASSUME EffectsInv, outcome = "running", at < Len(faults), Done, Kept,
         waited' = waited + IF Now.kind = "Delay" THEN Now.ms ELSE 0,
         message' \in MessageType,
         schedule' = [jitter |-> schedule'.jitter, throttle |-> schedule'.throttle,
                      gaps |-> schedule'.gaps, cut |-> schedule'.cut],
         outcome' \notin {"rules", "paused", "unfit body"},
         outcome' = "running" \/ Now.kind \in Terminals
  PROVE  RulesInv' /\ StageInv' /\ FaultsInv' /\ EndInv'
<1>1. /\ RulesInv /\ StageInv /\ FaultsInv /\ EndInv
      /\ at' = at + 1 /\ rules' = rules /\ stage' = stage /\ original' = original
      /\ faults' = faults /\ decision' = decision
  BY DEF EffectsInv, Done, Kept
<1>2. /\ at \in Nat /\ Len(faults) \in Nat /\ at + 1 \in 1..Len(faults) /\ Now = faults[at + 1]
      /\ Suits(stage, Now)
      /\ Now.kind \in Terminals => at + 1 = Len(faults) \/ (Appended /\ at + 1 = Len(faults) - 1)
  BY <1>1, NowIs
<1>3. RulesInv' BY <1>1 DEF RulesInv
<1>4. StageInv' BY <1>1 DEF StageInv
<1>10. stage' = stage /\ faults' = faults /\ decision' = decision /\ at' = at + 1 BY <1>1
<1>11. at \in Nat /\ Len(faults) \in Nat /\ at + 1 \in 1..Len(faults) /\ Now = faults[at + 1]
  BY <1>2
<1>9. Appended' <=> Appended
  <2>1. decision' = decision BY <1>1
  <2> QED BY ONLY <2>1 DEF Appended
<1>5. FaultsInv'
  <2>1. FaultsInv BY <1>1
  <2>2. at' \in 0..Len(faults')
    <3>1. at + 1 \in 0..Len(faults) BY ONLY <1>11
    <3> QED BY <1>10, <3>1
  <2> QED BY ONLY <1>9, <1>10, <2>1, <2>2 DEF FaultsInv
<1>6. waited' = SleptIn(faults', at')
  <2>1. \A i \in 1..at + 1 : faults[i].kind = "Delay" => faults[i].ms \in Int
    <3>1. \A i \in 1..Len(faults) : Suits(stage, faults[i]) BY <1>1 DEF FaultsInv
    <3>2. \A i \in 1..at + 1 : i \in 1..Len(faults) BY ONLY <1>11
    <3> QED BY ONLY <3>1, <3>2 DEF Suits, Parameters
  <2>2. waited = SleptIn(faults, at) BY <1>1 DEF EndInv
  <2> QED BY <1>10, <1>11, <2>1, <2>2, SleptNext
<1>7. Settled' => \/ at' = Len(faults')
                  \/ Appended' /\ at' > 0 /\ at' = Len(faults') - 1 /\ faults'[at'].kind \in Terminals
  <2>1. Settled' => Now.kind \in Terminals BY DEF Settled
  <2>2. at' = at + 1 /\ at' > 0 /\ faults'[at'] = Now /\ Len(faults') = Len(faults)
    BY ONLY <1>10, <1>11
  <2> QED BY <1>2, <1>9, <2>1, <2>2
<1>8. EndInv' BY <1>6, <1>7 DEF EndInv
<1> QED BY <1>3, <1>4, <1>5, <1>8
-------------------------------------------------------------------------------
\* A request whose fault does not change the message, or answers it.
LEMMA RequestStep ==
  ASSUME EffectsInv, stage = "request", Delay \/ EndRequest \/ Skip
  PROVE  EffectsInv'
<1>1. /\ outcome = "running" /\ at < Len(faults) /\ Done /\ Kept /\ schedule' = schedule
  BY DEF Delay, EndRequest, Skip, Running
<1>2. /\ RulesInv /\ StageInv /\ FaultsInv /\ EndInv /\ LastInv /\ ChoiceInv /\ SentInv
      /\ rules' = rules /\ stage' = stage /\ original' = original
      /\ faults' = faults /\ decision' = decision /\ at' = at + 1
  BY <1>1 DEF EffectsInv, Kept, Done
<1>3. /\ at \in Nat /\ Len(faults) \in Nat /\ at + 1 \in 1..Len(faults) /\ Now = faults[at + 1]
      /\ Now.kind \in RequestKinds /\ Parameters(Now)
      /\ Now.kind \in Terminals => at + 1 = Len(faults) \/ (Appended /\ at + 1 = Len(faults) - 1)
  <2>1. Suits(stage, Now) BY <1>1, <1>2, NowIs
  <2> QED BY <1>1, <1>2, <2>1, NowIs DEF Suits
<1>4. message \in MessageType BY <1>1, <1>2 DEF StageInv
<1>5. \/ /\ Now.kind = "Delay" /\ waited' = waited + Now.ms
         /\ message' = message /\ outcome' = "running"
      \/ /\ Now.kind \notin {"Delay", "Disconnect", "Mock"} /\ waited' = waited
         /\ message' = message /\ outcome' = "running"
      \/ /\ Now.kind = "Disconnect" /\ waited' = waited
         /\ message' = message /\ outcome' = "disconnected"
      \/ /\ Now.kind = "Mock" /\ waited' = waited
         /\ message' = [Plain(Text("mock", 1)) EXCEPT !.status = Now.status] /\ outcome' = "mocked"
  <2>1. CASE Delay BY <1>1, <2>1 DEF Delay, Running, Now
  <2>2. CASE EndRequest
    <3>1. Now.kind # "RejectTls" BY <1>3 DEF RequestKinds, RequestEnds
    <3> QED BY <2>2, <3>1 DEF EndRequest, Running, Now
  <2>3. CASE Skip
    <3>1. Now.kind # "RejectTls" BY <1>3 DEF RequestKinds, RequestEnds
    <3> QED BY <1>1, <2>3, <3>1 DEF Skip
  <2> QED BY <2>1, <2>2, <2>3
<1>6. Now.kind = "Mock" => message' \in MessageType /\ message'.status = Now.status
  <2>1. Text("mock", 1) \in BodyType BY TextIs DEF Marks
  <2>2. Plain(Text("mock", 1)) \in MessageType BY <2>1, PlainIs
  <2>3. Now.kind = "Mock" => Now.status \in Int BY <1>3 DEF Parameters
  <2> QED BY <1>5, <2>2, <2>3 DEF MessageType
<1>7. RulesInv' /\ StageInv' /\ FaultsInv' /\ EndInv'
  <2>1. message' \in MessageType BY <1>4, <1>5, <1>6
  <2>2. waited' = waited + IF Now.kind = "Delay" THEN Now.ms ELSE 0
    <3>1. waited \in Int
      <4>1. \A i \in 1..at + 1 : faults[i].kind = "Delay" => faults[i].ms \in Int
        BY <1>2, <1>3 DEF FaultsInv, Suits, Parameters
      <4> QED BY <1>2, <1>3, <4>1, SleptNext DEF EndInv
    <3> QED BY <1>5, <3>1
  <2>3. outcome' = "running" \/ Now.kind \in Terminals BY <1>5 DEF Terminals, RequestEnds
  <2>4. outcome' \notin {"rules", "paused", "unfit body"} BY <1>5
  <2>5. schedule' = [jitter |-> schedule'.jitter, throttle |-> schedule'.throttle,
                     gaps |-> schedule'.gaps, cut |-> schedule'.cut]
    BY <1>1, <1>2 DEF StageInv
  <2> QED BY <1>1, <2>1, <2>2, <2>3, <2>4, <2>5, Executes
<1>8. ResponseInv' BY <1>2 DEF ResponseInv
<1>9. LastInv' BY <1>2, <1>3, <1>5, <1>6 DEF LastInv
<1>10. ChoiceInv'
  <2>1. RulesGoOn' <=> RulesGoOn BY <1>2 DEF RulesGoOn, Appended
  <2>2. CASE Now.kind = "Mock"
    <3>1. RulesGoOn => decision = Now BY <1>2, <1>3, <2>2 DEF RulesGoOn, FaultsInv, Terminals, RequestEnds
    <3> QED BY <1>2, <2>1, <2>2, <3>1 DEF ChoiceInv
  <2>3. CASE Now.kind # "Mock" BY <1>2, <1>5, <2>1, <2>3 DEF ChoiceInv
  <2> QED BY <2>2, <2>3
<1>11. SentInv'
  <2>1. outcome' \in {"disconnected", "mocked"} => at' > 0 /\ outcome' \in EndOf(faults'[at'].kind)
    <3>1. EndOf("Disconnect") = {"disconnected"} /\ EndOf("Mock") = {"mocked"} BY DEF EndOf
    <3>2. at' > 0 /\ faults'[at'] = Now BY <1>2, <1>3
    <3> QED BY <1>5, <3>1, <3>2
  <2> QED BY <1>2, <1>5, <2>1 DEF SentInv, Settled
<1>12. ConfigInv' BY <1>5 DEF ConfigInv
<1> QED BY <1>7, <1>8, <1>9, <1>10, <1>11, <1>12 DEF EffectsInv
-------------------------------------------------------------------------------
\* A fault no later one of its kind replaces is the last of its kind.
LEMMA LastOfIs ==
  ASSUME FaultsInv, NEW i \in 1..Len(faults), ~Superseded(i)
  PROVE  LastOf(faults[i].kind) = faults[i]
<1> DEFINE found == {k \in DOMAIN faults : faults[k].kind = faults[i].kind}
<1>1. DOMAIN faults = 1..Len(faults) /\ Len(faults) \in Nat BY DEF FaultsInv
<1>2. i \in found /\ \A j \in found : j <= i BY <1>1 DEF Superseded
<1>3. \A k \in found : (\A j \in found : j <= k) => k = i BY <1>1, <1>2
<1>4. (CHOOSE k \in found : \A j \in found : j <= k) = i BY <1>2, <1>3, Zenon
<1>5. LastOf(faults[i].kind) = IF found = {} THEN Null
                               ELSE faults[CHOOSE k \in found : \A j \in found : j <= k]
  BY Zenon DEF LastOf
<1> HIDE DEF found
<1> QED BY <1>2, <1>4, <1>5

\* A fault that ends a message is there with none of its kind after it.
LEMMA LastCut ==
  ASSUME FaultsInv, NEW kind \in Terminals, Has(kind)
  PROVE  \E i \in 1..Len(faults) : faults[i].kind = kind /\ ~Superseded(i)
<1>1. DOMAIN faults = 1..Len(faults) /\ Len(faults) \in Nat BY DEF FaultsInv
<1>2. PICK i \in 1..Len(faults) : faults[i].kind = kind BY <1>1 DEF Has
<1>3. CASE faults[Len(faults)].kind = kind
  <2>1. Len(faults) \in 1..Len(faults) /\ ~Superseded(Len(faults)) BY <1>1, <1>2 DEF Superseded
  <2> QED BY <1>3, <2>1
<1>4. CASE faults[Len(faults)].kind # kind
  <2>1. i = Len(faults) - 1 BY <1>2, <1>4 DEF FaultsInv
  <2>2. ASSUME NEW j \in 1..Len(faults), j > i PROVE j = Len(faults)
    <3> DEFINE n == Len(faults)
    <3>1. n \in Nat /\ j \in 1..n /\ j > n - 1 BY <1>1, <2>1, <2>2
    <3> HIDE DEF n
    <3>2. j = n BY ONLY <3>1
    <3> QED BY <3>2 DEF n
  <2>3. ~Superseded(i) BY <1>1, <1>2, <1>4, <2>2 DEF Superseded
  <2> QED BY <1>2, <2>3
<1> QED BY <1>3, <1>4
-------------------------------------------------------------------------------
\* The sending of a request keeps the invariant.
LEMMA SendStep == ASSUME EffectsInv, Send PROVE EffectsInv'
<1>1. /\ RulesInv /\ StageInv /\ FaultsInv /\ EndInv /\ LastInv /\ ChoiceInv
      /\ rules' = rules /\ stage' = stage /\ original' = original /\ message' = message
      /\ faults' = faults /\ decision' = decision /\ at' = at /\ waited' = waited
      /\ outcome = "running" /\ stage = "request" /\ at = Len(faults)
  BY DEF EffectsInv, Send, Kept
<1>2. /\ outcome' \in {"connect timeout", "write timeout", "CONFIG_INVALID", "upload cut", "not read",
                       "read timeout", "answer dropped", "forwarded"}
      /\ outcome' = "CONFIG_INVALID" =>
           Has("CutUpload") /\ LastOf("CutUpload").n >= message.body.len
  BY DEF Send
<1>3. schedule' = schedule \/ schedule' = UploadSchedule BY DEF Send
<1>4. RulesInv' /\ FaultsInv' BY <1>1 DEF RulesInv, FaultsInv, Appended
<1>5. StageInv'
  <2>1. schedule' = [jitter |-> schedule'.jitter, throttle |-> schedule'.throttle,
                     gaps |-> schedule'.gaps, cut |-> schedule'.cut]
    BY <1>1, <1>3 DEF UploadSchedule, StageInv
  <2> QED BY <1>1, <1>2, <2>1 DEF StageInv
<1>6. EndInv' BY <1>1 DEF EndInv
<1>7. ResponseInv' BY <1>1 DEF ResponseInv
<1>8. LastInv' BY <1>1, <1>2 DEF LastInv
<1>9. ChoiceInv'
  <2>1. RulesGoOn' <=> RulesGoOn BY <1>1 DEF RulesGoOn, Appended
  <2> QED BY <1>1, <2>1 DEF ChoiceInv
<1>10. ConfigInv'
  <2> SUFFICES ASSUME outcome' = "CONFIG_INVALID" PROVE TooFar' BY DEF ConfigInv
  <2>1. "CutUpload" \in Terminals BY DEF Terminals, RequestEnds
  <2>2. PICK i \in 1..Len(faults) : faults[i].kind = "CutUpload" /\ ~Superseded(i)
    BY <1>1, <1>2, <2>1, LastCut
  <2>3. LastOf("CutUpload") = faults[i] BY <1>1, <2>2, LastOfIs
  <2>4. DOMAIN faults = 1..Len(faults) BY <1>1 DEF FaultsInv
  <2> QED BY <1>1, <1>2, <2>2, <2>3, <2>4 DEF TooFar
<1>11. SentInv'
  <2>1. SUFFICES ASSUME decision = Null, outcome' # "CONFIG_INVALID", NEW i \in 1..Len(faults)
        PROVE  /\ faults[i].kind = "Jitter" =>
                    Unshaped' \/ Superseded(i)' \/ schedule'.jitter = faults[i]
               /\ faults[i].kind = "Throttle" =>
                    Unshaped' \/ Superseded(i)' \/ schedule'.throttle = faults[i]
               /\ faults[i].kind = "Intermittent" =>
                    Unshaped' \/ Superseded(i)' \/ schedule'.gaps = faults[i]
               /\ faults[i].kind \in Terminals => outcome' \in EndOf(faults[i].kind)
    BY <1>1, <1>2 DEF SentInv
  <2>2. DOMAIN faults = 1..Len(faults) /\ Len(faults) \in Nat BY <1>1 DEF FaultsInv
  <2>3. \A k \in 1..Len(faults) : faults[k].kind \in Terminals => k = Len(faults)
    BY <1>1, <2>1 DEF FaultsInv, Appended
  <2>4. ASSUME NEW x \in Terminals, NEW y \in Terminals, Has(x), Has(y) PROVE x = y
    BY <2>2, <2>3, <2>4 DEF Has
  <2> DEFINE known == {"ConnectTimeout", "WriteTimeout", "CutUpload", "DropResponse", "ReadTimeout"}
  <2>5. known \subseteq Terminals BY DEF Terminals, RequestEnds
  <2>6. \A x, y \in known : Has(x) /\ Has(y) => x = y BY <2>4, <2>5
  <2>7. \A b \in BOOLEAN : DropMode(b) => Has("DropResponse") BY DEF DropMode, Has
  <2>8. /\ Has("ConnectTimeout") => outcome' = "connect timeout"
        /\ Has("WriteTimeout") => outcome' = "write timeout"
        /\ Has("CutUpload") => outcome' = "upload cut"
        /\ DropMode(FALSE) => outcome' = "not read"
        /\ Has("ReadTimeout") => outcome' = "read timeout"
        /\ DropMode(TRUE) => outcome' \in {"not read", "answer dropped"}
    <3>1. DropMode(FALSE) \/ DropMode(TRUE) => Has("DropResponse") BY <2>7
    <3>2. /\ Has("ConnectTimeout") => ~Has("WriteTimeout") /\ ~Has("CutUpload") /\ ~Has("ReadTimeout") /\ ~Has("DropResponse")
          /\ Has("WriteTimeout") => ~Has("CutUpload") /\ ~Has("ReadTimeout") /\ ~Has("DropResponse")
          /\ Has("CutUpload") => ~Has("ReadTimeout") /\ ~Has("DropResponse")
          /\ Has("ReadTimeout") => ~Has("DropResponse")
      BY <2>6
    <3>3. Has("ConnectTimeout") => outcome' = "connect timeout" BY <3>1, <3>2 DEF Send
    <3>4. Has("WriteTimeout") => outcome' = "write timeout" BY <3>1, <3>2 DEF Send
    <3>5. Has("CutUpload") => outcome' = "upload cut" BY <2>1, <3>1, <3>2 DEF Send
    <3>6. DropMode(FALSE) => outcome' = "not read" BY <3>1, <3>2 DEF Send
    <3>7. Has("ReadTimeout") => outcome' = "read timeout" BY <3>1, <3>2 DEF Send
    <3>8. DropMode(TRUE) => outcome' \in {"not read", "answer dropped"} BY <3>1, <3>2 DEF Send
    <3> QED BY <3>3, <3>4, <3>5, <3>6, <3>7, <3>8
  <2>9. faults[i].kind \in RequestKinds /\ Parameters(faults[i]) BY <1>1 DEF FaultsInv, Suits
  <2>10. CASE faults[i].kind \in Terminals
    <3>1. i = Len(faults) /\ at > 0 /\ at = i BY <1>1, <2>2, <2>3, <2>10
    <3>2. faults[i].kind \notin {"Disconnect", "Mock"} BY <1>1, <3>1 DEF LastInv
    <3>3. faults[i].kind \in known BY <2>9, <2>10, <3>2 DEF Terminals, RequestEnds, RequestKinds, ResponseEnds
    <3>4. Has(faults[i].kind) BY <2>2 DEF Has
    <3>5. faults[i].kind = "DropResponse" => DropMode(FALSE) \/ DropMode(TRUE)
      <4>1. faults[i].kind = "DropResponse" => faults[i].read \in BOOLEAN BY <2>9 DEF Parameters
      <4> QED BY <2>2, <4>1 DEF DropMode
    <3>6. outcome' \in EndOf(faults[i].kind) BY <2>8, <3>3, <3>4, <3>5 DEF EndOf
    <3> QED BY <3>3, <3>6
  <2>11. CASE faults[i].kind \notin Terminals
    <3>1. Superseded(i)' <=> Superseded(i) BY <1>1 DEF Superseded
    <3>2. CASE schedule' = UploadSchedule
      <4>1. ~Superseded(i) => LastOf(faults[i].kind) = faults[i] BY <1>1, LastOfIs
      <4> QED BY <2>11, <3>1, <3>2, <4>1 DEF UploadSchedule
    <3>3. CASE schedule' # UploadSchedule
      <4>1. Has("ConnectTimeout") \/ Has("WriteTimeout") \/ DropMode(FALSE) \/ Has("ReadTimeout")
        BY <3>3 DEF Send
      <4>2. Unshaped' BY <2>8, <4>1 DEF Unshaped
      <4> QED BY <2>11, <4>2
    <3> QED BY <3>2, <3>3
  <2> QED BY <2>10, <2>11
<1> QED BY <1>4, <1>5, <1>6, <1>7, <1>8, <1>9, <1>10, <1>11 DEF EffectsInv
-------------------------------------------------------------------------------
\* What each fault does to a response.
LEMMA ResponseFault ==
  ASSUME EffectsInv, stage = "response",
         Delay \/ DropAnswer \/ ReplaceBody \/ OffsetLength \/ Truncate \/ Shape \/ Restate
  PROVE  /\ outcome = "running" /\ at < Len(faults) /\ Done /\ Kept
         /\ waited' = waited + IF Now.kind = "Delay" THEN Now.ms ELSE 0
         /\ message' \in MessageType
         /\ message'.body = IF Now.kind = "InvalidJson" THEN Text("bad", 1) ELSE message.body
         /\ message'.status = IF Now.kind = "CustomStatus" THEN Now.status ELSE message.status
         /\ schedule' = [jitter |-> IF Now.kind = "Jitter" THEN Now ELSE schedule.jitter,
                         throttle |-> IF Now.kind = "Throttle" THEN Now ELSE schedule.throttle,
                         gaps |-> IF Now.kind = "Intermittent" THEN Now ELSE schedule.gaps,
                         cut |-> IF Now.kind = "CutDownload" THEN Now ELSE schedule.cut]
         /\ Now.kind = "WrongLength" =>
              IF message.body.len + Now.delta < 0 THEN outcome' = "CONFIG_INVALID"
              ELSE outcome' = "running" /\ message'.declared = message.body.len + Now.delta
         /\ Now.kind = "Truncate" =>
              outcome' = IF Now.n >= message.body.len THEN "CONFIG_INVALID" ELSE "truncated"
         /\ Now.kind = "DropResponse" => outcome' = "answer dropped"
         /\ Now.kind \notin {"WrongLength", "Truncate", "DropResponse"} => outcome' = "running"
<1>1. /\ outcome = "running" /\ at < Len(faults) /\ Done /\ Kept
  BY DEF Delay, DropAnswer, ReplaceBody, OffsetLength, Truncate, Shape, Restate, Running
<1>2. StageInv /\ FaultsInv /\ EndInv BY DEF EffectsInv
<1>3. /\ at \in Nat /\ Len(faults) \in Nat /\ at + 1 \in 1..Len(faults) /\ Now = faults[at + 1]
      /\ Now.kind \in ResponseKinds /\ Parameters(Now) /\ ~Misplaced(Now)
  <2>1. Suits(stage, Now) BY <1>1, <1>2, NowIs
  <2> QED BY <1>1, <1>2, <2>1, NowIs DEF Suits
<1>4. message \in MessageType /\ message.body \in BodyType /\ message.body.len \in Nat
  BY <1>1, <1>2 DEF StageInv, MessageType, BodyType
<1>5. schedule = [jitter |-> schedule.jitter, throttle |-> schedule.throttle,
                  gaps |-> schedule.gaps, cut |-> schedule.cut]
  BY <1>2 DEF StageInv
<1>6. waited \in Int
  <2>1. \A i \in 1..at + 1 : faults[i].kind = "Delay" => faults[i].ms \in Int
    BY <1>2, <1>3 DEF FaultsInv, Suits, Parameters
  <2> QED BY <1>2, <1>3, <2>1, SleptNext DEF EndInv
<1> DEFINE shaped == [jitter |-> IF Now.kind = "Jitter" THEN Now ELSE schedule.jitter,
                      throttle |-> IF Now.kind = "Throttle" THEN Now ELSE schedule.throttle,
                      gaps |-> IF Now.kind = "Intermittent" THEN Now ELSE schedule.gaps,
                      cut |-> IF Now.kind = "CutDownload" THEN Now ELSE schedule.cut]
<1>15. Now.kind \notin {"Jitter", "Throttle", "Intermittent", "CutDownload"} => shaped = schedule
  BY <1>5
<1> HIDE DEF shaped
<1>7. /\ Now.kind \in ResponseKinds
      /\ Now.kind # "Mock" /\ Now.kind \notin Foreign
  BY <1>3 DEF ResponseKinds, ResponseEnds, Misplaced
<1>8. CASE Delay
  <2>1. /\ Now.kind = "Delay" /\ waited' = waited + Now.ms
        /\ message' = message /\ schedule' = schedule /\ outcome' = outcome
    BY <1>8 DEF Delay, Running, Now
  <2>9. schedule' = shaped BY <1>15, <2>1
  <2> QED BY <1>1, <1>4, <2>1, <2>9 DEF shaped
<1>9. CASE DropAnswer
  <2>1. /\ Now.kind = "DropResponse" /\ waited' = waited
        /\ message' = message /\ schedule' = schedule /\ outcome' = "answer dropped"
    BY <1>9 DEF DropAnswer, Running, Now
  <2>3. waited' = waited /\ Now.kind # "Delay" BY <2>1
  <2>2. waited' = waited + IF Now.kind = "Delay" THEN Now.ms ELSE 0 BY ONLY <1>6, <2>3
  <2>9. schedule' = shaped BY <1>15, <2>1
  <2> QED BY <1>1, <1>4, <2>1, <2>2, <2>9 DEF shaped
<1>10. CASE ReplaceBody
  <2>1. /\ Now.kind = "InvalidJson" /\ waited' = waited /\ schedule' = schedule /\ outcome' = outcome
        /\ message' = [body |-> Text("bad", 1), status |-> message.status, declared |-> 1]
    BY <1>10 DEF ReplaceBody, Running, Now
  <2>2. Text("bad", 1) \in BodyType BY TextIs DEF Marks
  <2>3. /\ message' \in MessageType /\ message'.body = Text("bad", 1)
        /\ message'.status = message.status
    BY <1>4, <2>1, <2>2 DEF MessageType
  <2>9. schedule' = shaped BY <1>15, <2>1
  <2> QED BY <1>1, <1>6, <2>1, <2>3, <2>9 DEF shaped
<1>11. CASE OffsetLength
  <2>1. /\ Now.kind = "WrongLength" /\ waited' = waited /\ schedule' = schedule
        /\ IF message.body.len + Now.delta < 0
           THEN outcome' = "CONFIG_INVALID" /\ message' = message
           ELSE message' = [message EXCEPT !.declared = message.body.len + Now.delta] /\ outcome' = outcome
    BY <1>11 DEF OffsetLength, Running, Now
  <2>2. message.body.len + Now.delta \in Int BY <1>3, <1>4, <2>1 DEF Parameters
  <2>3. /\ message' \in MessageType /\ message'.body = message.body /\ message'.status = message.status
        /\ message.body.len + Now.delta < 0 \/ message'.declared = message.body.len + Now.delta
    BY <1>4, <2>1, <2>2 DEF MessageType
  <2>9. schedule' = shaped BY <1>15, <2>1
  <2> QED BY <1>1, <1>6, <2>1, <2>3, <2>9 DEF shaped
<1>12. CASE Truncate
  <2>1. /\ Now.kind = "Truncate" /\ waited' = waited /\ message' = message /\ schedule' = schedule
        /\ outcome' = IF Now.n >= message.body.len THEN "CONFIG_INVALID" ELSE "truncated"
    BY <1>12 DEF Truncate, Running, Now
  <2>9. schedule' = shaped BY <1>15, <2>1
  <2> QED BY <1>1, <1>4, <1>6, <2>1, <2>9 DEF shaped
<1>13. CASE Shape
  <2>1. Now.kind \in {"Jitter", "Throttle", "Intermittent", "CutDownload"}
    BY <1>7, <1>13 DEF Shape, Running, Now
  <2>2. /\ waited' = waited /\ message' = message /\ outcome' = outcome
        /\ schedule' = CASE Now.kind = "Jitter" -> [schedule EXCEPT !.jitter = Now]
                         [] Now.kind = "Throttle" -> [schedule EXCEPT !.throttle = Now]
                         [] Now.kind = "Intermittent" -> [schedule EXCEPT !.gaps = Now]
                         [] OTHER -> [schedule EXCEPT !.cut = Now]
    BY <1>3, <1>13 DEF Shape
  <2>3. schedule' = [jitter |-> IF Now.kind = "Jitter" THEN Now ELSE schedule.jitter,
                     throttle |-> IF Now.kind = "Throttle" THEN Now ELSE schedule.throttle,
                     gaps |-> IF Now.kind = "Intermittent" THEN Now ELSE schedule.gaps,
                     cut |-> IF Now.kind = "CutDownload" THEN Now ELSE schedule.cut]
    <3>1. \A j, t, g, c : LET r == [jitter |-> j, throttle |-> t, gaps |-> g, cut |-> c] IN
            /\ [r EXCEPT !.jitter = Now] = [jitter |-> Now, throttle |-> t, gaps |-> g, cut |-> c]
            /\ [r EXCEPT !.throttle = Now] = [jitter |-> j, throttle |-> Now, gaps |-> g, cut |-> c]
            /\ [r EXCEPT !.gaps = Now] = [jitter |-> j, throttle |-> t, gaps |-> Now, cut |-> c]
            /\ [r EXCEPT !.cut = Now] = [jitter |-> j, throttle |-> t, gaps |-> g, cut |-> Now]
      OBVIOUS
    <3>2. LET s == schedule IN
            /\ [s EXCEPT !.jitter = Now] = [jitter |-> Now, throttle |-> s.throttle, gaps |-> s.gaps, cut |-> s.cut]
            /\ [s EXCEPT !.throttle = Now] = [jitter |-> s.jitter, throttle |-> Now, gaps |-> s.gaps, cut |-> s.cut]
            /\ [s EXCEPT !.gaps = Now] = [jitter |-> s.jitter, throttle |-> s.throttle, gaps |-> Now, cut |-> s.cut]
            /\ [s EXCEPT !.cut = Now] = [jitter |-> s.jitter, throttle |-> s.throttle, gaps |-> s.gaps, cut |-> Now]
      BY <1>5, <3>1
    <3> QED BY <2>1, <2>2, <3>2
  <2> QED BY <1>1, <1>4, <1>6, <2>1, <2>2, <2>3
<1>14. CASE Restate
  <2>1. Now.kind = "CustomStatus" BY <1>7, <1>14 DEF Restate, Running, Now
  <2>2. /\ waited' = waited /\ schedule' = schedule /\ outcome' = outcome
        /\ message' = [body |-> message.body, status |-> Now.status, declared |-> message.body.len]
    BY <1>14, <2>1 DEF Restate
  <2>3. Now.status \in Int BY <1>3, <2>1 DEF Parameters
  <2>4. /\ message' \in MessageType /\ message'.body = message.body /\ message'.status = Now.status
    BY <1>4, <2>2, <2>3 DEF MessageType
  <2>9. schedule' = shaped BY <1>15, <2>1, <2>2
  <2>5. waited' = waited + IF Now.kind = "Delay" THEN Now.ms ELSE 0 BY <1>6, <2>1, <2>2
  <2> QED BY <1>1, <2>1, <2>2, <2>4, <2>5, <2>9 DEF shaped
<1> QED BY <1>8, <1>9, <1>10, <1>11, <1>12, <1>13, <1>14

\* The execution of a fault of a response keeps the invariant.
LEMMA ResponseStep ==
  ASSUME EffectsInv, stage = "response",
         Delay \/ DropAnswer \/ ReplaceBody \/ OffsetLength \/ Truncate \/ Shape \/ Restate
  PROVE  EffectsInv'
<1> DEFINE body == IF Now.kind = "InvalidJson" THEN Text("bad", 1) ELSE message.body
<1>1. /\ outcome = "running" /\ at < Len(faults) /\ Done /\ Kept
      /\ waited' = waited + IF Now.kind = "Delay" THEN Now.ms ELSE 0
      /\ message' \in MessageType /\ message'.body = body
      /\ message'.status = IF Now.kind = "CustomStatus" THEN Now.status ELSE message.status
      /\ Now.kind = "WrongLength" =>
           IF message.body.len + Now.delta < 0 THEN outcome' = "CONFIG_INVALID"
           ELSE outcome' = "running" /\ message'.declared = message.body.len + Now.delta
      /\ Now.kind = "Truncate" =>
           outcome' = IF Now.n >= message.body.len THEN "CONFIG_INVALID" ELSE "truncated"
      /\ Now.kind = "DropResponse" => outcome' = "answer dropped"
      /\ Now.kind \notin {"WrongLength", "Truncate", "DropResponse"} => outcome' = "running"
  BY ResponseFault
<1>2. /\ schedule' = [jitter |-> schedule'.jitter, throttle |-> schedule'.throttle,
                      gaps |-> schedule'.gaps, cut |-> schedule'.cut]
      /\ schedule'.jitter = IF Now.kind = "Jitter" THEN Now ELSE schedule.jitter
      /\ schedule'.throttle = IF Now.kind = "Throttle" THEN Now ELSE schedule.throttle
      /\ schedule'.gaps = IF Now.kind = "Intermittent" THEN Now ELSE schedule.gaps
      /\ schedule'.cut = IF Now.kind = "CutDownload" THEN Now ELSE schedule.cut
  <2>1. schedule' = [jitter |-> IF Now.kind = "Jitter" THEN Now ELSE schedule.jitter,
                     throttle |-> IF Now.kind = "Throttle" THEN Now ELSE schedule.throttle,
                     gaps |-> IF Now.kind = "Intermittent" THEN Now ELSE schedule.gaps,
                     cut |-> IF Now.kind = "CutDownload" THEN Now ELSE schedule.cut]
    BY ResponseFault
  <2> QED BY <2>1
<1>3. /\ RulesInv /\ StageInv /\ FaultsInv /\ EndInv /\ ResponseInv /\ LastInv /\ ChoiceInv
      /\ rules' = rules /\ stage' = stage /\ original' = original
      /\ faults' = faults /\ decision' = decision /\ at' = at + 1
  BY <1>1 DEF EffectsInv, Kept, Done
<1>4. /\ at \in Nat /\ Len(faults) \in Nat /\ at + 1 \in 1..Len(faults) /\ Now = faults[at + 1]
      /\ Now.kind \in ResponseKinds /\ Parameters(Now) /\ Now # Null
      /\ Now.kind \in Terminals => at + 1 = Len(faults) \/ (Appended /\ at + 1 = Len(faults) - 1)
  <2>1. Suits(stage, Now) BY <1>1, <1>3, NowIs
  <2> QED BY <1>1, <1>3, <2>1, NowIs DEF Suits
<1> HIDE DEF body
<1>5. outcome' # "running" => Now.kind \in {"WrongLength", "Truncate", "DropResponse"} BY <1>1
<1>6. Now.kind \in {"WrongLength", "Truncate", "DropResponse", "InvalidJson"} => Now.kind \in Terminals
  BY DEF Terminals, RequestEnds, ResponseEnds
<1>7. outcome' \in {"running", "CONFIG_INVALID", "truncated", "answer dropped"}
  BY <1>1
<1>8. RulesInv' /\ StageInv' /\ FaultsInv' /\ EndInv' BY <1>1, <1>2, <1>5, <1>6, <1>7, Executes
<1>9. ResponseInv'
  <2>1. /\ Latest(faults, faults, at, "Jitter", schedule.jitter)
        /\ Latest(faults, faults, at, "Throttle", schedule.throttle)
        /\ Latest(faults, faults, at, "Intermittent", schedule.gaps)
        /\ Latest(faults, faults, at, "CutDownload", schedule.cut)
        /\ schedule.cut = Null \/ \E i \in 1..at :
             faults[i].kind = "CutDownload" /\ schedule.cut = faults[i]
        /\ Latest(Statuses(faults), faults, at, "CustomStatus", message.status)
        /\ \A i \in 1..at : faults[i].kind = "InvalidJson" => message.body.id = "bad"
    BY <1>3 DEF ResponseInv
  <2>2. Latest(faults, faults, at + 1, "Jitter", schedule'.jitter)
    BY <1>2, <1>4, <2>1, LatestNext
  <2>3. Latest(faults, faults, at + 1, "Throttle", schedule'.throttle)
    BY <1>2, <1>4, <2>1, LatestNext
  <2>4. Latest(faults, faults, at + 1, "Intermittent", schedule'.gaps)
    BY <1>2, <1>4, <2>1, LatestNext
  <2>5. Latest(faults, faults, at + 1, "CutDownload", schedule'.cut)
    BY <1>2, <1>4, <2>1, LatestNext
  <2>6. schedule'.cut = Null \/ \E i \in 1..at + 1 :
          faults[i].kind = "CutDownload" /\ schedule'.cut = faults[i]
    <3>1. \A i \in 1..at : i \in 1..at + 1 BY <1>4
    <3>2. at + 1 \in 1..at + 1 BY <1>4
    <3> QED BY <1>2, <1>4, <2>1, <3>1, <3>2
  <2>7. Latest(Statuses(faults), faults, at + 1, "CustomStatus", message'.status)
    <3>1. Statuses(faults)[at + 1] = faults[at + 1].status BY <1>4 DEF Statuses
    <3> QED BY <1>1, <1>4, <2>1, <3>1, LatestNext
  <2>8. \A i \in 1..at + 1 : faults[i].kind = "InvalidJson" => message'.body.id = "bad"
    <3>1. Text("bad", 1).id = "bad" BY DEF Text
    <3>2. \A i \in 1..at + 1 : i \in 1..at \/ i = at + 1 BY <1>4
    <3> QED BY <1>1, <1>4, <2>1, <3>1, <3>2 DEF body
  <2> QED BY <1>3, <2>2, <2>3, <2>4, <2>5, <2>6, <2>7, <2>8 DEF ResponseInv
<1>10. LastInv'
  <2>1. Now.kind = "WrongLength" \/ Now.kind = "Truncate" => message'.body = message.body
    BY <1>1 DEF body
  <2>2. stage' = "response" /\ faults'[at'] = Now BY <1>3, <1>4
  <2>3. Now.kind = "CutDownload" => ~Settled' BY <1>1 DEF Settled
  <2> QED BY <1>1, <2>1, <2>2, <2>3 DEF LastInv
<1>11. ChoiceInv'
  <2>1. RulesGoOn' <=> RulesGoOn BY <1>3 DEF RulesGoOn, Appended
  <2>2. CASE Now.kind = "InvalidJson"
    <3>1. RulesGoOn => decision = Now /\ decision.kind \notin {"ForwardOriginal", "ForwardModified"}
      BY <1>3, <1>4, <1>6, <2>2 DEF RulesGoOn, FaultsInv, Appended
    <3> QED BY <1>3, <2>1, <2>2, <3>1 DEF ChoiceInv
  <2>3. CASE Now.kind # "InvalidJson"
    <3>1. message'.body = message.body BY <1>1, <2>3 DEF body
    <3> QED BY <1>3, <2>1, <3>1 DEF ChoiceInv
  <2> QED BY <2>2, <2>3
<1>12. SentInv' BY <1>3 DEF SentInv
<1>13. ConfigInv'
  <2> SUFFICES ASSUME outcome' = "CONFIG_INVALID" PROVE TooFar' BY DEF ConfigInv
  <2>1. /\ Now.kind \in {"WrongLength", "Truncate"}
        /\ Now.kind = "WrongLength" => message.body.len + Now.delta < 0
        /\ Now.kind = "Truncate" => Now.n >= message.body.len
    BY <1>1
  <2>2. message'.body = message.body BY <1>1, <2>1 DEF body
  <2>3. at + 1 \in DOMAIN faults' /\ faults'[at + 1] = Now BY <1>3, <1>4 DEF FaultsInv
  <2> QED BY <2>1, <2>2, <2>3 DEF TooFar
<1> QED BY <1>8, <1>9, <1>10, <1>11, <1>12, <1>13 DEF EffectsInv
-------------------------------------------------------------------------------
\* The sending of a response keeps the invariant.
LEMMA RespondStep == ASSUME EffectsInv, Respond PROVE EffectsInv'
<1>1. /\ RulesInv /\ StageInv /\ FaultsInv /\ EndInv /\ ResponseInv /\ LastInv /\ ChoiceInv
      /\ rules' = rules /\ stage' = stage /\ original' = original /\ message' = message
      /\ faults' = faults /\ decision' = decision /\ at' = at /\ waited' = waited /\ schedule' = schedule
      /\ outcome = "running" /\ stage = "response" /\ at = Len(faults)
      /\ schedule.cut = Null => outcome' = "sent"
      /\ schedule.cut # Null =>
           outcome' = IF schedule.cut.n >= message.body.len THEN "CONFIG_INVALID" ELSE "sent and cut"
  BY DEF EffectsInv, Respond, Kept
<1>2. RulesInv' /\ FaultsInv' BY <1>1 DEF RulesInv, FaultsInv, Appended
<1>3. outcome' \in {"sent", "sent and cut", "CONFIG_INVALID"} BY <1>1
<1>4. StageInv' BY <1>1, <1>3 DEF StageInv
<1>5. EndInv' BY <1>1 DEF EndInv
<1>6. ResponseInv' BY <1>1 DEF ResponseInv
<1>7. LastInv'
  <2> SUFFICES ASSUME at > 0 PROVE LastInv' BY <1>1 DEF LastInv
  <2>1. at \in Nat /\ at \in 1..Len(faults)
    <3>1. FaultsInv BY <1>1
    <3>2. Len(faults) \in Nat /\ at \in Nat BY <3>1 DEF FaultsInv
    <3>3. at = Len(faults) BY <1>1
    <3> QED BY <3>2, <3>3
  <2>2. faults[at].kind = "CutDownload" => schedule.cut = faults[at]
    <3>1. Latest(faults, faults, at, "CutDownload", schedule.cut) BY <1>1 DEF ResponseInv
    <3>2. (at + 1)..at = {} BY <2>1
    <3> QED BY <1>1, <2>1, <3>1, <3>2 DEF Latest
  <2>3. faults[at] # Null BY <1>1, <2>1 DEF FaultsInv, Suits
  <2>4. faults[at].kind = "CutDownload" => outcome' \in {"CONFIG_INVALID", "sent and cut"}
    BY <1>1, <2>2, <2>3
  <2> QED BY <1>1, <2>4 DEF LastInv
<1>8. ChoiceInv'
  <2>1. RulesGoOn' <=> RulesGoOn BY <1>1 DEF RulesGoOn, Appended
  <2> QED BY <1>1, <2>1 DEF ChoiceInv
<1>9. SentInv' BY <1>1 DEF SentInv
<1>10. ConfigInv'
  <2> SUFFICES ASSUME outcome' = "CONFIG_INVALID" PROVE TooFar' BY DEF ConfigInv
  <2>1. schedule.cut # Null /\ schedule.cut.n >= message.body.len BY <1>1
  <2>2. PICK i \in 1..at : faults[i].kind = "CutDownload" /\ schedule.cut = faults[i]
    BY <1>1, <2>1 DEF ResponseInv
  <2>3. i \in DOMAIN faults' BY <1>1 DEF FaultsInv
  <2> QED BY <1>1, <2>1, <2>2, <2>3 DEF TooFar
<1> QED BY <1>2, <1>4, <1>5, <1>6, <1>7, <1>8, <1>9, <1>10 DEF EffectsInv
-------------------------------------------------------------------------------
\* While rules are saved there is no message yet.
LEMMA RulesOnly ==
  ASSUME EffectsInv, outcome = "rules",
         UNCHANGED <<stage, original, message, faults, decision, at, waited, schedule, outcome>>,
         RulesInv'
  PROVE  EffectsInv'
<1>1. /\ StageInv /\ FaultsInv /\ EndInv /\ ResponseInv /\ LastInv /\ ChoiceInv /\ SentInv /\ ConfigInv
  BY DEF EffectsInv
<1>2. StageInv' BY <1>1 DEF StageInv
<1>3. FaultsInv' BY <1>1 DEF FaultsInv, Appended
<1>4. EndInv' BY <1>1 DEF EndInv, Settled, Appended
<1>5. ResponseInv' BY <1>1 DEF ResponseInv
<1>6. LastInv' BY <1>1 DEF LastInv, Settled
<1>7. ChoiceInv'
  <2>1. RulesGoOn' <=> RulesGoOn BY DEF RulesGoOn, Appended
  <2> QED BY <1>1, <2>1 DEF ChoiceInv
<1>8. SentInv'
  <2>1. Has("RejectTls")' <=> Has("RejectTls") BY DEF Has
  <2>2. ~Settled' BY DEF Settled
  <2> QED BY <1>1, <2>1, <2>2 DEF SentInv
<1>9. ConfigInv' BY DEF ConfigInv
<1> QED BY <1>2, <1>3, <1>4, <1>5, <1>6, <1>7, <1>8, <1>9 DEF EffectsInv

\* A rule that is accepted keeps the invariant.
LEMMA AddedStep ==
  ASSUME EffectsInv, outcome = "rules", NEW draft, Added(draft),
         draft.stage \in {"tls", "request", "response"}, draft.acts \in Seq(Acts)
  PROVE  EffectsInv'
<1> DEFINE r == [stage |-> draft.stage, acts |-> draft.acts]
<1>1. rules' = Append(rules, r) BY DEF Added
<1>2. rules \in Seq(RuleType) /\ Len(rules) \in Nat BY DEF EffectsInv, RulesInv
<1>3. r \in RuleType BY DEF RuleType
<1>4. rules' \in Seq(RuleType) /\ Len(rules') = Len(rules) + 1 BY <1>1, <1>2, <1>3, AppendProperties
<1>5. ASSUME NEW i \in 1..Len(rules'), NEW j \in 1..Len(rules'[i].acts)
      PROVE  Compatible(rules'[i].stage, rules'[i].acts[j])
  <2>1. CASE i \in 1..Len(rules)
    <3>1. rules'[i] = rules[i] BY <1>1, <1>2, <1>3, <2>1, AppendProperties
    <3> QED BY <1>5, <2>1, <3>1 DEF EffectsInv, RulesInv
  <2>2. CASE i \notin 1..Len(rules)
    <3>1. rules'[i] = r
      <4>1. i = Len(rules) + 1 BY <1>2, <1>4, <2>2
      <4> QED BY <1>1, <1>2, <1>3, <4>1, AppendProperties
    <3>2. j \in 1..Len(draft.acts) BY <1>5, <3>1
    <3>3. j \in DOMAIN draft.acts BY <3>2
    <3> QED BY <3>1, <3>3 DEF Added, Valid
  <2> QED BY <2>1, <2>2
<1>6. RulesInv' BY <1>4, <1>5 DEF RulesInv
<1> QED BY <1>6, RulesOnly DEF Added

\* Saving a draft of the editor keeps the invariant.
LEMMA SaveStep == ASSUME EffectsInv, Save PROVE EffectsInv'
<1>1. PICK draft \in Drafts : Added(draft) BY DEF Save
<1>2. outcome = "rules" BY DEF Save, MaySave
<1>3. draft.stage \in {"tls", "request", "response"} /\ draft.acts \in Seq(Acts)
  <2>1. PICK st \in {"tls", "request", "response"}, by \in BOOLEAN,
             acts \in UNION {[1 .. n -> RuleActions] : n \in 1 .. IF rules = <<>> THEN MaxActions ELSE 1} :
               draft = [stage |-> st, acts |-> acts, byMessage |-> by]
    <3> DEFINE Lists == UNION {[1 .. n -> RuleActions] : n \in 1 .. IF rules = <<>> THEN MaxActions ELSE 1}
    <3>1. Drafts = {[stage |-> st, acts |-> acts, byMessage |-> by] :
                      st \in {"tls", "request", "response"}, by \in BOOLEAN, acts \in Lists}
      BY DEF Drafts
    <3> HIDE DEF Lists
    <3>2. \E st \in {"tls", "request", "response"}, by \in BOOLEAN, acts \in Lists :
            draft = [stage |-> st, acts |-> acts, byMessage |-> by]
      BY <1>1, <3>1
    <3> QED BY <3>2 DEF Lists
  <2>2. PICK n \in 1 .. IF rules = <<>> THEN MaxActions ELSE 1 : acts \in [1..n -> RuleActions]
    BY <2>1
  <2>3. n \in Nat BY <2>2, BoundAssumption
  <2>4. acts \in Seq(Acts) BY <2>2, <2>3 DEF Acts
  <2> QED BY <2>1, <2>4
<1> QED BY <1>1, <1>2, <1>3, AddedStep

\* A template belongs to a stage.
LEMMA StagesAre == \A t \in FilledIn : t.stage \in {"tls", "request", "response"}
<1> SUFFICES ASSUME NEW t \in FilledIn PROVE t.stage \in {"tls", "request", "response"} OBVIOUS
<1>1. PICK n \in Given, m \in Given, on \in BOOLEAN :
        t \in RequestTemplates(n, on) \cup StatusTemplates(n) \cup ResponseTemplates(n)
               \cup ShapingTemplates(n, m, on)
  BY DEF FilledIn
<1>2. \A st, a : Of(st, a).stage = st BY DEF Of
<1>3. CASE t \in RequestTemplates(n, on) BY <1>2, <1>3 DEF RequestTemplates
<1>4. CASE t \in StatusTemplates(n) BY <1>2, <1>4 DEF StatusTemplates
<1>5. CASE t \in ResponseTemplates(n) BY <1>2, <1>5 DEF ResponseTemplates
<1>6. CASE t \in ShapingTemplates(n, m, on) BY <1>2, <1>6 DEF ShapingTemplates, Shaped
<1> QED BY <1>1, <1>3, <1>4, <1>5, <1>6

\* Configuring a template keeps the invariant.
LEMMA ConfigureStep == ASSUME EffectsInv, Configure PROVE EffectsInv'
<1>1. PICK t \in FilledIn, by \in BOOLEAN :
        Added([stage |-> t.stage, acts |-> <<t.act>>, byMessage |-> by])
  BY DEF Configure
<1> DEFINE draft == [stage |-> t.stage, acts |-> <<t.act>>, byMessage |-> by]
<1>2. outcome = "rules" BY DEF Configure, MaySave
<1>3. draft.stage \in {"tls", "request", "response"} BY <1>1, StagesAre
<1>4. draft.acts \in Seq(Acts)
  <2>1. t.act \in Acts BY <1>1 DEF Acts
  <2> QED BY <2>1
<1>5. Added(draft) BY <1>1
<1> HIDE DEF draft
<1> QED BY <1>2, <1>3, <1>4, <1>5, AddedStep
-------------------------------------------------------------------------------
\* What a rule of a stage may ask for, its edits and pauses taken away, suits the stage.
LEMMA RulesSuit ==
  ASSUME NEW a \in Acts, NEW st \in {"tls", "request", "response"}, Compatible(st, a),
         a.kind \notin Edits \cup {"Pause"}
  PROVE  Suits(st, a)
<1>1. a.kind \in Kinds /\ Parameters(a) /\ a # Null BY ActsAre
<1>2. a.kind \in {"RejectTls", "Delay", "Jitter", "Throttle", "Intermittent", "CustomStatus"}
                   \cup RequestEnds \cup ResponseEnds
  BY <1>1 DEF Kinds, Terminals
<1>3. CASE a.kind \in {"Throttle", "Intermittent"}
  <2>1. <<st, a.dir>> \in {<<"request", "up">>, <<"response", "down">>}
    BY <1>3 DEF Compatible, Edits, ResponseEnds, RequestEnds
  <2>2. \/ st = "request" /\ a.dir = "up"
        \/ st = "response" /\ a.dir = "down"
    BY <2>1
  <2> QED BY <1>1, <1>3, <2>2 DEF Suits, RequestKinds, ResponseKinds, Misplaced, Foreign, RequestEnds
<1>4. CASE a.kind \in {"Delay", "Jitter"}
  <2>1. st # "tls" BY <1>4 DEF Compatible, Edits
  <2> QED BY <1>1, <1>4, <2>1 DEF Suits, RequestKinds, ResponseKinds, Misplaced, Foreign, RequestEnds
<1>5. CASE a.kind \in ResponseEnds \cup {"CustomStatus"}
  <2>1. st = "response" BY <1>5 DEF Compatible, Edits, ResponseEnds, RequestEnds
  <2> QED BY <1>1, <1>5, <2>1 DEF Suits, RequestKinds, ResponseKinds, Misplaced, Foreign, RequestEnds, ResponseEnds
<1>6. CASE a.kind \in RequestEnds
  <2>1. st = "request" BY <1>6 DEF Compatible, Edits, ResponseEnds, RequestEnds
  <2> QED BY <1>1, <1>6, <2>1 DEF Suits, RequestKinds
<1>7. CASE a.kind = "RejectTls"
  <2>1. st = "tls" BY <1>7 DEF Compatible, Edits, ResponseEnds, RequestEnds
  <2> QED BY <1>1, <1>7, <2>1 DEF Suits
<1> QED BY <1>2, <1>3, <1>4, <1>5, <1>6, <1>7

\* The faults that a message starts with.
LEMMA FaultsSuit ==
  ASSUME RulesInv, NEW st \in {"tls", "request", "response"}, NEW hits,
         NEW fs, fs = Faults(Composed(st, hits))
  PROVE  /\ fs \in Seq(Acts) /\ Len(fs) \in Nat
         /\ \A i \in 1..Len(fs) : Suits(st, fs[i]) /\ (fs[i].kind \in Terminals => i = Len(fs))
<1> DEFINE all == Composed(st, hits)
<1>1. /\ all \in Seq(Acts)
      /\ \A i \in 1..Len(all) : /\ Compatible(st, all[i])
                                /\ all[i].kind \in Terminals => i = Len(all)
  BY ComposedIs
<1> HIDE DEF all
<1>2. fs = Faults(all) BY DEF all
<1>3. /\ fs \in Seq(Acts)
      /\ \A j \in 1..Len(fs) : \E i \in 1..Len(all) :
           /\ fs[j] = all[i] /\ all[i].kind \notin Edits \cup {"Pause"}
           /\ i = Len(all) => j = Len(fs)
  BY <1>1, <1>2, FaultsAre
<1>4. ASSUME NEW j \in 1..Len(fs) PROVE Suits(st, fs[j]) /\ (fs[j].kind \in Terminals => j = Len(fs))
  <2>1. PICK i \in 1..Len(all) : /\ fs[j] = all[i] /\ all[i].kind \notin Edits \cup {"Pause"}
                                 /\ i = Len(all) => j = Len(fs)
    BY <1>3, <1>4
  <2>2. all[i] \in Acts /\ Compatible(st, all[i]) BY <1>1, <2>1
  <2>3. Suits(st, fs[j]) BY <2>1, <2>2, RulesSuit
  <2> QED BY <1>1, <2>1, <2>3
<1> QED BY <1>3, <1>4

\* Before anything is executed.
LEMMA NothingDone ==
  ASSUME at = 0, waited = 0, schedule.cut = Null
  PROVE  waited = SleptIn(faults, at) /\ ResponseInv /\ LastInv
<1>1. 1..0 = {} OBVIOUS
<1>2. ResponseInv BY <1>1, NoneLatest DEF ResponseInv
<1> QED BY <1>2, SleptNone DEF LastInv

\* The arrival of a message keeps the invariant.
LEMMA ArriveStep == ASSUME EffectsInv, Arrive PROVE EffectsInv'
<1>1. PICK st \in {"request", "response"}, body \in Bodies, hits \in SUBSET DOMAIN rules :
        LET acts == Composed(st, hits)
            edited == FoldLeft(Edited, Plain(body), acts)
        IN /\ stage' = st /\ original' = Plain(body)
           /\ message' = IF edited = Null THEN Plain(body) ELSE edited
           /\ faults' = Faults(acts)
           /\ outcome' = CASE edited = Null -> "unfit body"
                           [] edited # Null /\ \E i \in DOMAIN acts : acts[i].kind = "Pause" -> "paused"
                           [] OTHER -> "running"
  BY Zenon DEF Arrive
<1> DEFINE acts == Composed(st, hits)
           edited == FoldLeft(Edited, Plain(body), acts)
<1>2. /\ RulesInv /\ StageInv /\ outcome = "rules"
      /\ rules' = <<>> /\ decision' = decision /\ at' = at /\ waited' = waited /\ schedule' = schedule
  BY DEF Arrive, EffectsInv
<1>3. decision = Null /\ at = 0 /\ waited = 0 /\ schedule.cut = Null BY <1>2 DEF StageInv
<1>4. Plain(body) \in MessageType
  <2>1. body \in BodyType
    <3>1. body.id \in Marks BY <1>1 DEF Marks
    <3>2. /\ body = [id |-> body.id, len |-> body.len, json |-> body.json]
          /\ body.len \in Nat /\ body.json \in {"no", "bare", "yes"}
      BY <1>1, BodyAssumption
    <3> QED BY <3>1, <3>2 DEF BodyType
  <2> QED BY <2>1, PlainIs
<1>5. edited \in MessageType \cup {Null}
  <2>1. acts \in Seq(Acts) BY <1>2, ComposedIs
  <2> HIDE DEF acts
  <2>2. \A a \in Acts : Parameters(a) BY ActsAre
  <2> QED BY <1>4, <2>1, <2>2, EditsAre
<1>6. /\ stage' = st /\ original' = Plain(body)
      /\ message' = IF edited = Null THEN Plain(body) ELSE edited
      /\ faults' = Faults(acts)
      /\ outcome' \in {"unfit body", "paused", "running"}
  <2>1. /\ stage' = st /\ original' = Plain(body)
        /\ message' = IF edited = Null THEN Plain(body) ELSE edited
        /\ faults' = Faults(acts)
        /\ outcome' = CASE edited = Null -> "unfit body"
                        [] edited # Null /\ \E i \in DOMAIN acts : acts[i].kind = "Pause" -> "paused"
                        [] OTHER -> "running"
    BY <1>1, Zenon
  <2> HIDE DEF acts, edited
  <2> QED BY <2>1
<1>7. faults' = Faults(Composed(st, hits)) BY <1>6
<1> HIDE DEF acts, edited
<1>8. /\ faults' \in Seq(Acts) /\ Len(faults') \in Nat
      /\ \A i \in 1..Len(faults') : /\ Suits(st, faults'[i])
                                    /\ faults'[i].kind \in Terminals => i = Len(faults')
  BY <1>2, <1>7, FaultsSuit
<1>9. RulesInv' BY <1>2 DEF RulesInv
<1>10. StageInv' BY <1>2, <1>3, <1>4, <1>5, <1>6 DEF StageInv
<1>11. FaultsInv'
  <2>1. faults' \in Seq(Acts \cup Decisions) BY <1>8
  <2>2. decision' = Null /\ at' = 0 BY <1>2, <1>3
  <2>3. ~Appended' BY <2>2 DEF Appended
  <2>4. stage' = st BY <1>6
  <2> QED BY <1>8, <2>1, <2>2, <2>3, <2>4 DEF FaultsInv
<1>12. at' = 0 /\ waited' = 0 /\ schedule'.cut = Null /\ decision' = Null BY <1>2, <1>3
<1>13. waited' = SleptIn(faults', at') /\ ResponseInv' /\ LastInv'
  <2>1. 1..0 = {} OBVIOUS
  <2>2. ResponseInv' BY <1>12, <2>1, NoneLatest DEF ResponseInv
  <2>3. LastInv'
    <3>1. ~(at' > 0) BY <1>12
    <3> QED BY <3>1, Zenon DEF LastInv
  <2> QED BY <1>12, <2>2, <2>3, SleptNone
<1>14. EndInv' BY <1>6, <1>13 DEF EndInv, Settled
<1>15. ChoiceInv' BY <1>12 DEF ChoiceInv
<1>16. SentInv' BY <1>1, <1>6 DEF SentInv, Settled
<1>17. ConfigInv' BY <1>6 DEF ConfigInv
<1> QED BY <1>9, <1>10, <1>11, <1>13, <1>14, <1>15, <1>16, <1>17 DEF EffectsInv

\* The judgement of a handshake keeps the invariant.
LEMMA HandshakeStep == ASSUME EffectsInv, Handshake PROVE EffectsInv'
<1>1. PICK hits \in SUBSET DOMAIN rules :
        /\ faults' = Faults(Composed("tls", hits))
        /\ outcome' = IF \E i \in DOMAIN faults' : faults'[i].kind = "RejectTls"
                      THEN "rejected" ELSE "accepted"
  BY Zenon DEF Handshake
<1>2. /\ RulesInv /\ StageInv /\ outcome = "rules" /\ stage' = "tls"
      /\ rules' = <<>> /\ decision' = decision /\ at' = at /\ waited' = waited /\ schedule' = schedule
  BY DEF Handshake, EffectsInv
<1>3. decision' = Null /\ at' = 0 /\ waited' = 0 /\ schedule'.cut = Null BY <1>2 DEF StageInv
<1>4. /\ faults' \in Seq(Acts) /\ Len(faults') \in Nat
      /\ \A i \in 1..Len(faults') : /\ Suits("tls", faults'[i])
                                    /\ faults'[i].kind \in Terminals => i = Len(faults')
  BY <1>1, <1>2, FaultsSuit
<1>5. outcome' \in {"rejected", "accepted"} BY <1>1
<1>6. RulesInv' BY <1>2 DEF RulesInv
<1>7. StageInv' BY <1>2, <1>5 DEF StageInv
<1>8. FaultsInv'
  <2>1. faults' \in Seq(Acts \cup Decisions) BY <1>4
  <2>2. ~Appended' BY <1>3 DEF Appended
  <2> QED BY <1>2, <1>3, <1>4, <2>1, <2>2 DEF FaultsInv
<1>9. EndInv' BY <1>2, <1>3, SleptNone DEF EndInv
<1>10. ResponseInv' BY <1>2 DEF ResponseInv
<1>11. LastInv'
  <2>1. ~(at' > 0) BY <1>3
  <2> QED BY <2>1, Zenon DEF LastInv
<1>12. ChoiceInv' BY <1>3 DEF ChoiceInv
<1>13. SentInv'
  <2>1. Has("RejectTls")' => outcome' = "rejected" BY <1>1 DEF Has
  <2> QED BY <1>2, <2>1 DEF SentInv
<1>14. ConfigInv' BY <1>5 DEF ConfigInv
<1> QED BY <1>6, <1>7, <1>8, <1>9, <1>10, <1>11, <1>12, <1>13, <1>14 DEF EffectsInv

\* A decision keeps the invariant.
LEMMA DecideStep == ASSUME EffectsInv, Decide PROVE EffectsInv'
<1>1. PICK d \in Decisions :
        /\ Acceptable(d)
        /\ decision' = d
        /\ message' = CASE d.kind = "ForwardOriginal" -> original
                        [] d.kind = "ForwardModified" -> Plain(Text("user", d.len))
                        [] OTHER -> message
        /\ faults' = IF d.kind \in {"ForwardOriginal", "ForwardModified"}
                     THEN faults ELSE Append(faults, d)
  BY Zenon DEF Decide
<1>2. /\ RulesInv /\ StageInv /\ FaultsInv /\ outcome = "paused" /\ outcome' = "running"
      /\ rules' = rules /\ stage' = stage /\ original' = original
      /\ at' = at /\ waited' = waited /\ schedule' = schedule
  BY DEF Decide, EffectsInv
<1>3. /\ decision = Null /\ at = 0 /\ waited = 0 /\ schedule.cut = Null
      /\ stage \in {"request", "response"} /\ original \in MessageType /\ message \in MessageType
  BY <1>2 DEF StageInv
<1>4. d.kind \in UserKinds /\ Parameters(d) /\ d # Null BY <1>1, ActionAssumption
<1>5. message' \in MessageType /\ (d.kind = "ForwardModified" => message'.body.id = "user")
  <2>1. d.kind = "ForwardModified" => d.len \in Nat BY <1>4 DEF Parameters
  <2>2. \A n \in Nat : /\ Plain(Text("user", n)) \in MessageType
                       /\ Plain(Text("user", n)).body.id = "user"
    BY TextIs, PlainIs DEF Marks
  <2> QED BY <1>1, <1>3, <2>1, <2>2
<1>6. RulesInv' BY <1>2 DEF RulesInv
<1>7. StageInv' BY <1>2, <1>3, <1>5 DEF StageInv
<1>8. /\ faults \in Seq(Acts \cup Decisions) /\ Len(faults) \in Nat
      /\ \A i \in 1..Len(faults) : Suits(stage, faults[i]) /\ (faults[i].kind \in Terminals => i = Len(faults))
  BY <1>2, <1>3 DEF FaultsInv, Appended
<1>9. FaultsInv'
  <2>1. decision' # Null /\ decision' \in Decisions BY <1>1, <1>4
  <2>2. CASE d.kind \in {"ForwardOriginal", "ForwardModified"}
    <3>1. faults' = faults /\ ~Appended' BY <1>1, <2>2 DEF Appended
    <3>2. Supports(stage', decision'.kind) BY <1>1, <1>2 DEF Acceptable
    <3> QED BY <1>2, <1>3, <1>8, <2>1, <3>1, <3>2 DEF FaultsInv
  <2>3. CASE d.kind \notin {"ForwardOriginal", "ForwardModified"}
    <3>1. faults' = Append(faults, d) /\ Appended' BY <1>1, <2>1, <2>3 DEF Appended
    <3>2. Suits(stage, d)
      <4>1. Supports(stage, d.kind) BY <1>1 DEF Acceptable
      <4>2. CASE stage = "request"
        <5>1. d.kind \in RequestKinds BY <2>3, <4>1, <4>2 DEF Supports, RequestKinds, RequestEnds
        <5> QED BY <1>4, <4>2, <5>1 DEF Suits
      <4>3. CASE stage = "response"
        <5>1. d.kind \in {"Delay", "CustomStatus", "InvalidJson", "WrongLength", "Truncate", "DropResponse"}
          BY <1>4, <2>3, <4>1, <4>3 DEF Supports, UserKinds
        <5>2. d.kind \in ResponseKinds BY <5>1 DEF ResponseKinds, ResponseEnds
        <5>3. ~Misplaced(d) BY <5>1 DEF Misplaced, Foreign, RequestEnds
        <5> QED BY <1>4, <4>3, <5>2, <5>3 DEF Suits
      <4> QED BY <1>3, <4>2, <4>3
    <3>3. /\ faults' \in Seq(Acts \cup Decisions) /\ Len(faults') = Len(faults) + 1
          /\ faults'[Len(faults')] = d /\ \A i \in 1..Len(faults) : faults'[i] = faults[i]
      <4>1. d \in Acts \cup Decisions BY <1>1
      <4> QED BY <1>8, <3>1, <4>1, AppendProperties
    <3>4. ASSUME NEW i \in 1..Len(faults')
          PROVE  /\ Suits(stage', faults'[i])
                 /\ faults'[i].kind \in Terminals => i = Len(faults') \/ i = Len(faults') - 1
      <4>1. CASE i \in 1..Len(faults) BY <1>2, <1>8, <3>3, <4>1
      <4>2. CASE i \notin 1..Len(faults)
        <5>1. i = Len(faults') BY <1>8, <3>3, <4>2
        <5> QED BY <1>2, <3>2, <3>3, <5>1
      <4> QED BY <4>1, <4>2
    <3>5. at' \in 0..Len(faults') /\ Len(faults') > 0 BY <1>2, <1>3, <1>8, <3>3
    <3>6. decision' = d /\ stage' \in {"request", "response"} /\ Supports(stage', d.kind)
      BY <1>1, <1>2, <1>3 DEF Acceptable
    <3> QED BY <2>1, <3>1, <3>3, <3>4, <3>5, <3>6 DEF FaultsInv
  <2> QED BY <2>2, <2>3
<1>10. at' = 0 /\ waited' = 0 /\ schedule'.cut = Null BY <1>2, <1>3
<1>11. EndInv' BY <1>2, <1>10, SleptNone DEF EndInv, Settled
<1>12. ResponseInv'
  <2>1. 1..0 = {} OBVIOUS
  <2> QED BY <1>10, <2>1, NoneLatest DEF ResponseInv
<1>13. LastInv'
  <2>1. ~(at' > 0) BY <1>10
  <2> QED BY <2>1, Zenon DEF LastInv
<1>14. ChoiceInv'
  <2>1. d.kind = "ForwardOriginal" => message' = original BY <1>1
  <2>2. d.kind = "Truncate" => d.n < message'.body.len
    <3> SUFFICES ASSUME d.kind = "Truncate" PROVE d.n < message'.body.len OBVIOUS
    <3>1. d.n \in 0..message.body.len - 1 BY <1>1 DEF Acceptable
    <3>2. message.body.len \in Nat BY <1>3 DEF MessageType, BodyType
    <3>3. message' = message BY <1>1
    <3> QED BY <3>1, <3>2, <3>3
  <2> QED BY <1>1, <1>2, <1>5, <2>1, <2>2 DEF ChoiceInv
<1>15. SentInv' BY <1>2, <1>3 DEF SentInv, Settled
<1>16. ConfigInv' BY <1>2 DEF ConfigInv
<1> QED BY <1>6, <1>7, <1>9, <1>11, <1>12, <1>13, <1>14, <1>15, <1>16 DEF EffectsInv
-------------------------------------------------------------------------------
\* Every rule saved, every composition, decision and execution of a fault keeps
\* EffectsInv, from which the next three follow.
THEOREM EffectsInvariant == EffectsSpec => []EffectsInv
<1>1. EffectsInit => EffectsInv
  <2> SUFFICES ASSUME EffectsInit PROVE EffectsInv OBVIOUS
  <2>1. RulesInv BY DEF EffectsInit, RulesInv
  <2>2. StageInv BY DEF EffectsInit, StageInv
  <2>3. FaultsInv BY DEF EffectsInit, FaultsInv, Appended
  <2>4. EndInv BY SleptNone DEF EffectsInit, EndInv, Settled
  <2>5. at = 0 /\ waited = 0 /\ schedule.cut = Null BY DEF EffectsInit
  <2>6. ResponseInv /\ LastInv BY <2>5, NothingDone
  <2>7. ChoiceInv BY DEF EffectsInit, ChoiceInv
  <2>8. SentInv
    <3>1. ~Has("RejectTls") /\ ~Settled BY DEF EffectsInit, Has, Settled
    <3>2. outcome = "rules" BY DEF EffectsInit
    <3> QED BY <3>1, <3>2 DEF SentInv
  <2>9. ConfigInv BY DEF EffectsInit, ConfigInv
  <2> QED BY <2>1, <2>2, <2>3, <2>4, <2>6, <2>7, <2>8, <2>9 DEF EffectsInv
<1>2. EffectsInv /\ [EffectsNext]_effects => EffectsInv'
  <2> SUFFICES ASSUME EffectsInv, [EffectsNext]_effects PROVE EffectsInv' OBVIOUS
  <2>1. CASE Save BY <2>1, SaveStep
  <2>2. CASE Configure BY <2>2, ConfigureStep
  <2>3. CASE Arrive BY <2>3, ArriveStep
  <2>4. CASE Handshake BY <2>4, HandshakeStep
  <2>5. CASE Decide BY <2>5, DecideStep
  <2>6. CASE stage = "request" /\ (Delay \/ EndRequest \/ Skip) BY <2>6, RequestStep
  <2>7. CASE Send BY <2>7, SendStep
  <2>8. CASE stage = "response" /\ (Delay \/ DropAnswer \/ ReplaceBody \/ OffsetLength
                                    \/ Truncate \/ Shape \/ Restate)
    BY <2>8, ResponseStep
  <2>9. CASE Respond BY <2>9, RespondStep
  <2>10. CASE UNCHANGED effects
    <3>1. /\ rules' = rules /\ stage' = stage /\ original' = original /\ message' = message
          /\ faults' = faults /\ decision' = decision /\ at' = at /\ waited' = waited
          /\ schedule' = schedule /\ outcome' = outcome
      BY <2>10 DEF effects
    <3>2. (RulesInv' <=> RulesInv) /\ (StageInv' <=> StageInv)
      BY <3>1 DEF RulesInv, StageInv
    <3>3. (FaultsInv' <=> FaultsInv) /\ (EndInv' <=> EndInv)
      BY <3>1 DEF FaultsInv, EndInv, Settled, Appended
    <3>4. (ResponseInv' <=> ResponseInv) /\ (LastInv' <=> LastInv)
      BY <3>1 DEF ResponseInv, LastInv, Settled
    <3>5. ChoiceInv' <=> ChoiceInv BY <3>1 DEF ChoiceInv, RulesGoOn, Appended
    <3>6. SentInv' <=> SentInv BY <3>1 DEF SentInv, Settled, Unshaped, Superseded, Has
    <3>7. ConfigInv' <=> ConfigInv BY <3>1 DEF ConfigInv, TooFar
    <3> QED BY <3>2, <3>3, <3>4, <3>5, <3>6, <3>7 DEF EffectsInv
  <2>11. Delay => stage \in {"request", "response"} BY DEF Delay, Running
  <2>12. EndRequest \/ Skip => stage = "request" BY DEF EndRequest, Skip, Running
  <2>13. DropAnswer \/ ReplaceBody \/ OffsetLength \/ Truncate \/ Shape \/ Restate => stage = "response"
    BY DEF DropAnswer, ReplaceBody, OffsetLength, Truncate, Shape, Restate, Running
  <2> QED BY <2>1, <2>2, <2>3, <2>4, <2>5, <2>6, <2>7, <2>8, <2>9, <2>10, <2>11, <2>12, <2>13
          DEF EffectsNext, Execute
<1> QED BY <1>1, <1>2, PTL DEF EffectsSpec
-------------------------------------------------------------------------------
\* A rule of one action in range that suits the stage is accepted.
Allowed(t) ==
  /\ Compatible(t.stage, t.act) /\ InRange(t.act)
  /\ DelayOf(t.act) \in Int /\ DelayOf(t.act) <= MaxDelay

\* Such a rule is valid.
LEMMA ValidOne ==
  ASSUME NEW t, Allowed(t)
  PROVE  Valid([stage |-> t.stage, acts |-> <<t.act>>, byMessage |-> FALSE])
<1> DEFINE acts == <<t.act>>
           draft == [stage |-> t.stage, acts |-> acts, byMessage |-> FALSE]
<1>1. acts # <<>> /\ DOMAIN acts = {1} /\ Len(acts) = 1 /\ acts[1] = t.act OBVIOUS
<1>2. Total(acts) = DelayOf(t.act) BY TotalOfOne DEF Allowed
<1>3. draft.stage = t.stage /\ draft.acts = acts /\ draft.byMessage = FALSE OBVIOUS
<1> HIDE DEF acts, draft
<1>4. OneEnd(acts) BY <1>1 DEF OneEnd
<1>5. \A i \in DOMAIN acts : Compatible(t.stage, acts[i]) /\ InRange(acts[i]) BY <1>1 DEF Allowed
<1>6. Total(acts) <= MaxDelay BY <1>2 DEF Allowed
<1>7. Valid(draft) BY <1>1, <1>3, <1>4, <1>5, <1>6 DEF Valid
<1> QED BY <1>7 DEF draft, acts

\* When an action is compatible with a stage.
LEMMA CompatibleWhen ==
  ASSUME NEW st, NEW a
  PROVE  /\ a.kind \in {"SetJson", "Delay", "Jitter"} /\ st # "tls" => Compatible(st, a)
         /\ a.kind \in {"Throttle", "Intermittent"}
              /\ <<st, a.dir>> \in {<<"request", "up">>, <<"response", "down">>} => Compatible(st, a)
         /\ a.kind \in ResponseEnds \cup {"CustomStatus"} /\ st = "response" => Compatible(st, a)
         /\ a.kind \in RequestEnds /\ st = "request" => Compatible(st, a)
         /\ a.kind = "RejectTls" /\ st = "tls" => Compatible(st, a)
<1> USE DEF Edits, ResponseEnds, RequestEnds
<1>1. a.kind \in {"SetJson", "Delay", "Jitter"} /\ st # "tls" => Compatible(st, a) BY DEF Compatible
<1>2. a.kind \in {"Throttle", "Intermittent"}
              /\ <<st, a.dir>> \in {<<"request", "up">>, <<"response", "down">>} => Compatible(st, a) BY DEF Compatible
<1>3. a.kind \in ResponseEnds \cup {"CustomStatus"} /\ st = "response" => Compatible(st, a) BY DEF Compatible
<1>4. a.kind \in RequestEnds /\ st = "request" => Compatible(st, a) BY DEF Compatible
<1>5. a.kind = "RejectTls" /\ st = "tls" => Compatible(st, a) BY DEF Compatible
<1> QED BY <1>1, <1>2, <1>3, <1>4, <1>5

\* When the parameters of an action are in range.
LEMMA InRangeWhen ==
  ASSUME NEW a
  PROVE  /\ a.kind = "Jitter" /\ a.min <= a.max /\ a.max <= MaxDelay => InRange(a)
         /\ a.kind = "Throttle" /\ a.rate \in 1..MaxRate /\ a.chunk \in 1..MaxChunk => InRange(a)
         /\ a.kind = "Intermittent" /\ a.on \in 1..MaxDelay /\ a.off \in 1..MaxDelay => InRange(a)
         /\ a.kind \in {"CustomStatus", "Mock"} /\ ValidStatus(a.status) => InRange(a)
         /\ a.kind = "WrongLength" /\ a.delta # 0 => InRange(a)
         /\ a.kind \in {"ConnectTimeout", "WriteTimeout", "ReadTimeout"} /\ a.ms > 0 => InRange(a)
         /\ a.kind = "SetJson" /\ a.path = "good" => InRange(a)
         /\ a.kind \in {"RejectTls", "Disconnect", "Delay", "DropResponse", "CutUpload", "InvalidJson",
                        "Truncate", "CutDownload"} => InRange(a)
<1>1. a.kind = "Jitter" /\ a.min <= a.max /\ a.max <= MaxDelay => InRange(a) BY DEF InRange
<1>2. a.kind = "Throttle" /\ a.rate \in 1..MaxRate /\ a.chunk \in 1..MaxChunk => InRange(a) BY DEF InRange
<1>3. a.kind = "Intermittent" /\ a.on \in 1..MaxDelay /\ a.off \in 1..MaxDelay => InRange(a) BY DEF InRange
<1>4. a.kind \in {"CustomStatus", "Mock"} /\ ValidStatus(a.status) => InRange(a) BY DEF InRange
<1>5. a.kind = "WrongLength" /\ a.delta # 0 => InRange(a) BY DEF InRange
<1>6. a.kind \in {"ConnectTimeout", "WriteTimeout", "ReadTimeout"} /\ a.ms > 0 => InRange(a) BY DEF InRange
<1>7. a.kind = "SetJson" /\ a.path = "good" => InRange(a) BY DEF InRange
<1>8. a.kind \in {"RejectTls", "Disconnect", "Delay", "DropResponse", "CutUpload", "InvalidJson",
                  "Truncate", "CutDownload"} => InRange(a) BY DEF InRange
<1> QED BY <1>1, <1>2, <1>3, <1>4, <1>5, <1>6, <1>7, <1>8

\* What an action adds to the delay of its rule.
LEMMA DelayWhen ==
  ASSUME NEW a
  PROVE  /\ a.kind = "Delay" => DelayOf(a) = a.ms
         /\ a.kind = "Jitter" => DelayOf(a) = a.max
         /\ a.kind \notin {"Delay", "Jitter"} => DelayOf(a) = 0
BY DEF DelayOf

\* A template has its stage and its action.
LEMMA OfIs == \A st, a : Of(st, a).stage = st /\ Of(st, a).act = a
BY DEF Of

\* The limits are numbers large enough for what the forms start with.
LEMMA Limits ==
  /\ MaxDelay \in Nat /\ MaxRate \in Nat /\ MaxChunk \in Nat
  /\ 70000 <= MaxDelay /\ 16384 <= MaxRate /\ 16384 <= MaxChunk
BY SMT DEF MaxDelay, MaxRate, MaxChunk

\* The forms fit, filled in with a number from one to the longest delay.
LEMMA FormsFit ==
  ASSUME NEW n \in 1..MaxDelay
  PROVE  /\ \A t \in RequestTemplates(n, FALSE) \cup ResponseTemplates(n) : Allowed(t)
         /\ \A t \in StatusTemplates(n) : Allowed(t)
<1>1. 0 <= MaxDelay /\ n \in Int /\ n > 0 /\ n # 0 /\ n <= MaxDelay
  <2>1. MaxDelay \in Nat BY Limits
  <2> QED BY <2>1
<1>2. ASSUME NEW t, \/ t.stage = "tls" /\ t.act.kind = "RejectTls"
                    \/ t.stage = "request" /\ t.act.kind \in {"Disconnect", "DropResponse", "CutUpload"}
                    \/ t.stage = "response" /\ t.act.kind \in {"InvalidJson", "Truncate", "CutDownload"}
      PROVE Allowed(t)
  BY <1>1, <1>2, CompatibleWhen, InRangeWhen, DelayWhen DEF Allowed, RequestEnds, ResponseEnds
<1>3. ASSUME NEW t, t.stage # "tls", t.act.kind = "Delay", t.act.ms = n PROVE Allowed(t)
  BY <1>1, <1>3, CompatibleWhen, InRangeWhen, DelayWhen DEF Allowed
<1>4. ASSUME NEW t, t.stage # "tls", t.act.kind = "SetJson", t.act.path = "good" PROVE Allowed(t)
  BY <1>1, <1>4, CompatibleWhen, InRangeWhen, DelayWhen DEF Allowed
<1>5. ASSUME NEW t, t.stage = "request", t.act.ms = n,
             t.act.kind \in {"ConnectTimeout", "WriteTimeout", "ReadTimeout"}
      PROVE Allowed(t)
  BY <1>1, <1>5, CompatibleWhen, InRangeWhen, DelayWhen DEF Allowed, RequestEnds
<1>6. ASSUME NEW t, t.stage = "response", t.act.kind = "WrongLength", t.act.delta = n PROVE Allowed(t)
  BY <1>1, <1>6, CompatibleWhen, InRangeWhen, DelayWhen DEF Allowed, ResponseEnds
<1>7. ASSUME NEW t \in RequestTemplates(n, FALSE) PROVE Allowed(t)
  <2>1. \/ t.stage = "tls" /\ t.act.kind = "RejectTls"
        \/ t.stage = "request" /\ t.act.kind \in {"Disconnect", "DropResponse", "CutUpload"}
        \/ t.stage = "request" /\ t.act.kind = "Delay" /\ t.act.ms = n
        \/ t.stage = "request" /\ t.act.kind = "SetJson" /\ t.act.path = "good"
        \/ /\ t.stage = "request" /\ t.act.ms = n
           /\ t.act.kind \in {"ConnectTimeout", "WriteTimeout", "ReadTimeout"}
    BY <1>7, OfIs DEF RequestTemplates
  <2> QED BY <1>2, <1>3, <1>4, <1>5, <2>1
<1>8. ASSUME NEW t \in ResponseTemplates(n) PROVE Allowed(t)
  <2>1. \/ t.stage = "response" /\ t.act.kind \in {"InvalidJson", "Truncate", "CutDownload"}
        \/ t.stage = "response" /\ t.act.kind = "Delay" /\ t.act.ms = n
        \/ t.stage = "response" /\ t.act.kind = "WrongLength" /\ t.act.delta = n
    BY <1>8, OfIs DEF ResponseTemplates
  <2> QED BY <1>2, <1>3, <1>6, <2>1
<1>9. ASSUME NEW t \in StatusTemplates(n) PROVE Allowed(t)
  <2>1. /\ ValidStatus(t.act.status)
        /\ \/ t.stage = "request" /\ t.act.kind = "Mock"
           \/ t.stage = "response" /\ t.act.kind = "CustomStatus"
    BY <1>9, OfIs DEF StatusTemplates
  <2> QED BY <1>1, <2>1, CompatibleWhen, InRangeWhen, DelayWhen DEF Allowed, RequestEnds
<1> QED BY <1>7, <1>8, <1>9

\* So do the forms for shaping, within the limits of each.
LEMMA ShapingFits ==
  ASSUME NEW r \in 1..MaxRate, NEW c \in 1..MaxChunk, NEW least \in Int, NEW most \in Int,
         least <= most, most <= MaxDelay, NEW pause \in 1..MaxDelay
  PROVE  \A t \in ShownShaping(r, c, least, most, pause) : Allowed(t)
<1> DEFINE suits(t) == <<t.stage, t.act.dir>> \in {<<"request", "up">>, <<"response", "down">>}
<1>1. ASSUME NEW n \in Int, NEW m \in Int, NEW on \in BOOLEAN, NEW t \in ShapingTemplates(n, m, on)
      PROVE  /\ suits(t) \/ t.act.kind = "Jitter"
             /\ t.stage # "tls"
             /\ t.act.kind = "Throttle" => t.act.rate = n /\ t.act.chunk = m
             /\ t.act.kind = "Jitter" => t.act.min = n /\ t.act.max = m
             /\ t.act.kind = "Intermittent" => t.act.on = n /\ t.act.off = m
  <2>1. ASSUME NEW st, NEW dir, t \in Shaped(st, dir, n, m, on)
        PROVE  /\ t.stage = st /\ (t.act.dir = dir \/ t.act.kind = "Jitter")
               /\ t.act.kind = "Throttle" => t.act.rate = n /\ t.act.chunk = m
               /\ t.act.kind = "Jitter" => t.act.min = n /\ t.act.max = m
               /\ t.act.kind = "Intermittent" => t.act.on = n /\ t.act.off = m
    BY <2>1, OfIs DEF Shaped
  <2>2. t \in Shaped("request", "up", n, m, on) \/ t \in Shaped("response", "down", n, m, on)
    BY DEF ShapingTemplates
  <2>3. CASE t \in Shaped("request", "up", n, m, on)
    <3>1. t.stage = "request" /\ (t.act.dir = "up" \/ t.act.kind = "Jitter") BY <2>1, <2>3
    <3> QED BY <2>1, <2>3, <3>1
  <2>4. CASE t \in Shaped("response", "down", n, m, on)
    <3>1. t.stage = "response" /\ (t.act.dir = "down" \/ t.act.kind = "Jitter") BY <2>1, <2>4
    <3> QED BY <2>1, <2>4, <3>1
  <2> QED BY <2>2, <2>3, <2>4
<1> HIDE DEF suits
<1>2. 0 <= MaxDelay /\ r \in Int /\ c \in Int /\ pause \in Int BY Limits
<1>3. ASSUME NEW on \in BOOLEAN, NEW t \in ShapingTemplates(r, c, on), t.act.kind = "Throttle" PROVE Allowed(t)
  <2>1. t.act.rate = r /\ t.act.chunk = c /\ suits(t)
    <3>1. r \in Int /\ c \in Int BY <1>2
    <3>2. t \in ShapingTemplates(r, c, on) /\ t.act.kind = "Throttle" /\ on \in BOOLEAN BY <1>3
    <3>3. t.act.kind = "Throttle" => t.act.rate = r /\ t.act.chunk = c BY <1>1, <3>1, <3>2
    <3>4. suits(t) \/ t.act.kind = "Jitter" BY <1>1, <3>1, <3>2
    <3> QED BY <3>2, <3>3, <3>4
  <2> QED BY <1>2, <1>3, <2>1, CompatibleWhen, InRangeWhen, DelayWhen DEF Allowed, suits
<1>4. ASSUME NEW on \in BOOLEAN, NEW t \in ShapingTemplates(least, most, on), t.act.kind = "Jitter" PROVE Allowed(t)
  <2>1. t.act.min = least /\ t.act.max = most /\ t.stage # "tls"
    <3>1. t \in ShapingTemplates(least, most, on) /\ t.act.kind = "Jitter" /\ on \in BOOLEAN BY <1>4
    <3>2. t.act.kind = "Jitter" => t.act.min = least /\ t.act.max = most BY <1>1, <3>1
    <3>3. t.stage # "tls" BY <1>1, <3>1
    <3> QED BY <3>1, <3>2, <3>3
  <2> QED BY <1>2, <1>4, <2>1, CompatibleWhen, InRangeWhen, DelayWhen DEF Allowed
<1>5. ASSUME NEW on \in BOOLEAN, NEW t \in ShapingTemplates(pause, pause, on), t.act.kind = "Intermittent" PROVE Allowed(t)
  <2>1. t.act.on = pause /\ t.act.off = pause /\ suits(t) BY <1>1, <1>2, <1>5
  <2> QED BY <1>2, <1>5, <2>1, CompatibleWhen, InRangeWhen, DelayWhen DEF Allowed, suits
<1> QED BY <1>3, <1>4, <1>5, Zenon DEF ShownShaping

\* The forms fit as they are first shown.
LEMMA DefaultsFit == \A t \in Defaults \cup ShapingDefaults : Allowed(t)
<1>1. ASSUME NEW ms \in 1..MaxDelay, NEW n \in 1..MaxDelay, NEW mocked \in 1..MaxDelay, NEW failed \in 1..MaxDelay
      PROVE  \A t \in Shown(ms, n, mocked, failed) : Allowed(t)
  <2>1. /\ \A t \in RequestTemplates(ms, FALSE) \cup ResponseTemplates(ms) : Allowed(t)
        /\ \A t \in RequestTemplates(n, FALSE) \cup ResponseTemplates(n) : Allowed(t)
        /\ \A t \in StatusTemplates(mocked) : Allowed(t)
        /\ \A t \in StatusTemplates(failed) : Allowed(t)
    BY FormsFit
  <2> QED BY <2>1, Zenon DEF Shown
<1>2. 70000 \in 1..MaxDelay /\ 1 \in 1..MaxDelay /\ 200 \in 1..MaxDelay /\ 500 \in 1..MaxDelay
  BY Limits, SMT
<1>3. \A t \in Shown(70000, 1, 200, 500) : Allowed(t) BY <1>1, <1>2, SMT
<1>4. 1024 \in 1..MaxRate /\ 16384 \in 1..MaxChunk /\ 100 <= MaxDelay /\ 1000 \in 1..MaxDelay
  BY Limits, SMT
<1>5. \A t \in ShownShaping(1024, 16384, 0, 100, 1000) : Allowed(t) BY <1>4, ShapingFits, SMT
<1> QED BY <1>3, <1>5, SMT DEF Defaults, ShapingDefaults

\* What validate_rule_draft accepted, from the editor or a template, the transport never
\* refuses with CONFIG_INVALID, unless the body is too short for an offset; and every
\* template is accepted with the parameters its form starts with.
THEOREM RulesRun == EffectsSpec => []AcceptedRulesRun
<1>1. EffectsInv => AcceptedRulesRun
  BY DefaultsFit, ValidOne DEF EffectsInv, ConfigInv, AcceptedRulesRun
<1> QED BY <1>1, EffectsInvariant, PTL
-------------------------------------------------------------------------------
\* All the delays that were composed are slept when all the faults are executed.
LEMMA AllSlept == ASSUME FaultsInv PROVE Delays = SleptIn(faults, Len(faults))
<1>1. DOMAIN faults = 1..Len(faults) BY DEF FaultsInv
<1> QED BY <1>1, Zenon DEF Delays, SleptIn

\* What the last of its kind leaves, at the end.
LEMMA LatestIs ==
  ASSUME FaultsInv, at = Len(faults), NEW i \in 1..Len(faults), NEW vs, NEW g,
         Latest(vs, faults, at, faults[i].kind, g)
  PROVE  Superseded(i) \/ g = vs[i]
<1>1. DOMAIN faults = 1..Len(faults) /\ Len(faults) \in Nat BY DEF FaultsInv
<1>2. \A j \in (i + 1)..at : j \in DOMAIN faults /\ j > i BY <1>1
<1>3. g = vs[i] \/ \E j \in (i + 1)..at : faults[j].kind = faults[i].kind BY DEF Latest
<1> QED BY <1>2, <1>3 DEF Superseded

\* A decision that BreakpointValidator accepted is what becomes of the message, after
\* whatever edits, delays and shaping the rules had composed, unless a rule ends the
\* message itself.
THEOREM DecisionHolds == EffectsSpec => []DecisionTakesEffect
<1>1. EffectsInv => DecisionTakesEffect
  <2> SUFFICES ASSUME EffectsInv, Settled, decision # Null,
                      \A i \in DOMAIN ByRules : ByRules[i].kind \notin Terminals
               PROVE  DecisionTakesEffect
    BY DEF DecisionTakesEffect
  <2>1. /\ StageInv /\ FaultsInv /\ EndInv /\ ResponseInv /\ LastInv /\ ChoiceInv BY DEF EffectsInv
  <2>2. decision \in Decisions /\ stage \in {"request", "response"} BY <2>1 DEF FaultsInv
  <2>3. decision.kind \in UserKinds BY <2>2, ActionAssumption
  <2>4. faults \in Seq(Acts \cup Decisions) /\ Len(faults) \in Nat /\ DOMAIN faults = 1..Len(faults)
    BY <2>1 DEF FaultsInv
  <2>5. RulesGoOn
    <3>1. CASE decision.kind \in {"ForwardOriginal", "ForwardModified"}
      <4>1. ByRules = faults BY <3>1 DEF ByRules
      <4> QED BY <2>4, <4>1 DEF RulesGoOn
    <3>2. CASE decision.kind \notin {"ForwardOriginal", "ForwardModified"}
      <4>1. Appended /\ Len(faults) > 0 BY <2>1, <3>2 DEF Appended, FaultsInv
      <4>2. ByRules = SubSeq(faults, 1, Len(faults) - 1) BY <3>2 DEF ByRules, Front
      <4>3. ASSUME NEW i \in 1..Len(faults), i # Len(faults) PROVE faults[i].kind \notin Terminals
        <5>1. i \in 1..Len(faults) - 1
          <6>1. \A n \in Nat : \A k \in 1..n : k # n => k \in 1..n - 1 OBVIOUS
          <6> QED BY <2>4, <4>3, <6>1
        <5>2. i \in DOMAIN ByRules /\ ByRules[i] = faults[i] BY <2>4, <4>1, <4>2, <5>1
        <5> QED BY <5>2
      <4> QED BY <4>1, <4>3 DEF RulesGoOn
    <3> QED BY <3>1, <3>2
  <2>6. at = Len(faults)
    <3>1. outcome # "unfit body" /\ stage # "tls" BY <2>1, <2>2 DEF StageInv
    <3>2. ~(at > 0 /\ at = Len(faults) - 1 /\ faults[at].kind \in Terminals)
      BY <2>4, <2>5 DEF RulesGoOn
    <3> QED BY <2>1, <3>1, <3>2 DEF EndInv
  <2>7. Appended => at > 0 /\ at \in 1..at /\ faults[at] = decision /\ Suits(stage, decision)
    <3> SUFFICES ASSUME Appended
                 PROVE  at > 0 /\ at \in 1..at /\ faults[at] = decision /\ Suits(stage, decision)
      OBVIOUS
    <3>1. Len(faults) > 0 /\ faults[Len(faults)] = decision BY <2>1 DEF FaultsInv
    <3>2. Len(faults) \in 1..Len(faults) BY <2>4, <3>1
    <3>3. Suits(stage, faults[Len(faults)]) BY <2>1, <3>2 DEF FaultsInv
    <3> QED BY <2>6, <3>1, <3>2, <3>3
  <2>8. decision.kind = "ForwardOriginal" => message.body = original.body
    BY <2>1, <2>5 DEF ChoiceInv
  <2>9. decision.kind = "ForwardModified" => message.body.id = "user"
    BY <2>1, <2>5 DEF ChoiceInv
  <2>10. decision.kind = "Mock" => outcome = "mocked" /\ message.status = decision.status
    <3> SUFFICES ASSUME decision.kind = "Mock"
                 PROVE  outcome = "mocked" /\ message.status = decision.status
      OBVIOUS
    <3>1. stage = "request" BY <2>1, <2>2 DEF FaultsInv, Supports
    <3> QED BY <2>1, <2>6, <2>7, <3>1 DEF LastInv, Appended
  <2>11. waited = Delays BY <2>1, <2>6, AllSlept DEF EndInv
  <2>12. decision.kind = "Disconnect" => outcome = "disconnected"
    <3> SUFFICES ASSUME decision.kind = "Disconnect" PROVE outcome = "disconnected" OBVIOUS
    <3>1. stage = "request" BY <2>1, <2>2 DEF FaultsInv, Supports
    <3> QED BY <2>1, <2>6, <2>7, <3>1 DEF LastInv, Appended
  <2>13. decision.kind \in {"CustomStatus", "InvalidJson", "WrongLength", "Truncate", "DropResponse"} =>
           stage = "response" /\ Appended
    BY <2>1, <2>2 DEF FaultsInv, Supports, Appended
  <2>14. decision.kind = "CustomStatus" => message.status = decision.status
    <3> SUFFICES ASSUME decision.kind = "CustomStatus" PROVE message.status = decision.status OBVIOUS
    <3>1. Latest(Statuses(faults), faults, at, "CustomStatus", message.status)
      BY <2>1, <2>13 DEF ResponseInv
    <3>2. (at + 1)..at = {} BY <2>4, <2>6
    <3>3. message.status = Statuses(faults)[at] BY <2>7, <2>13, <3>1, <3>2 DEF Latest
    <3> QED BY <2>6, <2>7, <2>13, <3>3 DEF Statuses
  <2>15. decision.kind = "InvalidJson" => message.body.id = "bad"
    BY <2>1, <2>7, <2>13 DEF ResponseInv
  <2>16. decision.kind = "WrongLength" =>
           IF message.body.len + decision.delta < 0 THEN outcome = "CONFIG_INVALID"
           ELSE message.declared = message.body.len + decision.delta
    BY <2>1, <2>6, <2>7, <2>13 DEF LastInv
  <2>17. decision.kind = "Truncate" => outcome = "truncated"
    <3> SUFFICES ASSUME decision.kind = "Truncate" PROVE outcome = "truncated" OBVIOUS
    <3>1. decision.n < message.body.len BY <2>1, <2>5 DEF ChoiceInv
    <3>2. outcome = IF decision.n >= message.body.len THEN "CONFIG_INVALID" ELSE "truncated"
      BY <2>1, <2>6, <2>7, <2>13 DEF LastInv
    <3>3. message \in MessageType BY <2>1, <2>2 DEF StageInv, Settled
    <3>4. message.body.len \in Nat BY <3>3 DEF MessageType, BodyType
    <3>5. decision.n \in Int BY <2>2, ActionAssumption DEF Parameters
    <3> QED BY <3>1, <3>2, <3>4, <3>5
  <2>18. decision.kind = "DropResponse" => outcome = "answer dropped"
    BY <2>1, <2>6, <2>7, <2>13 DEF LastInv
  <2> QED BY <2>3, <2>8, <2>9, <2>10, <2>11, <2>12, <2>14, <2>15, <2>16, <2>17, <2>18
          DEF DecisionTakesEffect, UserKinds
<1> QED BY <1>1, EffectsInvariant, PTL

\* Without a user, everything RuleEngine::evaluate composed is carried out: all the delays
\* are slept, the last shaping of each kind is the one in force, and the terminal action
\* is how the message ends.
THEOREM EverythingHappens == EffectsSpec => []NothingLost
<1>1. EffectsInv => NothingLost
  <2> SUFFICES ASSUME EffectsInv, Settled, decision = Null, outcome \notin {"CONFIG_INVALID", "unfit body"},
                      NEW i \in DOMAIN faults
               PROVE  LET f == faults[i] IN
                        CASE f.kind = "Delay" -> waited = Delays
                          [] f.kind = "Jitter" -> Unshaped \/ Superseded(i) \/ schedule.jitter = f
                          [] f.kind = "Throttle" -> Unshaped \/ Superseded(i) \/ schedule.throttle = f
                          [] f.kind = "Intermittent" -> Unshaped \/ Superseded(i) \/ schedule.gaps = f
                          [] f.kind = "CustomStatus" -> Superseded(i) \/ message.status = f.status
                          [] f.kind = "InvalidJson" -> message.body.id = "bad"
                          [] f.kind = "WrongLength" -> message.declared = message.body.len + f.delta
                          [] OTHER -> outcome \in EndOf(f.kind)
    BY Zenon DEF NothingLost
  <2>1. /\ StageInv /\ FaultsInv /\ EndInv /\ ResponseInv /\ LastInv /\ SentInv BY DEF EffectsInv
  <2>2. Len(faults) \in Nat /\ DOMAIN faults = 1..Len(faults) /\ i \in 1..Len(faults)
    <3>1. FaultsInv BY <2>1
    <3>2. Len(faults) \in Nat /\ DOMAIN faults = 1..Len(faults) BY ONLY <3>1 DEF FaultsInv
    <3> QED BY <3>2
  <2>3. stage \in {"tls", "request", "response"} BY <2>1 DEF StageInv, Settled
  <2>4. ~Appended BY DEF Appended
  <2>5. Suits(stage, faults[i]) /\ (faults[i].kind \in Terminals => i = Len(faults))
    BY <2>1, <2>2, <2>4 DEF FaultsInv
  <2>6. CASE stage = "tls"
    <3>1. faults[i].kind = "RejectTls" BY <2>5, <2>6 DEF Suits
    <3>2. outcome = "rejected" BY <2>1, <2>6, <3>1 DEF SentInv, Has
    <3> QED BY <3>1, <3>2 DEF EndOf
  <2>7. stage # "tls" => at = Len(faults) /\ waited = Delays
    BY <2>1, <2>4, AllSlept DEF EndInv
  <2>8. CASE stage = "request"
    <3>1. faults[i].kind \in RequestKinds BY <2>5, <2>8 DEF Suits
    <3>2. CASE outcome \in {"disconnected", "mocked"}
      <4>1. outcome \in EndOf(faults[at].kind) /\ Unshaped BY <2>1, <2>8, <3>2 DEF SentInv, Unshaped
      <4>2. faults[i].kind \in RequestEnds => outcome \in EndOf(faults[i].kind)
        BY <2>5, <2>7, <2>8, <4>1 DEF Terminals
      <4> QED BY <2>7, <2>8, <3>1, <4>1, <4>2 DEF RequestKinds, RequestEnds
    <3>3. CASE outcome \notin {"disconnected", "mocked"}
      <4>1. /\ faults[i].kind = "Jitter" => Unshaped \/ Superseded(i) \/ schedule.jitter = faults[i]
            /\ faults[i].kind = "Throttle" => Unshaped \/ Superseded(i) \/ schedule.throttle = faults[i]
            /\ faults[i].kind = "Intermittent" => Unshaped \/ Superseded(i) \/ schedule.gaps = faults[i]
            /\ faults[i].kind \in Terminals => outcome \in EndOf(faults[i].kind)
        BY <2>1, <2>2, <2>8, <3>3 DEF SentInv
      <4>2. faults[i].kind \in RequestEnds => outcome \in EndOf(faults[i].kind)
        BY <4>1 DEF Terminals
      <4> QED BY <2>7, <2>8, <3>1, <4>1, <4>2 DEF RequestKinds, RequestEnds
    <3> QED BY <3>2, <3>3
  <2>9. CASE stage = "response"
    <3>1. faults[i].kind \in ResponseKinds BY <2>5, <2>9 DEF Suits
    <3>2. at = Len(faults) /\ waited = Delays /\ i \in 1..at BY <2>2, <2>7, <2>9
    <3>3. ASSUME NEW vs, NEW g, Latest(vs, faults, at, faults[i].kind, g)
          PROVE  Superseded(i) \/ g = vs[i]
      <4>1. FaultsInv BY <2>1
      <4> QED BY <2>2, <3>2, <3>3, <4>1, LatestIs
    <3>4. faults[i].kind = "Jitter" => Superseded(i) \/ schedule.jitter = faults[i]
      BY <2>1, <2>9, <3>3 DEF ResponseInv
    <3>5. faults[i].kind = "Throttle" => Superseded(i) \/ schedule.throttle = faults[i]
      BY <2>1, <2>9, <3>3 DEF ResponseInv
    <3>6. faults[i].kind = "Intermittent" => Superseded(i) \/ schedule.gaps = faults[i]
      BY <2>1, <2>9, <3>3 DEF ResponseInv
    <3>7. faults[i].kind = "CustomStatus" => Superseded(i) \/ message.status = faults[i].status
      <4>1. Statuses(faults)[i] = faults[i].status BY <2>2 DEF Statuses
      <4> QED BY <2>1, <2>9, <3>3, <4>1 DEF ResponseInv
    <3>8. faults[i].kind = "InvalidJson" => message.body.id = "bad"
      BY <2>1, <2>9, <3>2 DEF ResponseInv
    <3>9. faults[i].kind \in Terminals => at > 0 /\ i = at
      <4>1. at \in Nat /\ at > 0 BY ONLY <2>2, <3>2
      <4> QED BY <2>5, <3>2, <4>1
    <3>10. {"WrongLength", "Truncate", "DropResponse", "CutDownload"} \subseteq Terminals
      BY DEF Terminals, RequestEnds, ResponseEnds
    <3>11. faults[i].kind = "WrongLength" => message.declared = message.body.len + faults[i].delta
      BY <2>1, <2>9, <3>2, <3>9, <3>10 DEF LastInv
    <3>12. faults[i].kind = "Truncate" => outcome = "truncated"
      BY <2>1, <2>9, <3>2, <3>9, <3>10 DEF LastInv
    <3>13. faults[i].kind = "DropResponse" => outcome = "answer dropped"
      BY <2>1, <2>9, <3>2, <3>9, <3>10 DEF LastInv
    <3>14. faults[i].kind = "CutDownload" => outcome = "sent and cut"
      BY <2>1, <2>9, <3>2, <3>9, <3>10 DEF LastInv
    <3>15. faults[i].kind \in {"Truncate", "DropResponse", "CutDownload"} =>
             outcome \in EndOf(faults[i].kind)
      BY <3>12, <3>13, <3>14 DEF EndOf
    <3> QED BY <3>1, <3>2, <3>4, <3>5, <3>6, <3>7, <3>8, <3>11, <3>15 DEF ResponseKinds, ResponseEnds
  <2> QED BY <2>3, <2>6, <2>8, <2>9
<1> QED BY <1>1, EffectsInvariant, PTL
===============================================================================
