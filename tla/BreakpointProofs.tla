---------------------------- MODULE BreakpointProofs ----------------------------
(***************************************************************************)
(* The races for a breakpoint, for any number of connections, users and    *)
(* epochs and any bound on tombstones: a wait can always be woken, one of  *)
(* the ends wins, and everybody agrees which.                              *)
(***************************************************************************)
EXTENDS Breakpoints, FiniteSetTheorems, TLAPS

\* The tombstones and their order, without counting.
TombInv ==
  /\ Len(order) <= MaxTombstones
  /\ \A i, j \in 1 .. Len(order) : order[i] = order[j] => i = j
  /\ \A id \in Ids : terminal[id] # "none" <=> \E i \in 1 .. Len(order) : order[i] = id

\* A message the connection has not come to has left no trace.
Fresh(id) == id \notin pending /\ outcome[id] = "none" /\ terminal[id] = "none"

FreshInv ==
  \A c \in Conns :
    /\ pc[c] \in {"new", "open", "evaluating"} => Fresh(IdOf(c))
    /\ stage[c] = "request" => Fresh(<<c, "response">>)

\* From its registration to the end of pause a task has its entry or its outcome.
WaitInv ==
  \A c \in Conns :
    pc[c] \in {"updating", "paused"} => IdOf(c) \in pending \/ outcome[IdOf(c)] # "none"

\* Who has been told that he decided has asked.
ToldInv == \A u \in Users : told[u] = "ok" => asked[u] # None

Inv ==
  /\ TypeOK /\ TombInv /\ FreshInv /\ WaitInv /\ ToldInv
  /\ Agreement /\ PendingHasOwner /\ OneDecision

LEMMA NoneApart == None \notin Epochs
  BY BreakpointsAssumption

LEMMA InvInit == ASSUME Init PROVE Inv
<1>1. TypeOK
  <2>1. order \in Seq(Ids) /\ \A id \in Ids : terminal[id] = "none" /\ outcome[id] = "none"
    BY DEF Init
  <2>2. /\ terminal \in [Ids -> Outcomes \cup {"none"}]
        /\ outcome \in [Ids -> Outcomes \cup {"none"}]
    BY DEF Init
  <2>3. /\ of \in [Conns -> Epochs \cup {None}] /\ pc \in [Conns -> ConnPcs]
        /\ stage \in [Conns -> Stages] /\ why \in [Conns -> Reasons]
    BY DEF Init, ConnPcs, Stages, Reasons
  <2>4. /\ asked \in [Users -> Ids \cup {None}] /\ told \in [Users -> {"none", "ok", "error"}]
        /\ phase \in [Epochs -> Phases]
    BY DEF Init, Phases
  <2> QED BY <2>1, <2>2, <2>3, <2>4 DEF Init, TypeOK, FacadeOps
<1>2. TombInv
  BY BreakpointsAssumption DEF Init, TombInv
<1>3. FreshInv
  BY DEF Init, FreshInv, Fresh, IdOf, Ids, Stages
<1>4. WaitInv /\ ToldInv /\ Agreement /\ PendingHasOwner /\ OneDecision
  BY DEF Init, WaitInv, ToldInv, Agreement, PendingHasOwner, OneDecision
<1> QED BY <1>1, <1>2, <1>3, <1>4 DEF Inv

-------------------------------------------------------------------------------
\* remember_terminal: the list stays within its bound and in step with the map.
LEMMA Remembered ==
  ASSUME TypeOK, TombInv, NEW id \in Ids, NEW end \in Outcomes, terminal[id] = "none",
         RememberTerminal(id, end)
  PROVE  /\ order' \in Seq(Ids) /\ terminal' \in [Ids -> Outcomes \cup {"none"}] /\ TombInv'
         /\ terminal'[id] \in {end, "none"}
         /\ \A i \in Ids \ {id} : terminal'[i] \in {terminal[i], "none"}
<1> DEFINE longer == Append(order, id)
           n == Len(order)
<1>1. /\ order \in Seq(Ids) /\ n \in Nat /\ n <= MaxTombstones /\ MaxTombstones \in Nat
      /\ longer \in Seq(Ids) /\ Len(longer) = n + 1
      /\ \A i \in 1 .. n : longer[i] = order[i]
      /\ longer[n + 1] = id
  BY BreakpointsAssumption DEF TypeOK, TombInv
<1>2. \A i \in 1 .. n : order[i] # id
  BY DEF TombInv
<1>3. \A i, j \in 1 .. n + 1 : longer[i] = longer[j] => i = j
  BY <1>1, <1>2 DEF TombInv
<1> HIDE DEF longer
<1>4. CASE n < MaxTombstones
  <2>0. ToSet(SubSeq(longer, 1, 0)) = {}
    <3>1. DOMAIN SubSeq(longer, 1, 0) = {}
      BY <1>1
    <3> QED BY <3>1 DEF ToSet
  <2>1. order' = SubSeq(longer, 1, n + 1) /\ ToSet(SubSeq(longer, 1, 0)) = {}
    <3>1. (IF Len(longer) > MaxTombstones THEN Len(longer) - MaxTombstones ELSE 0) = 0
      BY <1>1, <1>4
    <3>2. order' = SubSeq(longer, 0 + 1, Len(longer))
      BY <3>1 DEF RememberTerminal, longer
    <3> QED BY <1>1, <2>0, <3>2
  <2>2. order' \in Seq(Ids) /\ Len(order') = n + 1 /\ \A i \in 1 .. n + 1 : order'[i] = longer[i]
    BY <1>1, <2>1
  <2>3. terminal' = [i \in Ids |-> IF i = id THEN end ELSE terminal[i]]
    BY <1>1, <1>4, <2>1 DEF RememberTerminal, longer
  <2>4. \A i \in Ids : terminal'[i] # "none" <=> \E k \in 1 .. n + 1 : longer[k] = i
    BY <1>1, <2>3 DEF TombInv, Outcomes
  <2>5. TombInv'
    BY <1>1, <1>3, <1>4, <2>2, <2>4 DEF TombInv
  <2> QED BY <2>2, <2>3, <2>5 DEF TypeOK
<1>5. CASE n = MaxTombstones
  <2>1. /\ order' = SubSeq(longer, 2, n + 1)
        /\ terminal' = [i \in Ids |-> IF i \in ToSet(SubSeq(longer, 1, 1)) THEN "none"
                                      ELSE IF i = id THEN end ELSE terminal[i]]
    BY <1>1, <1>5 DEF RememberTerminal, longer
  <2>2. ToSet(SubSeq(longer, 1, 1)) = {longer[1]}
    BY <1>1 DEF ToSet
  <2>3. order' \in Seq(Ids) /\ Len(order') = n /\ \A i \in 1 .. n : order'[i] = longer[i + 1]
    BY <1>1, <2>1
  <2>4. \A i \in Ids : terminal'[i] # "none" <=> \E k \in 1 .. n : longer[k + 1] = i
    <3> TAKE i \in Ids
    <3>0. i = id \/ terminal[i] # "none" <=> \E k \in 1 .. n + 1 : longer[k] = i
      <4>1. terminal[i] # "none" <=> \E k \in 1 .. n : longer[k] = i
        BY <1>1 DEF TombInv
      <4>2. (\E k \in 1 .. n + 1 : longer[k] = i) <=> (\E k \in 1 .. n : longer[k] = i) \/ i = id
        BY <1>1
      <4> QED BY <4>1, <4>2
    <3>1. terminal'[i] # "none" <=> i # longer[1] /\ \E k \in 1 .. n + 1 : longer[k] = i
      BY <2>1, <2>2, <3>0 DEF Outcomes
    <3>2. i # longer[1] /\ (\E k \in 1 .. n + 1 : longer[k] = i)
            => \E k \in 1 .. n : longer[k + 1] = i
      <4>1. ASSUME i # longer[1], NEW k \in 1 .. n + 1, longer[k] = i
            PROVE  k - 1 \in 1 .. n /\ longer[(k - 1) + 1] = i
        BY <1>1, <4>1
      <4> QED BY <4>1
    <3>3. ASSUME NEW k \in 1 .. n, longer[k + 1] = i
          PROVE  i # longer[1] /\ \E m \in 1 .. n + 1 : longer[m] = i
      <4>1. k + 1 \in 1 .. n + 1 /\ 1 \in 1 .. n + 1 /\ k + 1 # 1
        BY <1>1
      <4> QED BY <1>3, <3>3, <4>1
    <3> QED BY <3>1, <3>2, <3>3
  <2>5. ASSUME NEW i \in 1 .. n, NEW j \in 1 .. n, order'[i] = order'[j] PROVE i = j
    <3>1. i + 1 \in 1 .. n + 1 /\ j + 1 \in 1 .. n + 1 /\ longer[i + 1] = longer[j + 1]
      BY <1>1, <2>3, <2>5
    <3>2. i + 1 = j + 1
      BY <1>3, <3>1
    <3> QED BY <1>1, <3>2
  <2>6. \A i \in Ids : terminal'[i] # "none" <=> \E k \in 1 .. n : order'[k] = i
    BY <2>3, <2>4
  <2>7. TombInv'
    BY <1>1, <1>5, <2>3, <2>5, <2>6 DEF TombInv
  <2> QED BY <2>1, <2>3, <2>7, <2>2 DEF TypeOK
<1> QED BY <1>1, <1>4, <1>5

\* An end that wins: what it changes of its own breakpoint and of the others.
Won(id, end) ==
  /\ pending' = pending \ {id}
  /\ order' \in Seq(Ids) /\ terminal' \in [Ids -> Outcomes \cup {"none"}] /\ TombInv'
  /\ outcome' \in [Ids -> Outcomes \cup {"none"}]
  /\ outcome'[id] = IF Receiving(id) THEN end ELSE "none"
  /\ terminal'[id] \in {end, "none"}
  /\ \A i \in Ids \ {id} : outcome'[i] = outcome[i] /\ terminal'[i] \in {terminal[i], "none"}

LEMMA FinishWins ==
  ASSUME Inv, NEW id \in pending, NEW end \in Outcomes, Finish(id, end)
  PROVE  Won(id, end)
<1>1. id \in Ids /\ outcome[id] = "none" /\ terminal[id] = "none"
  BY DEF Inv, TypeOK, Agreement
<1>2. RememberTerminal(id, end) /\ TypeOK /\ TombInv
  BY DEF Finish, Inv
<1>3. /\ outcome' \in [Ids -> Outcomes \cup {"none"}]
      /\ outcome'[id] = IF Receiving(id) THEN end ELSE "none"
      /\ \A i \in Ids \ {id} : outcome'[i] = outcome[i]
  BY <1>1, <1>2 DEF Finish, TypeOK
<1> QED BY <1>1, <1>2, <1>3, Remembered DEF Won, Finish

\* What an end that wins leaves to show, whoever brought it about: the connections are
\* where they were, or the one that ended has closed.
LEMMA WonKeeps ==
  ASSUME Inv, NEW id \in pending, NEW end \in Outcomes, Won(id, end),
         UNCHANGED <<stage, doomed>>,
         \A c \in Conns : pc'[c] = pc[c] \/ (IdOf(c) = id /\ pc[c] = "closing" /\ pc'[c] = "closed")
  PROVE  /\ FreshInv' /\ WaitInv' /\ PendingHasOwner'
         /\ \A i \in Ids :
              /\ i \in pending' => outcome'[i] = "none" /\ terminal'[i] = "none"
              /\ outcome'[i] # "none" => terminal'[i] \in {outcome'[i], "none"}
              /\ outcome[i] # "none" => outcome'[i] = outcome[i]
<1>1. id \in Ids /\ outcome[id] = "none" /\ \A c \in Conns : IdOf(c) \in Ids /\ <<c, "response">> \in Ids
  BY DEF Inv, TypeOK, Agreement, Ids, IdOf, Stages
<1>2. ASSUME NEW i \in Ids, Fresh(i) PROVE Fresh(i)'
  BY <1>2 DEF Fresh, Won
<1>3. \A c \in Conns : IdOf(c)' = IdOf(c)
  BY DEF IdOf
<1>4. FreshInv'
  BY <1>1, <1>2, <1>3 DEF Inv, FreshInv
<1>5. WaitInv'
  <2>1. ASSUME NEW c \in Conns, pc'[c] \in {"updating", "paused"}
        PROVE  IdOf(c) \in pending' \/ outcome'[IdOf(c)] # "none"
    <3>1. pc[c] \in {"updating", "paused"}
      BY <2>1
    <3>2. CASE IdOf(c) = id
      <4>1. Receiving(id)
        BY <3>1, <3>2 DEF Receiving, Owner, IdOf
      <4> QED BY <3>2, <4>1 DEF Won, Outcomes
    <3>3. CASE IdOf(c) # id
      BY <1>1, <3>1, <3>3 DEF Inv, WaitInv, Won
    <3> QED BY <3>2, <3>3
  <2> QED BY <1>3, <2>1 DEF WaitInv
<1>6. PendingHasOwner'
  <2>1. ASSUME NEW i \in pending'
        PROVE  \/ IdOf(Owner(i)) = i /\ pc'[Owner(i)] \in {"updating", "paused", "closing"}
               \/ Owner(i) \in doomed
    <3>1. i \in pending /\ i # id /\ i \in Ids
      BY <2>1 DEF Won, Inv, TypeOK
    <3>2. Owner(i) \in Conns
      BY <3>1 DEF Ids, Owner
    <3> QED BY <3>1, <3>2 DEF Inv, PendingHasOwner
  <2>2. \A i \in pending' : Owner(i) \in Conns
    BY DEF Won, Inv, TypeOK, Ids, Owner
  <2> QED BY <1>3, <2>1, <2>2 DEF PendingHasOwner
<1>7. \A i \in Ids :
        /\ i \in pending' => outcome'[i] = "none" /\ terminal'[i] = "none"
        /\ outcome'[i] # "none" => terminal'[i] \in {outcome'[i], "none"}
        /\ outcome[i] # "none" => outcome'[i] = outcome[i]
  BY <1>1 DEF Won, Inv, Agreement
<1> QED BY <1>4, <1>5, <1>6, <1>7

-------------------------------------------------------------------------------
(***************************************************************************)
(* The three steps that end a breakpoint.                                  *)
(***************************************************************************)
LEMMA CloseStep ==
  ASSUME Inv, NEW c \in Conns, Close(c)
  PROVE  Inv'
<1>1. /\ UNCHANGED <<of, stage, doomed, asked, told>>
      /\ UNCHANGED <<proxy, current, phase, failed, op, swept, todo>>
      /\ pc' = [pc EXCEPT ![c] = "closed"] /\ why' = [why EXCEPT ![c] = "none"]
      /\ pc[c] = "closing"
  BY DEF Close, Go, users, lifecycle
<1>2. CASE IdOf(c) \in pending
  <2> DEFINE id == IdOf(c)
  <2>1. Won(id, "ClientDisconnected")
    BY <1>2, FinishWins DEF Close, Terminate, Outcomes
  <2>2. \A d \in Conns :
          pc'[d] = pc[d] \/ (IdOf(d) = id /\ pc[d] = "closing" /\ pc'[d] = "closed")
    BY <1>1 DEF Inv, TypeOK
  <2> HIDE DEF id
  <2>3. TypeOK' /\ TombInv'
    BY <1>1, <2>1 DEF Inv, TypeOK, Won, ConnPcs, Reasons
  <2>4. /\ FreshInv' /\ WaitInv' /\ PendingHasOwner'
        /\ \A i \in Ids :
             /\ i \in pending' => outcome'[i] = "none" /\ terminal'[i] = "none"
             /\ outcome'[i] # "none" => terminal'[i] \in {outcome'[i], "none"}
             /\ outcome[i] # "none" => outcome'[i] = outcome[i]
    BY <1>1, <1>2, <2>1, <2>2, WonKeeps DEF Outcomes, id
  <2>5. ToldInv' /\ Agreement' /\ OneDecision'
    BY <1>1, <2>4 DEF Inv, TypeOK, ToldInv, Agreement, OneDecision
  <2> QED BY <2>3, <2>4, <2>5 DEF Inv
<1>3. CASE IdOf(c) \notin pending
  <2>1. UNCHANGED <<pending, terminal, order, outcome>>
    BY <1>3 DEF Close, Terminate, coordinator
  <2>2. TypeOK' /\ TombInv' /\ FreshInv' /\ WaitInv' /\ ToldInv'
    BY <1>1, <2>1
    DEF Inv, TypeOK, TombInv, FreshInv, Fresh, WaitInv, ToldInv, IdOf, ConnPcs, Reasons
  <2>3. Agreement' /\ OneDecision'
    BY <1>1, <2>1 DEF Inv, Agreement, OneDecision
  <2>4. PendingHasOwner'
    BY <1>1, <1>3, <2>1 DEF Inv, TypeOK, PendingHasOwner, IdOf, Owner
  <2> QED BY <2>2, <2>3, <2>4 DEF Inv
<1> QED BY <1>2, <1>3

LEMMA ResolveStep ==
  ASSUME Inv, NEW u \in Users, Resolve(u)
  PROVE  Inv'
<1> DEFINE id == asked[u]
<1>1. /\ UNCHANGED <<of, pc, stage, why, doomed, asked>>
      /\ UNCHANGED <<proxy, current, phase, failed, op, swept, todo>>
      /\ id # None /\ told[u] = "none"
  BY DEF Resolve, conns, lifecycle
<1>2. ASSUME id \in pending,
             NEW end \in Outcomes, Finish(id, end),
             \/ told' = [told EXCEPT ![u] = "error"]
             \/ Receiving(id) /\ end = "Resolved" /\ told' = [told EXCEPT ![u] = "ok"]
      PROVE  Inv'
  <2>1. Won(id, end) /\ id \in Ids
    BY <1>2, FinishWins DEF Inv, TypeOK
  <2>2. TypeOK' /\ TombInv'
    BY <1>1, <1>2, <2>1 DEF Inv, TypeOK, Won
  <2>3. /\ FreshInv' /\ WaitInv' /\ PendingHasOwner'
        /\ \A i \in Ids :
             /\ i \in pending' => outcome'[i] = "none" /\ terminal'[i] = "none"
             /\ outcome'[i] # "none" => terminal'[i] \in {outcome'[i], "none"}
             /\ outcome[i] # "none" => outcome'[i] = outcome[i]
    BY <1>1, <1>2, <2>1, WonKeeps
  <2>4. ToldInv'
    BY <1>1, <1>2 DEF Inv, TypeOK, ToldInv
  <2>5. ASSUME NEW v \in Users, told'[v] = "ok"
        PROVE  \/ v = u /\ outcome'[id] = "Resolved"
               \/ v # u /\ told[v] = "ok" /\ asked[v] # id /\ outcome'[asked[v]] = "Resolved"
    <3>1. CASE v = u
      BY <1>2, <2>1, <2>5, <3>1 DEF Inv, TypeOK, Won
    <3>2. CASE v # u
      <4>1. told[v] = "ok" /\ asked[v] \in Ids /\ outcome[asked[v]] = "Resolved"
        BY <1>2, <2>5, <3>2 DEF Inv, TypeOK, ToldInv, Agreement
      <4>2. asked[v] # id
        BY <1>2, <2>1, <4>1 DEF Inv, Agreement
      <4> QED BY <2>3, <3>2, <4>1, <4>2
    <3> QED BY <3>1, <3>2
  <2>6. Agreement'
    BY <1>1, <2>3, <2>5 DEF Agreement
  <2>7. OneDecision'
    BY <1>1, <2>5 DEF Inv, OneDecision
  <2> QED BY <2>2, <2>3, <2>4, <2>6, <2>7 DEF Inv
<1>3. CASE UNCHANGED coordinator /\ told' = [told EXCEPT ![u] = "error"]
  <2>1. TypeOK' /\ TombInv' /\ FreshInv' /\ WaitInv' /\ PendingHasOwner'
    BY <1>1, <1>3
    DEF Inv, TypeOK, TombInv, FreshInv, Fresh, WaitInv, PendingHasOwner, IdOf, Owner, coordinator
  <2>2. ToldInv' /\ Agreement' /\ OneDecision'
    BY <1>1, <1>3 DEF Inv, TypeOK, ToldInv, Agreement, OneDecision, coordinator
  <2> QED BY <2>1, <2>2 DEF Inv
<1> QED
  BY <1>2, <1>3 DEF Resolve, Outcomes

LEMMA SweepOneStep ==
  ASSUME Inv, SweepOne
  PROVE  Inv'
<1>1. /\ UNCHANGED <<of, pc, stage, why, doomed, asked, told>>
      /\ UNCHANGED <<proxy, current, phase, failed, op, swept>>
      /\ todo' \subseteq todo
  BY DEF SweepOne, conns, users
<1>2. PICK id \in todo : Terminate(id, "ProxyStopped")
  BY DEF SweepOne
<1>3. CASE id \in pending
  <2>1. Won(id, "ProxyStopped")
    BY <1>2, <1>3, FinishWins DEF Terminate, Outcomes
  <2>2. TypeOK' /\ TombInv'
    BY <1>1, <2>1 DEF Inv, TypeOK, Won
  <2>3. /\ FreshInv' /\ WaitInv' /\ PendingHasOwner'
        /\ \A i \in Ids :
             /\ i \in pending' => outcome'[i] = "none" /\ terminal'[i] = "none"
             /\ outcome'[i] # "none" => terminal'[i] \in {outcome'[i], "none"}
             /\ outcome[i] # "none" => outcome'[i] = outcome[i]
    BY <1>1, <1>3, <2>1, WonKeeps DEF Outcomes
  <2>4. ToldInv' /\ Agreement' /\ OneDecision'
    BY <1>1, <2>3 DEF Inv, TypeOK, ToldInv, Agreement, OneDecision
  <2> QED BY <2>2, <2>3, <2>4 DEF Inv
<1>4. CASE id \notin pending
  BY <1>1, <1>2, <1>4
  DEF Terminate, Inv, TypeOK, TombInv, FreshInv, Fresh, WaitInv, ToldInv, Agreement, PendingHasOwner,
      OneDecision, IdOf, Owner, coordinator
<1> QED BY <1>3, <1>4
-------------------------------------------------------------------------------
(***************************************************************************)
(* The steps that leave the ends alone.                                    *)
(***************************************************************************)
\* A connection moves: what it has to bring along.
LEMMA ConnectionMoves ==
  ASSUME Inv, NEW c \in Conns, NEW to \in ConnPcs, NEW s \in Stages,
         UNCHANGED coordinator, UNCHANGED users, UNCHANGED lifecycle, UNCHANGED doomed,
         of' \in [Conns -> Epochs \cup {None}],
         pc' = [pc EXCEPT ![c] = to], stage' = [stage EXCEPT ![c] = s],
         why' \in [Conns -> Reasons],
         to \in {"new", "open", "evaluating"} => Fresh(<<c, s>>),
         s = "request" => stage[c] = "request",
         to \in {"updating", "paused"} => s = stage[c] /\ pc[c] \in {"updating", "paused"},
         IdOf(c) \in pending => c \in doomed \/ (s = stage[c] /\ to \in {"updating", "paused", "closing"})
  PROVE  Inv'
<1>1. UNCHANGED <<pending, terminal, order, outcome, asked, told, doomed>>
  BY DEF coordinator, users
<1>2. TypeOK' /\ TombInv'
  BY <1>1 DEF Inv, TypeOK, TombInv, lifecycle
<1>3. \A d \in Conns :
        IF d = c THEN pc'[d] = to /\ stage'[d] = s ELSE pc'[d] = pc[d] /\ stage'[d] = stage[d]
  BY DEF Inv, TypeOK
<1>4. FreshInv' /\ WaitInv'
  BY <1>1, <1>3 DEF Inv, FreshInv, Fresh, WaitInv, IdOf
<1>5. ToldInv' /\ Agreement' /\ OneDecision'
  BY <1>1 DEF Inv, ToldInv, Agreement, OneDecision
<1>6. PendingHasOwner'
  <2>1. ASSUME NEW id \in pending
        PROVE  \/ <<Owner(id), stage'[Owner(id)]>> = id
                    /\ pc'[Owner(id)] \in {"updating", "paused", "closing"}
               \/ Owner(id) \in doomed
    <3>1. Owner(id) \in Conns
      BY DEF Inv, TypeOK, Ids, Owner
    <3>2. CASE Owner(id) \in doomed
      BY <3>2
    <3>3. CASE Owner(id) \notin doomed
      <4>1. <<Owner(id), stage[Owner(id)]>> = id /\ pc[Owner(id)] \in {"updating", "paused", "closing"}
        BY <3>3 DEF Inv, PendingHasOwner, IdOf
      <4> QED BY <1>3, <3>1, <3>3, <4>1 DEF IdOf
    <3> QED BY <3>2, <3>3
  <2> QED BY <1>1, <2>1 DEF PendingHasOwner, IdOf
<1> QED BY <1>2, <1>4, <1>5, <1>6 DEF Inv

\* The lifecycle and the users move; tasks may be marked for abortion.
LEMMA OthersMove ==
  ASSUME Inv, TypeOK', UNCHANGED coordinator, UNCHANGED <<pc, stage, told>>,
         doomed \subseteq doomed',
         \A u \in Users : told[u] = "ok" => asked'[u] = asked[u]
  PROVE  Inv'
<1>1. UNCHANGED <<pending, terminal, order, outcome>>
  BY DEF coordinator
<1>2. TombInv' /\ FreshInv' /\ WaitInv' /\ PendingHasOwner'
  BY <1>1 DEF Inv, TombInv, FreshInv, Fresh, WaitInv, PendingHasOwner, IdOf, Owner
<1>3. ToldInv' /\ Agreement' /\ OneDecision'
  BY <1>1 DEF Inv, ToldInv, Agreement, OneDecision
<1> QED BY <1>2, <1>3 DEF Inv

LEMMA RegisterStep ==
  ASSUME Inv, NEW c \in Conns, Register(c)
  PROVE  Inv'
<1>1. /\ UNCHANGED <<terminal, order, outcome, of, stage, why, doomed, users, lifecycle>>
      /\ pending' = pending \cup {IdOf(c)} /\ pc' = [pc EXCEPT ![c] = "updating"]
      /\ pc[c] = "evaluating"
  BY DEF Register, Go
<1>2. IdOf(c) \in Ids /\ Fresh(IdOf(c)) /\ \A d \in Conns : IdOf(d)' = IdOf(d)
  BY <1>1 DEF Inv, TypeOK, FreshInv, IdOf, Ids
<1>3. TypeOK' /\ TombInv'
  BY <1>1, <1>2 DEF Inv, TypeOK, TombInv, ConnPcs, users, lifecycle
<1>4. FreshInv' /\ WaitInv'
  <2>1. \A d \in Conns : d # c => pc'[d] = pc[d] /\ IdOf(d) # IdOf(c)
    BY <1>1 DEF Inv, TypeOK, IdOf
  <2>2. \A d \in Conns : stage[d] = "request" => <<d, "response">> # IdOf(c)
    BY DEF IdOf
  <2>3. pc'[c] = "updating"
    BY <1>1 DEF Inv, TypeOK
  <2> QED BY <1>1, <1>2, <2>1, <2>2, <2>3 DEF Inv, FreshInv, Fresh, WaitInv
<1>5. ToldInv' /\ OneDecision' /\ Agreement'
  BY <1>1, <1>2 DEF Inv, ToldInv, OneDecision, Agreement, Fresh, users
<1>6. PendingHasOwner'
  <2>1. ASSUME NEW id \in pending'
        PROVE  \/ IdOf(Owner(id)) = id /\ pc'[Owner(id)] \in {"updating", "paused", "closing"}
               \/ Owner(id) \in doomed
    <3>1. CASE id = IdOf(c)
      BY <1>1, <3>1 DEF Inv, TypeOK, Owner, IdOf
    <3>2. CASE id \in pending
      <4>1. Owner(id) \in Conns
        BY <3>2 DEF Inv, TypeOK, Ids, Owner
      <4> QED BY <1>1, <3>2, <4>1 DEF Inv, TypeOK, PendingHasOwner
    <3> QED BY <1>1, <2>1, <3>1, <3>2
  <2>2. \A id \in pending' : Owner(id) \in Conns
    BY <1>3 DEF TypeOK, Ids, Owner
  <2> QED BY <1>1, <1>2, <2>1, <2>2 DEF PendingHasOwner
<1> QED BY <1>3, <1>4, <1>5, <1>6 DEF Inv

LEMMA Ends ==
  ASSUME Inv, NEW c \in Conns, NEW r \in Reasons, EndsWith(c, r),
         UNCHANGED coordinator, UNCHANGED users, UNCHANGED lifecycle,
         UNCHANGED <<doomed, of, stage>>
  PROVE  Inv'
<1>1. /\ stage' = [stage EXCEPT ![c] = stage[c]] /\ stage[c] \in Stages
      /\ why' \in [Conns -> Reasons] /\ of' \in [Conns -> Epochs \cup {None}]
  BY DEF EndsWith, Inv, TypeOK
<1> QED BY <1>1, ConnectionMoves DEF EndsWith, Go, ConnPcs

LEMMA ConnectionSteps ==
  ASSUME Inv, NEW c \in Conns
  PROVE  /\ Accept(c) => Inv'
         /\ Evaluate(c) => Inv'
         /\ PassThrough(c) => Inv'
         /\ UpdateSession(c) => Inv'
         /\ Resume(c) => Inv'
         /\ Disconnect(c) => Inv'
         /\ SeeCancellation(c) => Inv'
         /\ Abort(c) => Inv'
<1>0. /\ TypeOK /\ pc[c] \in ConnPcs /\ stage[c] \in Stages /\ why[c] \in Reasons
      /\ stage = [stage EXCEPT ![c] = stage[c]] /\ IdOf(c) = <<c, stage[c]>>
      /\ current \in Epochs \cup {None}
  BY DEF Inv, TypeOK, IdOf
<1>1. /\ pc[c] \in {"new", "open", "evaluating"} => Fresh(<<c, stage[c]>>) /\ IdOf(c) \notin pending
      /\ stage[c] = "request" => Fresh(<<c, "response">>)
  BY <1>0 DEF Inv, FreshInv, Fresh
<1>2. IdOf(c) \in pending => outcome[IdOf(c)] = "none"
  BY DEF Inv, Agreement, TypeOK
<1>3. ASSUME Accept(c) PROVE Inv'
  <2>1. of' \in [Conns -> Epochs \cup {None}] /\ why' \in [Conns -> Reasons]
    BY <1>0, <1>3 DEF Accept, TypeOK
  <2> QED
    BY <1>0, <1>1, <1>3, <2>1, ConnectionMoves DEF Accept, Go, ConnPcs, Reasons
<1>4. ASSUME Evaluate(c) PROVE Inv'
  BY <1>0, <1>1, <1>4, ConnectionMoves DEF Evaluate, Go, ConnPcs, Reasons, TypeOK
<1>5. ASSUME PassThrough(c) PROVE Inv'
  <2>1. /\ UNCHANGED coordinator /\ UNCHANGED users /\ UNCHANGED lifecycle
        /\ UNCHANGED <<doomed, of>> /\ pc[c] = "evaluating"
    BY <1>5 DEF PassThrough
  <2>2. CASE stage[c] = "request" /\ stage' = [stage EXCEPT ![c] = "response"] /\ Go(c, "open")
             /\ UNCHANGED why
    BY <1>0, <1>1, <2>1, <2>2, ConnectionMoves DEF Go, ConnPcs, TypeOK, Stages
  <2>3. CASE (\E r \in {"done", "failed"} : EndsWith(c, r)) /\ UNCHANGED stage
    BY <2>1, <2>3, Ends DEF Reasons
  <2> QED BY <1>5, <2>2, <2>3 DEF PassThrough, Forward
<1>6. ASSUME UpdateSession(c) PROVE Inv'
  <2>1. /\ UNCHANGED coordinator /\ UNCHANGED users /\ UNCHANGED lifecycle
        /\ UNCHANGED <<doomed, of, stage>> /\ pc[c] = "updating"
    BY <1>6 DEF UpdateSession
  <2>2. CASE Go(c, "paused") /\ UNCHANGED why
    BY <1>0, <2>1, <2>2, ConnectionMoves DEF Go, ConnPcs, TypeOK
  <2>3. CASE EndsWith(c, "failed")
    BY <2>1, <2>3, Ends DEF Reasons
  <2> QED BY <1>6, <2>2, <2>3 DEF UpdateSession
<1>7. ASSUME Resume(c) PROVE Inv'
  <2>1. /\ UNCHANGED coordinator /\ UNCHANGED users /\ UNCHANGED lifecycle
        /\ UNCHANGED <<doomed, of>> /\ IdOf(c) \notin pending
    BY <1>2, <1>7 DEF Resume
  <2>2. CASE stage[c] = "request" /\ stage' = [stage EXCEPT ![c] = "response"] /\ Go(c, "open")
             /\ UNCHANGED why
    BY <1>0, <1>1, <2>1, <2>2, ConnectionMoves DEF Go, ConnPcs, TypeOK, Stages
  <2>3. CASE (\E r \in {"done", "failed", "gone", "stopped"} : EndsWith(c, r)) /\ UNCHANGED stage
    BY <2>1, <2>3, Ends DEF Reasons
  <2> QED BY <1>7, <2>2, <2>3 DEF Resume, Forward
<1>8. ASSUME Disconnect(c) PROVE Inv'
  BY <1>8, Ends DEF Disconnect, Reasons
<1>9. ASSUME SeeCancellation(c) PROVE Inv'
  BY <1>9, Ends DEF SeeCancellation, Reasons
<1>10. ASSUME Abort(c) PROVE Inv'
  BY <1>0, <1>10, ConnectionMoves DEF Abort, Go, ConnPcs, Reasons, TypeOK
<1> QED BY <1>3, <1>4, <1>5, <1>6, <1>7, <1>8, <1>9, <1>10

LEMMA OtherSteps ==
  ASSUME Inv
  PROVE  /\ \A u \in Users, id \in Ids : Ask(u, id) => Inv'
         /\ Start => Inv'
         /\ \A k \in FacadeOps : Begin(k) => Inv'
         /\ ListenerFails => Inv'
         /\ Collect => Inv'
         /\ Cancel => Inv'
         /\ MarkFaulted => Inv'
         /\ Joined => Inv'
         /\ JoinTimesOut => Inv'
         /\ SweepAgain => Inv'
         /\ FacadeReturns => Inv'
         /\ UNCHANGED vars => Inv'
<1>1. TypeOK /\ \A e : PendingOf(e) \subseteq Ids
  BY DEF Inv, TypeOK, PendingOf
<1>2. ASSUME NEW u \in Users, NEW id \in Ids, Ask(u, id) PROVE Inv'
  <2>1. told[u] # "ok"
    BY <1>2 DEF Ask, Inv, ToldInv
  <2>2. TypeOK'
    BY <1>1, <1>2 DEF Ask, TypeOK, coordinator, conns, lifecycle
  <2> QED BY <1>1, <1>2, <2>1, <2>2, OthersMove DEF Ask, TypeOK, conns
<1>3. ASSUME Start PROVE Inv'
  <2>1. TypeOK'
    BY <1>1, <1>3 DEF Start, Publish, TypeOK, Phases, coordinator, conns, users
  <2> QED BY <1>3, <2>1, OthersMove DEF Start, conns, users
<1>4. ASSUME NEW k \in FacadeOps, Begin(k) PROVE Inv'
  <2>1. TypeOK'
    BY <1>1, <1>4 DEF Begin, TypeOK, coordinator, conns, users
  <2> QED BY <1>4, <2>1, OthersMove DEF Begin, conns, users
<1>5. ASSUME ListenerFails PROVE Inv'
  <2>1. doomed \subseteq doomed' /\ doomed' \subseteq Conns
    BY <1>1, <1>5 DEF ListenerFails, ConnsOf, TypeOK
  <2>2. TypeOK'
    BY <1>1, <1>5, <2>1 DEF ListenerFails, TypeOK, coordinator, users
  <2> QED BY <1>5, <2>1, <2>2, OthersMove DEF ListenerFails, users
<1>6. ASSUME Collect PROVE Inv'
  <2>1. TypeOK'
    BY <1>1, <1>6 DEF Collect, TypeOK, Phases, coordinator, conns, users
  <2> QED BY <1>6, <2>1, OthersMove DEF Collect, conns, users
<1>7. ASSUME Cancel PROVE Inv'
  <2>1. TypeOK'
    BY <1>1, <1>7 DEF Cancel, TypeOK, Phases, coordinator, conns, users
  <2> QED BY <1>7, <2>1, OthersMove DEF Cancel, conns, users
<1>8. ASSUME MarkFaulted PROVE Inv'
  <2>1. TypeOK'
    BY <1>1, <1>8 DEF MarkFaulted, TypeOK, coordinator, conns, users
  <2> QED BY <1>8, <2>1, OthersMove DEF MarkFaulted, conns, users
<1>9. ASSUME Joined PROVE Inv'
  <2>1. TypeOK'
    BY <1>1, <1>9 DEF Joined, Publish, TypeOK, Phases, FacadeOps, coordinator, conns, users
  <2> QED BY <1>9, <2>1, OthersMove DEF Joined, conns, users
<1>10. ASSUME JoinTimesOut PROVE Inv'
  <2>1. doomed \subseteq doomed' /\ doomed' \subseteq Conns
    BY <1>1, <1>10 DEF JoinTimesOut, ConnsOf, TypeOK
  <2>2. TypeOK'
    BY <1>1, <1>10, <2>1 DEF JoinTimesOut, TypeOK, FacadeOps, coordinator, users
  <2> QED BY <1>10, <2>1, <2>2, OthersMove DEF JoinTimesOut, users
<1>11. ASSUME SweepAgain PROVE Inv'
  <2>1. TypeOK'
    BY <1>1, <1>11 DEF SweepAgain, TypeOK, FacadeOps, coordinator, conns, users
  <2> QED BY <1>11, <2>1, OthersMove DEF SweepAgain, conns, users
<1>12. ASSUME FacadeReturns PROVE Inv'
  <2>1. TypeOK'
    BY <1>1, <1>12 DEF FacadeReturns, TypeOK, FacadeOps, coordinator, conns, users
  <2> QED BY <1>12, <2>1, OthersMove DEF FacadeReturns, conns, users
<1>13. ASSUME UNCHANGED vars PROVE Inv'
  <2>1. TypeOK'
    BY <1>1, <1>13 DEF TypeOK, vars, coordinator, conns, users, lifecycle
  <2> QED BY <1>13, <2>1, OthersMove DEF vars, conns, users
<1> QED
  BY <1>2, <1>3, <1>4, <1>5, <1>6, <1>7, <1>8, <1>9, <1>10, <1>11, <1>12, <1>13

LEMMA InvStep == ASSUME Inv, [Next]_vars PROVE Inv'
<1>1. ASSUME NEW c \in Conns,
             Accept(c) \/ Evaluate(c) \/ Register(c) \/ Disconnect(c) \/ ConnStep(c)
      PROVE  Inv'
  BY <1>1, ConnectionSteps, RegisterStep, CloseStep DEF ConnStep
<1>2. ASSUME NEW u \in Users, (\E id \in Ids : Ask(u, id)) \/ Resolve(u) PROVE Inv'
  BY <1>2, OtherSteps, ResolveStep
<1>3. ASSUME LifecycleStep PROVE Inv'
  BY <1>3, OtherSteps, SweepOneStep DEF LifecycleStep
<1> QED BY <1>1, <1>2, <1>3, OtherSteps DEF Next, AllOver

LEMMA Invariant == Spec => []Inv
  BY InvInit, InvStep, PTL DEF Spec
-------------------------------------------------------------------------------
\* The coordinator, the connections and the users stay within their types.
THEOREM TypeCorrect == Spec => []TypeOK
<1>1. Inv => TypeOK
  BY DEF Inv
<1> QED BY <1>1, Invariant, PTL

\* A message that waits can still be woken: its entry is pending or its outcome is there
\* (RuntimePipelineAdapter::pause, BreakpointCoordinator::terminate).
THEOREM WakeupIsNeverLost == Spec => []NoLostWakeup
<1>1. Inv => NoLostWakeup
  BY DEF Inv, WaitInv, NoLostWakeup
<1> QED BY <1>1, Invariant, PTL

\* Of racing decisions one is told that it succeeded, the user, the connection and the
\* tombstone agree on the end, and the bounded memory of ends is in step with its order
\* (BreakpointCoordinator::resolve, remember_terminal).
THEOREM Agreed == Spec => []EveryoneAgrees
<1>1. ASSUME Inv PROVE TombstonesAgree
  <2> DEFINE n == Len(order)
  <2>1. n \in Nat /\ order \in [1 .. n -> Ids] /\ DOMAIN order = 1 .. n
    BY <1>1 DEF Inv, TypeOK
  <2>2. ToSet(order) = {order[i] : i \in 1 .. n}
    BY <2>1 DEF ToSet
  <2>3. Cardinality(ToSet(order)) = n
    <3>1. order \in Bijection(1 .. n, ToSet(order))
      BY <1>1, <2>1, <2>2 DEF Inv, TombInv, Bijection, Injection, Surjection, IsInjective
    <3>2. ExistsBijection(1 .. n, ToSet(order))
      BY <3>1 DEF ExistsBijection
    <3> QED BY <2>1, <3>2, FS_CountingElements
  <2> QED BY <1>1, <2>2, <2>3 DEF Inv, TombInv, TombstonesAgree
<1>2. Inv => EveryoneAgrees
  BY <1>1 DEF Inv, EveryoneAgrees
<1> QED BY <1>2, Invariant, PTL

================================================================================
