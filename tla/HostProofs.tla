------------------------------- MODULE HostProofs -------------------------------
(***************************************************************************)
(* What surrounds the proxy: the certificates, what is started with them,   *)
(* the page about the runtime, and a body on its way to a peer.             *)
(*                                                                         *)
(* First the store, for any number of instances of the program, any         *)
(* addresses and any number of commits and lost keys: the materials stay    *)
(* one set under one key, and no commit reverts another.  Then the checks   *)
(* of a save and of an import, and what they mean for every later start and *)
(* handshake, for any drafts, channels, certificates, addresses and ports,  *)
(* and chains of any length.  Then the status page, for any channels and    *)
(* finitely many connections.  Last the wire, for any message, schedule,    *)
(* rate and chunk size: what the peer has read, what an end says of it, and *)
(* how long it may take.                                                    *)
(***************************************************************************)
EXTENDS Certificates, Startup, Status, Wire, FiniteSetTheorems, SequenceTheorems, TLAPS

\* Compared with one another, not with what a command has read.
Fixed(p) == pc[p] \in {"seal", "add", "commit"}

\* The store: one revision and, as long as no key was lost, the key of the keychain.
StoreInv ==
  \A k \in KindSet : db.mats[k] # Null =>
    /\ db.mats[k].rev = db.rev
    /\ losses = 0 => keychain # Null /\ db.mats[k].key = keychain

\* The store has been like this: with the revision of today it is the store of today.
Past(store) == store.rev <= db.rev /\ (store.rev = db.rev => store = db)

PageInv == Past(Empty) /\ \A p \in Procs : Past(page[p])

\* What a user was shown when the command was given: still no root and no leaf there
\* if it initialises, and of the revision the materials are made from if it replaces.
ShownInv(p) ==
  /\ Past(job[p].seen)
  /\ job[p].kind = "generate" => CanInitialize(job[p].seen.mats)
  /\ Fixed(p) /\ job[p].kind \in {"reissue", "reset"} => job[p].seen.rev = job[p].rev

\* What a command is about to write was made from the materials of its revision.
JobInv(p) ==
  Fixed(p) =>
    /\ job[p].rev <= db.rev
    /\ job[p].rev = db.rev =>
         /\ \A k \in KindSet : db.mats[k] # Null => job[p].mats[k] # Null
         /\ \A k \in KindSet \ About(job[p].kind) : Kept(db.mats[k], job[p].mats[k])
         /\ job[p].kind = "generate" => CanInitialize(db.mats)
         /\ job[p].kind = "reset" => /\ job[p].mats["leaf"] # Null
                                     /\ job[p].mats["leaf"].sans = db.mats["leaf"].sans
    /\ pc[p] = "commit" /\ losses = 0 => keychain # Null /\ job[p].key = keychain

Inv == TypeOK /\ StoreInv /\ PageInv /\ \A p \in Procs : ShownInv(p) /\ JobInv(p)

-----------------------------------------------------------------------------
\* The absent value is neither a key nor a material.
LEMMA NullIsApart == Null \notin Keys /\ Null \notin Materials
<1>1. Keys \subseteq Procs \X Nat /\ Revisions \subseteq Nat
  BY BoundAssumption DEF Keys, Revisions
<1> QED BY <1>1, NullAssumption DEF Materials, Sans

LEMMA EmptyTyped == Empty \in Stores /\ CanInitialize(Empty.mats)
  BY BoundAssumption DEF Empty, Stores, NoMaterials, Revisions, CanInitialize, KindSet

LEMMA ContentTyped ==
  ASSUME NEW sans \in Sans, NEW born \in Revisions
  PROVE  /\ Content(sans, born) \in Materials /\ Content(sans, born) # Null
         /\ Content(sans, born).sans = sans
  BY NullIsApart, BoundAssumption DEF Content, Materials, Revisions

Jobs == [kind : Commands, sans : Sans, seen : Stores, rev : Revisions,
         mats : [KindSet -> Materials \cup {Null}], key : Keys \cup {Null}]

Accesses == {"idle", "load", "create", "seal", "add", "commit", "show"}

LEMMA NoJobTyped == NoJob \in Jobs /\ NoJob.seen = Empty /\ NoJob.kind = "generate"
  BY EmptyTyped, BoundAssumption DEF NoJob, Jobs, NoMaterials, Commands, Issuing, Sans, Revisions

\* A command gives up or is done.
LEMMA FinishKeeps ==
  ASSUME TypeOK, NEW p \in Procs, NEW to \in Accesses, Goto(p, to), job' = [job EXCEPT ![p] = NoJob]
  PROVE  /\ pc' \in [Procs -> Accesses]
         /\ job' \in [Procs -> Jobs]
         /\ pc'[p] = to /\ job'[p] = NoJob
         /\ \A q \in Procs \ {p} : pc'[q] = pc[q] /\ job'[q] = job[q]
  BY NoJobTyped DEF Goto, TypeOK, Jobs, Accesses

LEMMA InvInit == ASSUME Init PROVE Inv
<1>1. TypeOK
  BY EmptyTyped, NoJobTyped, BoundAssumption DEF Init, TypeOK, Jobs
<1>2. StoreInv /\ \A p \in Procs : JobInv(p)
  BY DEF Init, StoreInv, JobInv, Empty, NoMaterials, Fixed
<1>3. PageInv /\ \A p \in Procs : ShownInv(p)
  BY NoJobTyped, EmptyTyped DEF Init, PageInv, ShownInv, Past, Empty, Fixed
<1> QED BY <1>1, <1>2, <1>3 DEF Inv

\* The materials after a command: nothing that was there is gone, the rest is kept, and
\* a reset keeps the addresses.
LEMMA ChangedKeeps ==
  ASSUME NEW j \in Jobs, NEW snap \in Stores, j.kind = "reset" => snap.mats["leaf"] # Null
  PROVE  /\ Changed(j, snap) \in [KindSet -> Materials \cup {Null}]
         /\ \A k \in KindSet : snap.mats[k] # Null => Changed(j, snap)[k] # Null
         /\ \A k \in KindSet \ About(j.kind) : Changed(j, snap)[k] = snap.mats[k]
         /\ j.kind = "reset" => /\ Changed(j, snap)["leaf"] # Null
                                /\ Changed(j, snap)["leaf"].sans = snap.mats["leaf"].sans
<1> DEFINE mats == snap.mats
<1>0. /\ j.sans \in Sans /\ snap.rev \in Revisions /\ j.kind \in Commands /\ {} \in Sans
      /\ 0 \in Revisions /\ mats \in [KindSet -> Materials \cup {Null}]
      /\ "root" \in KindSet /\ "leaf" \in KindSet /\ "pkcs12" \in KindSet /\ "upstream" \in KindSet
  BY BoundAssumption DEF Jobs, Stores, Sans, KindSet, Revisions
<1>1. CASE j.kind \in {"generate", "reissue"}
  <2>1. Changed(j, snap) = [mats EXCEPT !["root"] = Content({}, 0),
                                        !["leaf"] = Content(j.sans, snap.rev)]
    BY <1>1 DEF Changed
  <2> QED BY <1>0, <1>1, <2>1, ContentTyped DEF About
<1>2. CASE j.kind = "reset"
  <2>1. mats["leaf"] \in Materials /\ mats["leaf"].sans \in Sans
    BY <1>0, <1>2 DEF Materials
  <2>2. Changed(j, snap) = [mats EXCEPT !["root"] = Content({}, 0),
                                        !["leaf"] = Content(mats["leaf"].sans, snap.rev)]
    BY <1>2 DEF Changed
  <2> QED BY <1>0, <1>2, <2>1, <2>2, ContentTyped DEF About
<1>3. CASE j.kind \in {"pkcs12", "upstream"}
  <2>1. Changed(j, snap) = [mats EXCEPT ![j.kind] = Content({}, snap.rev)]
    BY <1>3 DEF Changed
  <2> QED BY <1>0, <1>3, <2>1, ContentTyped DEF About
<1> QED BY <1>0, <1>1, <1>2, <1>3 DEF Commands, Issuing

-----------------------------------------------------------------------------
\* The store stays as it is, and the keychain unless it is given its first key: who is
\* not touched keeps what it knows.
LEMMA StoreStays ==
  ASSUME Inv, UNCHANGED <<db, losses>>,
         keychain' = keychain \/ keychain = Null
  PROVE  /\ StoreInv' /\ Past(Empty)'
         /\ \A q \in Procs : page'[q] \in {page[q], db} => Past(page[q])'
         /\ \A q \in Procs : pc'[q] = pc[q] /\ job'[q] = job[q] => ShownInv(q)' /\ JobInv(q)'
<1>1. ASSUME NEW k \in KindSet, db.mats[k] # Null, losses = 0
      PROVE  keychain' = keychain
  BY <1>1 DEF Inv, StoreInv
<1>2. StoreInv'
  BY <1>1 DEF Inv, StoreInv
<1>3. db.rev <= db.rev
  BY BoundAssumption DEF Inv, TypeOK, Stores, Revisions
<1>4. Past(Empty)' /\ \A q \in Procs : page'[q] \in {page[q], db} => Past(page[q])'
  BY <1>3 DEF Inv, PageInv, Past, Empty
<1>5. ASSUME NEW q \in Procs, pc'[q] = pc[q], job'[q] = job[q] PROVE JobInv(q)'
  BY <1>5 DEF Inv, JobInv, Fixed
<1>6. ASSUME NEW q \in Procs, pc'[q] = pc[q], job'[q] = job[q] PROVE ShownInv(q)'
  BY <1>6 DEF Inv, ShownInv, Past, Fixed
<1> QED BY <1>2, <1>4, <1>5, <1>6

\* A step of one command that leaves the store alone.
LEMMA CommandStep ==
  ASSUME Inv, NEW p \in Procs, UNCHANGED <<db, losses, page>>,
         keychain' = keychain \/ (keychain = Null /\ keychain' \in Keys),
         NEW to \in Accesses, Goto(p, to),
         NEW j \in Jobs, job' = [job EXCEPT ![p] = j],
         ShownInv(p)', JobInv(p)'
  PROVE  Inv'
<1>1. TypeOK'
  BY DEF Inv, TypeOK, Goto, Jobs, Accesses
<1>2. ASSUME NEW q \in Procs PROVE ShownInv(q)' /\ JobInv(q)'
  <2>1. CASE q = p
    BY <2>1
  <2>2. CASE q # p
    BY <2>2, StoreStays DEF Inv, TypeOK, Goto
  <2> QED BY <2>1, <2>2
<1>3. PageInv'
  BY StoreStays DEF PageInv
<1> QED BY <1>1, <1>2, <1>3, StoreStays DEF Inv

LEMMA IdleStep ==
  ASSUME Inv, NEW p \in Procs, Finish(p), UNCHANGED <<db, losses, page>>,
         keychain' = keychain \/ (keychain = Null /\ keychain' \in Keys)
  PROVE  Inv'
<1>1. pc'[p] = "idle" /\ job'[p] = NoJob /\ "idle" \in Accesses
  BY FinishKeeps DEF Inv, Finish, Accesses
<1>2. ShownInv(p)' /\ JobInv(p)'
  BY <1>1, NoJobTyped, EmptyTyped, StoreStays DEF ShownInv, JobInv, Fixed, Past, CanInitialize, Empty
<1> QED BY <1>1, <1>2, CommandStep, NoJobTyped DEF Finish

\* A command that opens envelopes without a key goes on to create one.
LEMMA CreateNextStep ==
  ASSUME Inv, NEW p \in Procs, Goto(p, "create"), UNCHANGED <<db, keychain, losses, page, job>>
  PROVE  Inv'
<1>1. job[p] \in Jobs /\ job' = [job EXCEPT ![p] = job[p]] /\ "create" \in Accesses
  BY DEF Inv, TypeOK, Jobs, Accesses
<1>2. pc'[p] = "create" /\ job'[p] = job[p]
  BY DEF Goto, Inv, TypeOK
<1>3. ShownInv(p)' /\ JobInv(p)'
  BY <1>2 DEF Inv, ShownInv, JobInv, Fixed, Past
<1> QED BY <1>1, <1>3, CommandStep

LEMMA BeginStep ==
  ASSUME Inv, NEW p \in Procs, NEW kind \in Commands, NEW sans \in Sans, Begin(p, kind, sans)
  PROVE  Inv'
<1> DEFINE j == [NoJob EXCEPT !.kind = kind, !.sans = sans, !.seen = page[p]]
<1>1. j \in Jobs /\ j.seen = page[p] /\ j.kind = kind
  BY NoJobTyped DEF Jobs, Inv, TypeOK
<1>2. /\ job' = [job EXCEPT ![p] = j] /\ Goto(p, "load") /\ UNCHANGED <<db, keychain, losses, page>>
      /\ kind = "generate" => CanInitialize(page[p].mats)
  BY DEF Begin
<1> HIDE DEF j
<1>3. pc'[p] = "load" /\ job'[p] = j /\ "load" \in Accesses
  BY <1>2 DEF Goto, Inv, TypeOK, Accesses
<1>4. Past(page[p])'
  BY <1>2, StoreStays
<1>5. ShownInv(p)' /\ JobInv(p)'
  BY <1>1, <1>2, <1>3, <1>4 DEF ShownInv, JobInv, Fixed, Past
<1> QED BY <1>1, <1>2, <1>3, <1>5, CommandStep

\* A page that is read again shows the store.
LEMMA RefreshStep ==
  ASSUME Inv, NEW p \in Procs, Refresh(p)
  PROVE  Inv'
<1>1. CASE page' = [page EXCEPT ![p] = db] /\ UNCHANGED <<db, keychain, losses, pc, job>>
  <2>1. TypeOK'
    BY <1>1 DEF Inv, TypeOK
  <2>2. \A q \in Procs : page'[q] \in {page[q], db}
    BY <1>1 DEF Inv, TypeOK
  <2> QED BY <1>1, <2>1, <2>2, StoreStays DEF Inv, PageInv
<1>2. CASE Goto(p, "create") /\ UNCHANGED <<db, keychain, losses, page, job>>
  BY <1>2, CreateNextStep
<1> QED BY <1>1, <1>2 DEF Refresh

LEMMA LoadStep ==
  ASSUME Inv, NEW p \in Procs, Load(p)
  PROVE  Inv'
<1>0. /\ UNCHANGED <<db, keychain, losses, page>> /\ pc[p] = "load"
      /\ job[p] \in Jobs /\ db \in Stores /\ db.rev \in Revisions /\ db.rev \in Nat
  BY BoundAssumption DEF Load, Inv, TypeOK, Jobs, Stores, Revisions
<1>1. CASE Goto(p, "create") /\ UNCHANGED job
  BY <1>0, <1>1, CreateNextStep
<1>2. CASE /\ Readable(db.mats) /\ Accepts(job[p], db) /\ Goto(p, "seal")
           /\ job' = [job EXCEPT ![p].rev = db.rev, ![p].mats = Changed(job[p], db)]
  <2> DEFINE n == Changed(job[p], db)
             j == [job[p] EXCEPT !.rev = db.rev, !.mats = n]
  <2>1. /\ n \in [KindSet -> Materials \cup {Null}]
        /\ \A k \in KindSet : db.mats[k] # Null => n[k] # Null
        /\ \A k \in KindSet \ About(job[p].kind) : n[k] = db.mats[k]
        /\ job[p].kind = "reset" => n["leaf"] # Null /\ n["leaf"].sans = db.mats["leaf"].sans
    BY <1>0, <1>2, ChangedKeeps DEF Accepts
  <2>2. /\ job[p].kind = "generate" => CanInitialize(db.mats)
        /\ job[p].kind \in {"reissue", "reset"} => job[p].seen.rev = db.rev
    BY <1>2 DEF Accepts
  <2>3. job' = [job EXCEPT ![p] = [job[p] EXCEPT !.rev = db.rev, !.mats = Changed(job[p], db)]]
    BY <1>2
  <2> HIDE DEF n
  <2>4. /\ j \in Jobs /\ j.rev = db.rev /\ j.mats = n /\ j.kind = job[p].kind
        /\ j.seen = job[p].seen
    BY <1>0, <2>1 DEF Jobs
  <2>5. job' = [job EXCEPT ![p] = j]
    BY <2>3 DEF n
  <2> HIDE DEF j
  <2>6. job'[p] = j /\ pc'[p] = "seal" /\ "seal" \in Accesses
    BY <1>2, <2>5 DEF Inv, TypeOK, Goto, Accesses
  <2>7. JobInv(p)'
    BY <1>0, <2>1, <2>2, <2>4, <2>6 DEF JobInv, Fixed, Kept, CanInitialize
  <2>8. ShownInv(p)'
    BY <1>0, <2>2, <2>4, <2>6 DEF Inv, ShownInv, Fixed, Past, CanInitialize
  <2> QED BY <1>0, <1>2, <2>4, <2>5, <2>6, <2>7, <2>8, CommandStep
<1>3. CASE Finish(p)
  BY <1>0, <1>3, IdleStep
<1> QED BY <1>1, <1>2, <1>3 DEF Load

LEMMA CandidateTyped == ASSUME TypeOK, NEW p \in Procs PROVE Candidate(p) \in Keys /\ Candidate(p) # Null
  BY NullIsApart DEF Candidate, Keys, TypeOK

LEMMA SealStep ==
  ASSUME Inv, NEW p \in Procs, Seal(p)
  PROVE  Inv'
<1>0. /\ UNCHANGED <<db, keychain, losses, page>> /\ pc[p] = "seal" /\ job[p] \in Jobs
      /\ job = [job EXCEPT ![p] = job[p]] /\ keychain \in Keys \cup {Null}
      /\ "add" \in Accesses /\ "commit" \in Accesses
  BY DEF Seal, Inv, TypeOK, Jobs, Accesses
<1>1. CASE keychain = Null
  <2>1. Goto(p, "add") /\ UNCHANGED job
    BY <1>1 DEF Seal
  <2>2. ShownInv(p)' /\ JobInv(p)'
    BY <1>0, <2>1 DEF Goto, Inv, TypeOK, ShownInv, JobInv, Fixed, Past
  <2> QED BY <1>0, <2>1, <2>2, CommandStep
<1>2. CASE keychain # Null
  <2> DEFINE j == [job[p] EXCEPT !.key = keychain]
  <2>1. j \in Jobs /\ j.key = keychain /\ j.rev = job[p].rev /\ j.mats = job[p].mats
        /\ j.kind = job[p].kind /\ j.seen = job[p].seen
    BY <1>0 DEF Jobs
  <2>2. job' = [job EXCEPT ![p] = j] /\ Goto(p, "commit")
    BY <1>2 DEF Seal
  <2> HIDE DEF j
  <2>3. job'[p] = j /\ pc'[p] = "commit"
    BY <2>2 DEF Inv, TypeOK, Goto
  <2>4. JobInv(p)'
    BY <1>0, <1>2, <2>1, <2>3 DEF Inv, JobInv, Fixed
  <2>5. ShownInv(p)'
    BY <1>0, <2>1, <2>3 DEF Inv, ShownInv, Fixed, Past
  <2> QED BY <1>0, <2>1, <2>2, <2>4, <2>5, CommandStep
<1> QED BY <1>1, <1>2

LEMMA AddKeyStep ==
  ASSUME Inv, NEW p \in Procs, AddKey(p)
  PROVE  Inv'
<1> DEFINE j == [job[p] EXCEPT !.key = Winner(p)]
<1>0. /\ UNCHANGED <<db, losses, page>> /\ pc[p] = "add" /\ job[p] \in Jobs
      /\ keychain \in Keys \cup {Null} /\ Goto(p, "commit") /\ TypeOK
      /\ job' = [job EXCEPT ![p] = j] /\ "commit" \in Accesses
  BY DEF AddKey, Inv, TypeOK, Jobs, Accesses
<1>1. /\ keychain' = Winner(p) /\ Winner(p) \in Keys /\ keychain' # Null
      /\ keychain' = keychain \/ keychain = Null
  BY <1>0, CandidateTyped, NullIsApart DEF AddKey, Winner
<1>2. j \in Jobs /\ j.key = Winner(p) /\ j.rev = job[p].rev /\ j.mats = job[p].mats
      /\ j.kind = job[p].kind /\ j.seen = job[p].seen
  BY <1>0, <1>1 DEF Jobs
<1> HIDE DEF j
<1>3. job'[p] = j /\ pc'[p] = "commit"
  BY <1>0 DEF TypeOK, Goto
<1>4. JobInv(p)'
  BY <1>0, <1>1, <1>2, <1>3 DEF Inv, JobInv, Fixed
<1>5. ShownInv(p)'
  BY <1>0, <1>2, <1>3 DEF Inv, ShownInv, Fixed, Past
<1> QED BY <1>0, <1>1, <1>2, <1>4, <1>5, CommandStep

LEMMA CreateStep ==
  ASSUME Inv, NEW p \in Procs, CreateForRead(p)
  PROVE  Inv'
  BY CandidateTyped, IdleStep DEF CreateForRead, Inv

LEMMA ShowStep ==
  ASSUME Inv, NEW p \in Procs, Show(p)
  PROVE  Inv'
  BY CreateNextStep, IdleStep DEF Show

\* What ReplacesWhatWasShown asks of the commit of one command.
Replaces(p) ==
  /\ \A k \in {"root", "leaf"} : Kept(job[p].seen.mats[k], db.mats[k])
  /\ job[p].kind = "reset" => db'.mats["leaf"].sans = job[p].seen.mats["leaf"].sans

\* The one step that writes the store.
LEMMA CommitStep ==
  ASSUME Inv, NEW p \in Procs, Commit(p)
  PROVE  /\ Inv'
         /\ \A k \in KindSet \ About(job[p].kind) : Kept(db.mats[k], db'.mats[k])
         /\ job[p].kind \in Issuing => Replaces(p)
<1> DEFINE j == job[p]
           m == Stamped(j)
<1>0. /\ TypeOK /\ StoreInv /\ ShownInv(p) /\ JobInv(p) /\ Fixed(p) /\ pc[p] = "commit"
      /\ j \in Jobs /\ j.rev = db.rev /\ db.rev < MaxRevision /\ db.rev \in Nat
      /\ db.rev + 1 \in Revisions /\ "show" \in Accesses
      /\ db' = [rev |-> db.rev + 1, mats |-> m]
      /\ Goto(p, "show") /\ job' = [job EXCEPT ![p] = NoJob]
      /\ UNCHANGED <<keychain, losses, page>>
  BY BoundAssumption DEF Commit, Swaps, Inv, TypeOK, Stores, Jobs, Revisions, Fixed, Accesses
<1>1. ASSUME NEW k \in KindSet
      PROVE  /\ m[k] \in Materials \cup {Null}
             /\ m[k] # Null => m[k].rev = db.rev + 1 /\ m[k].key = j.key
             /\ k \notin About(j.kind) => Kept(db.mats[k], m[k])
             /\ j.mats[k] # Null => m[k].sans = j.mats[k].sans
  <2>1. m[k] = IF j.mats[k] = Null THEN db.mats[k]
               ELSE [j.mats[k] EXCEPT !.key = j.key, !.rev = db.rev + 1]
    BY DEF Stamped
  <2>2. CASE j.mats[k] = Null
    <3>1. db.mats[k] = Null
      BY <1>0, <2>2 DEF JobInv
    <3> QED BY <2>1, <2>2, <3>1 DEF Kept
  <2>3. CASE j.mats[k] # Null
    <3>1. j.mats[k] \in Materials /\ j.key \in Keys \cup {Null}
      BY <1>0, <2>3 DEF Jobs
    <3>2. /\ m[k] \in Materials /\ m[k].rev = db.rev + 1 /\ m[k].key = j.key
          /\ m[k].sans = j.mats[k].sans /\ m[k].born = j.mats[k].born
      BY <1>0, <2>1, <2>3, <3>1 DEF Materials, Revisions
    <3>3. k \notin About(j.kind) => Kept(db.mats[k], j.mats[k])
      BY <1>0 DEF JobInv
    <3> QED BY <2>3, <3>2, <3>3, NullIsApart DEF Kept
  <2> QED BY <2>2, <2>3
<1>2. m \in [KindSet -> Materials \cup {Null}]
  BY <1>1 DEF Stamped
<1>3. db'.rev = db.rev + 1 /\ db'.mats = m
  BY <1>0
<1> HIDE DEF m
<1>4. TypeOK'
  BY <1>0, <1>2, FinishKeeps DEF TypeOK, Stores, Jobs, Accesses
<1>5. StoreInv'
  BY <1>0, <1>1, <1>3 DEF StoreInv, JobInv
<1>6. ASSUME NEW s \in Stores, Past(s) PROVE s.rev <= db'.rev /\ s.rev # db'.rev
  BY <1>0, <1>3, <1>6, BoundAssumption DEF Past, Stores, Revisions
<1>7. PageInv' /\ \A q \in Procs : Past(job[q].seen)'
  <2>1. \A q \in Procs : page[q] \in Stores /\ job[q].seen \in Stores /\ Past(job[q].seen)
    BY <1>0 DEF TypeOK, Inv, ShownInv
  <2>2. \A q \in Procs : job'[q].seen = job[q].seen \/ job'[q].seen = Empty
    BY <1>0, FinishKeeps, NoJobTyped
  <2>3. Past(Empty) /\ \A q \in Procs : Past(page[q])
    BY DEF Inv, PageInv
  <2>4. (Empty.rev <= db'.rev /\ Empty.rev # db'.rev)
        /\ \A q \in Procs : /\ page[q].rev <= db'.rev /\ page[q].rev # db'.rev
                            /\ job[q].seen.rev <= db'.rev /\ job[q].seen.rev # db'.rev
    BY <1>6, <2>1, <2>3, EmptyTyped
  <2> QED BY <1>0, <2>2, <2>4 DEF PageInv, Past, Empty
<1>8. ASSUME NEW q \in Procs PROVE ShownInv(q)' /\ JobInv(q)'
  <2>1. CASE q = p
    BY <1>0, <1>7, <2>1, FinishKeeps, NoJobTyped, EmptyTyped DEF ShownInv, JobInv, Fixed, CanInitialize
  <2>2. CASE q # p
    <3>0. job[q].rev \in Nat
      BY <1>0, BoundAssumption DEF TypeOK, Revisions
    <3>1. pc'[q] = pc[q] /\ job'[q] = job[q] /\ job[q].rev \in Nat
      BY <1>0, <2>2, <3>0, FinishKeeps
    <3>2. ShownInv(q) /\ JobInv(q) /\ (Fixed(q) => job[q].rev <= db.rev)
      BY DEF Inv, JobInv
    <3>3. JobInv(q)'
      BY <1>0, <1>3, <3>1, <3>2 DEF JobInv, Fixed
    <3>4. ShownInv(q)'
      BY <1>7, <3>1, <3>2 DEF ShownInv, Fixed, CanInitialize
    <3> QED BY <3>3, <3>4
  <2> QED BY <2>1, <2>2
<1>9. j.kind \in Issuing => Replaces(p)
  <2>1. CASE j.kind = "generate"
    BY <1>0, <2>1 DEF ShownInv, JobInv, CanInitialize, Replaces, Kept
  <2>2. CASE j.kind \in {"reissue", "reset"}
    <3>1. j.seen = db
      BY <1>0, <2>2 DEF ShownInv, Past
    <3>2. j.kind = "reset" => m["leaf"].sans = db.mats["leaf"].sans
      BY <1>0, <1>1 DEF JobInv, KindSet
    <3> QED BY <1>3, <3>1, <3>2 DEF Replaces, Kept
  <2> QED BY <2>1, <2>2 DEF Issuing
<1> QED BY <1>1, <1>3, <1>4, <1>5, <1>7, <1>8, <1>9 DEF Inv

LEMMA LoseKeyStep == ASSUME Inv, LoseKey PROVE Inv'
<1>1. losses' = losses + 1 /\ losses \in 0 .. MaxLosses /\ losses' \in 0 .. MaxLosses /\ losses' # 0
  BY BoundAssumption DEF LoseKey, Inv, TypeOK
<1>2. TypeOK'
  BY <1>1 DEF LoseKey, Inv, TypeOK
<1>3. StoreInv' /\ PageInv'
  BY <1>1 DEF LoseKey, Inv, StoreInv, PageInv, Past, Empty
<1>4. \A p \in Procs : ShownInv(p)' /\ JobInv(p)'
  BY <1>1 DEF LoseKey, Inv, ShownInv, JobInv, Fixed, Past
<1> QED BY <1>2, <1>3, <1>4 DEF Inv

\* What the two action properties ask of a step.
SoundStep ==
  \A p \in Procs : Commits(p) =>
    /\ \A k \in KindSet \ About(job[p].kind) : Kept(db.mats[k], db'.mats[k])
    /\ job[p].kind \in Issuing => Replaces(p)

\* Only a commit goes from there to the overview that ends a command.
LEMMA OnlyCommits ==
  ASSUME TypeOK, NEW p \in Procs, NEW to \in Accesses \ {"show"}, Goto(p, to) \/ UNCHANGED pc
  PROVE  SoundStep
  BY DEF Goto, TypeOK, Commits, SoundStep

LEMMA InvStep ==
  ASSUME Inv, [Next]_vars
  PROVE  Inv' /\ SoundStep
<1>0. TypeOK /\ {"idle", "load", "create", "seal", "add", "commit"} \subseteq Accesses \ {"show"}
  BY DEF Inv, Accesses
<1>1. ASSUME NEW p \in Procs, Commit(p) PROVE Inv' /\ SoundStep
  <2>1. \A q \in Procs \ {p} : pc'[q] = pc[q]
    BY <1>0, <1>1 DEF Commit, Goto, TypeOK
  <2> QED BY <1>1, <2>1, CommitStep DEF SoundStep, Commits
<1>2. ASSUME NEW p \in Procs, NEW kind \in Commands, NEW sans \in Sans, Begin(p, kind, sans)
      PROVE  Inv' /\ SoundStep
  BY <1>0, <1>2, BeginStep, OnlyCommits DEF Begin
<1>3. ASSUME NEW p \in Procs, Refresh(p) PROVE Inv' /\ SoundStep
  BY <1>0, <1>3, RefreshStep, OnlyCommits DEF Refresh
<1>4. ASSUME NEW p \in Procs, Load(p) PROVE Inv' /\ SoundStep
  BY <1>0, <1>4, LoadStep, OnlyCommits DEF Load, Finish
<1>5. ASSUME NEW p \in Procs, CreateForRead(p) PROVE Inv' /\ SoundStep
  BY <1>0, <1>5, CreateStep, OnlyCommits DEF CreateForRead, Finish
<1>6. ASSUME NEW p \in Procs, Seal(p) PROVE Inv' /\ SoundStep
  BY <1>0, <1>6, SealStep, OnlyCommits DEF Seal
<1>7. ASSUME NEW p \in Procs, AddKey(p) PROVE Inv' /\ SoundStep
  BY <1>0, <1>7, AddKeyStep, OnlyCommits DEF AddKey
<1>8. ASSUME NEW p \in Procs, Show(p) PROVE Inv' /\ SoundStep
  BY <1>0, <1>8, ShowStep, OnlyCommits DEF Show, Finish
<1>9. ASSUME NEW p \in Procs, Fails(p) PROVE Inv' /\ SoundStep
  BY <1>0, <1>9, IdleStep, OnlyCommits DEF Fails, Finish
<1>10. ASSUME LoseKey PROVE Inv' /\ SoundStep
  BY <1>0, <1>10, LoseKeyStep DEF LoseKey, SoundStep, Commits
<1>11. ASSUME UNCHANGED vars PROVE Inv' /\ SoundStep
  <2>1. /\ UNCHANGED <<db, keychain, losses, page, pc, job>> /\ \A p \in Procs : ~Commits(p)
    BY <1>11 DEF vars, Commits
  <2>2. TypeOK' /\ StoreInv' /\ PageInv' /\ \A p \in Procs : ShownInv(p)' /\ JobInv(p)'
    BY <2>1, StoreStays DEF Inv, TypeOK, PageInv
  <2> QED BY <2>1, <2>2 DEF Inv, SoundStep
<1> QED BY <1>1, <1>2, <1>3, <1>4, <1>5, <1>6, <1>7, <1>8, <1>9, <1>10, <1>11 DEF Next

LEMMA Invariant == Spec => []Inv
  BY InvInit, InvStep, PTL DEF Spec
-----------------------------------------------------------------------------
\* The certificate store is one set, whoever writes at the same time: all materials carry
\* the revision of the collection and, while the keychain keeps its key, open with it
\* (certificates.rs, keychain.rs).
THEOREM MaterialsAreOneSet == Spec => []OneSet
<1>1. Inv => OneSet
  BY DEF Inv, StoreInv, OneSet, OneKey, OneRevision, Readable, Present
<1> QED BY <1>1, Invariant, PTL

\* A commit changes the kinds its command is about and brings back nothing that another
\* process has replaced (compare_and_swap_certificate_materials).
THEOREM CommitsRevertNothing == Spec => NothingReverted
<1>1. ASSUME Inv, [Next]_vars
      PROVE  [\A p \in Procs : Commits(p) =>
                \A k \in KindSet \ About(job[p].kind) : Kept(db.mats[k], db'.mats[k])]_vars
  BY <1>1, InvStep DEF SoundStep
<1> QED BY <1>1, Invariant, PTL DEF Spec, NothingReverted

\* Whoever generates, reissues or resets replaces the root and leaf that the page showed
\* at the click, for any number of instances with pages of any age: the command carries
\* the revision of the page through its reads, a key that is made on the way and the
\* compare-and-swap (verify_revision, generate_ca, reset_ca).
THEOREM ReplacesOnlyTheShown == Spec => ReplacesWhatWasShown
<1>1. ASSUME Inv, [Next]_vars
      PROVE  [\A p \in Procs : Commits(p) /\ job[p].kind \in Issuing =>
                /\ \A k \in {"root", "leaf"} : Kept(job[p].seen.mats[k], db.mats[k])
                /\ job[p].kind = "reset" =>
                     db'.mats["leaf"].sans = job[p].seen.mats["leaf"].sans]_vars
  BY <1>1, InvStep DEF SoundStep, Replaces
<1> QED BY <1>1, Invariant, PTL DEF Spec, ReplacesWhatWasShown


-------------------------------------------------------------------------------
(***************************************************************************)
(* What an import accepts, a start loads and a handshake admits (Trust).   *)
(***************************************************************************)
(* A chain that validates ends in a certificate the listeners take as their      *)
(* anchor: a start never refuses the identity an import has accepted because of  *)
(* its root.                                                                     *)
THEOREM AcceptedIsAnchored ==
  ASSUME NEW cert, NEW key, NEW C, NEW chain \in Seq(C), ValidIdentity(cert, key, chain)
  PROVE  ValidAnchor(Anchor(cert, chain))
<1>1. chain # <<>> /\ Len(chain) \in 1 .. Len(chain)
  BY DEF ValidIdentity, ValidChain
<1>2. ValidCa(chain[Len(chain)]) \/ Legacy(chain[Len(chain)])
  BY <1>1 DEF ValidIdentity, ValidChain
<1> QED BY <1>1, <1>2 DEF Anchor, ValidAnchor

(* Of an accepted chain only the last certificate can be of the old kind: every  *)
(* other one is a CA that states it signs certificates.                          *)
LEMMA InnerAreCas ==
  ASSUME NEW cert, NEW C, NEW chain \in Seq(C), ValidChain(cert, chain),
         NEW i \in 1 .. Len(chain) - 1
  PROVE  ValidCa(chain[i])
<1>1. i \in 1 .. Len(chain) /\ i # Len(chain)
  OBVIOUS
<1> QED BY <1>1 DEF ValidChain

(* The app that holds the imported identity gets through the handshake: its own  *)
(* chain, without the anchor, is the path WebPKI looks for, its fingerprint is   *)
(* the pinned one.  So a proxy that starts does not lock its own client out.     *)
THEOREM AcceptedIsAdmitted ==
  ASSUME NEW cert, NEW key, NEW C, NEW chain \in Seq(C), ValidIdentity(cert, key, chain)
  PROVE  Admitted(Anchor(cert, chain), cert.id, cert, chain, FALSE)
<1> DEFINE n == Len(chain) - 1
           path == [i \in 1 .. n |-> chain[i]]
<1>1. chain # <<>> /\ Len(chain) \in Nat /\ n \in 0 .. Len(chain) /\ Len(chain) = n + 1
  BY DEF ValidIdentity, ValidChain
<1>2. /\ cert.valid /\ ~ IsCa(cert)
      /\ cert.extended = Unstated \/ "client" \in cert.extended
  BY DEF ValidIdentity, ValidChain, EndEntity
<1>3. path \in [1 .. n -> {chain[i] : i \in 1 .. Len(chain)}]
  BY <1>1
<1>4. ASSUME NEW i \in 1 .. n
      PROVE  Signs(path[i], Below(cert, path, i)) /\ path[i].valid /\ IsCa(path[i])
  <2>1. i \in 1 .. Len(chain) /\ i \in 1 .. Len(chain) - 1
    BY <1>1
  <2>2. ValidCa(chain[i])
    BY <2>1, InnerAreCas DEF ValidIdentity
  <2>3. Below(cert, path, i) = Below(cert, chain, i)
    BY <1>1 DEF Below
  <2>4. Signs(chain[i], Below(cert, chain, i))
    BY <2>1 DEF ValidIdentity, ValidChain
  <2> QED BY <2>2, <2>3, <2>4 DEF ValidCa
<1>5. Signs(Anchor(cert, chain), IF n = 0 THEN cert ELSE path[n])
  <2>1. Len(chain) \in 1 .. Len(chain)
    BY <1>1
  <2>2. Signs(chain[Len(chain)], Below(cert, chain, Len(chain)))
    BY <2>1 DEF ValidIdentity, ValidChain
  <2>3. Below(cert, chain, Len(chain)) = IF n = 0 THEN cert ELSE path[n]
    BY <1>1 DEF Below
  <2> QED BY <1>1, <2>2, <2>3 DEF Anchor
<1>6. Verified(Anchor(cert, chain), cert, chain)
  BY <1>1, <1>2, <1>3, <1>4, <1>5 DEF Verified
<1> QED BY <1>6 DEF Admitted
-------------------------------------------------------------------------------
(***************************************************************************)
(* Saved settings and the start that loads them.                           *)
(***************************************************************************)
CONSTANT Certs     (* the certificates the identities' chains are made of     *)

Fields == {"bind", "channels", "timeout", "body", "sessions", "memory", "sans"}

(* The only thing assumed of the inputs: a draft has the fields of a draft, and  *)
(* a chain is a sequence.                                                        *)
WellFormed ==
  /\ Null \notin Files
  /\ \A i \in Files : i.chain \in Seq(Certs)
  /\ \A d \in Forms \cup {Default} : DOMAIN d = Fields

Sound(i) == i \in Files /\ ValidIdentity(i.leaf, i.key, i.chain)

(* What a save leaves behind does not depend on the certificates of the moment,  *)
(* but for the leaf it was checked against; identities were checked when they    *)
(* were imported, and the running proxy has such an identity.                    *)
SavedInv ==
  /\ DOMAIN stored = Fields
  /\ stored # Default => LocallyValid(stored) /\ DomainValid(stored) /\ CatalogValid(stored)
  /\ stored # Default /\ checked # Null => stored.sans \subseteq checked /\ identity # Null

IdentityInv ==
  /\ identity # Null => Sound(identity)
  /\ serving # Null => Sound(serving.identity)

-----------------------------------------------------------------------------
\* normalize_settings changes values and no fields.
LEMMA NormalKeepsFields == ASSUME NEW d PROVE DOMAIN Normal(d) = DOMAIN d
  BY DEF Normal

\* load_stored changes nothing but missing SANs.
LEMMA LoadedKeeps ==
  ASSUME DOMAIN stored = Fields
  PROVE  /\ Loaded.bind = stored.bind /\ Loaded.channels = stored.channels
         /\ Loaded.timeout = stored.timeout /\ Loaded.body = stored.body
         /\ stored.sans # {} => Loaded = stored
  BY DEF Loaded, Fields

\* A URL that can be saved is one the runtime can parse.
LEMMA ValidUrlIsEndpoint == ASSUME NEW u, ValidUrl(u) PROVE Endpoint(u)
  BY DEF ValidUrl, Endpoint

\* A start succeeds only with an identity.
LEMMA StartNeedsIdentity == ASSUME NEW s, StartCode(s) = "ok" PROVE identity # Null
  BY DEF StartCode

-----------------------------------------------------------------------------
LEMMA SavedInit == ASSUME WellFormed, StartupInit PROVE SavedInv /\ IdentityInv
  BY DEF WellFormed, StartupInit, SavedInv, IdentityInv

LEMMA IdentityStep ==
  ASSUME WellFormed, IdentityInv, [StartupNext]_startupVars
  PROVE  IdentityInv'
<1>1. ASSUME NEW i \in Files, Import(i) PROVE IdentityInv'
  BY <1>1 DEF Import, IdentityInv, Sound
<1>2. ASSUME Start PROVE IdentityInv'
  <2>1. CASE StartCode(Loaded) = "ok"
    <3>1. identity # Null
      BY <2>1, StartNeedsIdentity
    <3>2. serving'.identity = identity /\ identity' = identity
      BY <1>2, <2>1 DEF Start
    <3> QED BY <3>1, <3>2 DEF IdentityInv, Sound
  <2>2. CASE StartCode(Loaded) # "ok"
    BY <1>2, <2>2 DEF Start, IdentityInv, Sound
  <2> QED BY <2>1, <2>2
<1>3. ASSUME UNCHANGED <<identity, serving>> \/ Stop PROVE IdentityInv'
  BY <1>3 DEF Stop, IdentityInv, Sound
<1> QED
  BY <1>1, <1>2, <1>3 DEF StartupNext, startupVars, Save, Issue, Roam, Occupy

\* What a draft passes at a save, it passes for good.
LEMMA AcceptedMeans ==
  ASSUME NEW d, Accepted(d)
  PROVE  /\ LocallyValid(d) /\ DomainValid(d) /\ CatalogValid(d)
         /\ leaf # Null => d.sans \subseteq leaf /\ identity # Null
  BY DEF Accepted, CertificatesFit, Covers

LEMMA SavedStep ==
  ASSUME WellFormed, SavedInv, [StartupNext]_startupVars
  PROVE  SavedInv'
<1>1. ASSUME NEW d \in Forms, Save(d) PROVE SavedInv'
  <2>1. CASE Accepted(Normal(d))
    <3>1. stored' = Normal(d) /\ checked' = leaf /\ identity' = identity
      BY <1>1, <2>1 DEF Save
    <3>2. DOMAIN stored' = Fields
      BY <3>1, NormalKeepsFields DEF WellFormed
    <3>3. LocallyValid(stored)' /\ DomainValid(stored)' /\ CatalogValid(stored)'
      BY <2>1, <3>1, AcceptedMeans
    <3> QED BY <2>1, <3>1, <3>2, <3>3, AcceptedMeans DEF SavedInv
  <2>2. CASE ~ Accepted(Normal(d))
    BY <1>1, <2>2 DEF Save, SavedInv
  <2> QED BY <2>1, <2>2
<1>2. ASSUME NEW i \in Files, Import(i) PROVE SavedInv'
  BY <1>2 DEF Import, WellFormed, SavedInv
<1>3. ASSUME UNCHANGED <<stored, checked, identity>> PROVE SavedInv'
  BY <1>3 DEF SavedInv
<1> QED
  BY <1>1, <1>2, <1>3 DEF StartupNext, startupVars, Issue, Start, Stop, Roam, Occupy

-----------------------------------------------------------------------------
\* In a state that satisfies the invariants a start answers what SavedStarts says.
LEMMA SavedMeans ==
  ASSUME WellFormed, SavedInv, IdentityInv
  PROVE  SavedStarts
<1> SUFFICES ASSUME stored # Default
             PROVE  LET code == StartCode(Loaded)
                    IN  /\ code # "PERSISTENCE_CORRUPT"
                        /\ code = "CONFIG_INVALID" => \E c \in Enabled(stored) : ~ Resolves(c.url)
                        /\ code \in {"CERTIFICATE_NOT_READY", "CERTIFICATE_INVALID"} =>
                             checked = Null \/ checked # leaf \/ stored.sans = {}
  BY DEF SavedStarts
<1> DEFINE code == StartCode(Loaded)
<1>1. LocallyValid(stored) /\ DomainValid(stored) /\ CatalogValid(stored)
  BY DEF SavedInv
<1>2. /\ Loaded.bind = stored.bind /\ Loaded.channels = stored.channels
      /\ Loaded.timeout = stored.timeout /\ Loaded.body = stored.body
      /\ stored.sans # {} => Loaded = stored
  BY LoadedKeeps DEF SavedInv
<1>3. CatalogValid(Loaded)
  BY <1>1, <1>2 DEF CatalogValid, ChannelsOf
<1>4. Enabled(Loaded) = Enabled(stored)
  BY <1>2 DEF Enabled, ChannelsOf
<1>5. ConfigValid(Loaded)
  BY <1>1, <1>2, <1>4 DEF ConfigValid, DomainValid, DistinctIds, DistinctPorts
<1>6. \A c \in Enabled(Loaded) : Endpoint(c.url)
  BY <1>1, <1>4, ValidUrlIsEndpoint DEF DomainValid
<1>7. code # "PERSISTENCE_CORRUPT"
  BY <1>3 DEF StartCode
<1>8. code = "CONFIG_INVALID" => \E c \in Enabled(stored) : ~ Resolves(c.url)
  BY <1>4, <1>5, <1>6 DEF StartCode
<1>9. ASSUME code \in {"CERTIFICATE_NOT_READY", "CERTIFICATE_INVALID"},
             checked # Null, checked = leaf, stored.sans # {}
      PROVE  FALSE
  <2>1. leaf # Null /\ identity # Null /\ Loaded.sans \subseteq leaf
    BY <1>2, <1>9 DEF SavedInv
  <2>2. ~ MaterialsInvalid
    <3>1. Sound(identity) /\ identity.chain \in Seq(Certs)
      BY <2>1 DEF IdentityInv, Sound, WellFormed
    <3>2. ValidAnchor(Anchor(identity.leaf, identity.chain))
      BY <3>1, AcceptedIsAnchored DEF Sound
    <3> QED BY <3>1, <3>2 DEF Sound, MaterialsInvalid
  <2> QED BY <1>9, <2>1, <2>2 DEF StartCode
<1> QED BY <1>7, <1>8, <1>9

(* Settings that were accepted start the proxy, whatever was imported, reissued  *)
(* or occupied in between: the checks of facade, domain and adapter imply those  *)
(* of the runtime, up to the certificates the save was not checked against and   *)
(* names DNS does not know.                                                      *)
THEOREM SavedIsStartable == ASSUME WellFormed PROVE StartupSpec => []SavedStarts
<1>1. StartupInit => SavedInv /\ IdentityInv
  BY SavedInit
<1>2. SavedInv /\ IdentityInv /\ [StartupNext]_startupVars => SavedInv' /\ IdentityInv'
  BY SavedStep, IdentityStep
<1>3. SavedInv /\ IdentityInv => SavedStarts
  BY SavedMeans
<1> QED BY <1>1, <1>2, <1>3, PTL DEF StartupSpec

\* The identity of the running proxy is one its own handshake admits.
LEMMA SoundIsAdmitted ==
  ASSUME WellFormed, NEW own, Sound(own)
  PROVE  Admitted(Anchor(own.leaf, own.chain), own.leaf.id, own.leaf, own.chain, FALSE)
<1>1. own.chain \in Seq(Certs) /\ ValidIdentity(own.leaf, own.key, own.chain)
  BY DEF WellFormed, Sound
<1> QED BY <1>1, AcceptedIsAdmitted

(* A running proxy never locks its own app out, and lets nobody else in.         *)
THEOREM RunningAdmitsItsApp == ASSUME WellFormed PROVE StartupSpec => []OwnIdentityAdmitted
<1>1. StartupInit => IdentityInv
  BY SavedInit
<1>2. IdentityInv /\ [StartupNext]_startupVars => IdentityInv'
  BY IdentityStep
<1>3. IdentityInv => OwnIdentityAdmitted
  BY SoundIsAdmitted DEF IdentityInv, OwnIdentityAdmitted, Admitted
<1> QED BY <1>1, <1>2, <1>3, PTL DEF StartupSpec

-----------------------------------------------------------------------------
(* The status page. *)

States == {"Stopped", "Starting", "Running", "Stopping", "Faulted"}
Counts == [clients : Nat, answered : BOOLEAN, failed : BOOLEAN]
Metrics == [epoch : Nat, of : [Channels -> Counts]]
Connections == [on : Channels, at : Stages]

StatusTypes ==
  /\ state \in States /\ epoch \in Nat /\ current \in Nat
  /\ started \in SUBSET Channels /\ failing \in BOOLEAN /\ settings \in SUBSET Channels
  /\ metrics \in Metrics
  /\ conns \in [Conns -> Connections \cup {Null}]
  /\ last \in [Channels -> {"none", "response", "failure"}]
  /\ asked \in [state : States, epoch : Nat] \cup {Null}

\* Epochs: what is shown, counted or asked about is of the last runtime or of an earlier one.
EpochsInv ==
  /\ epoch <= current /\ metrics.epoch <= current
  /\ state = "Running" => epoch = current /\ current # 0
  /\ asked # Null =>
       /\ asked.epoch <= current
       /\ state = "Running" /\ asked.epoch = current => asked.state = "Running"

\* Nobody is connected between two runtimes.
IdleStates == state \in {"Stopped", "Starting"} => \A c \in Conns : conns[c] = Null

\* The counters of the last runtime, and none before its first connection was opened.
CountersInv ==
  /\ metrics.epoch # current =>
       /\ \A c \in Conns : conns[c] # Null => conns[c].at = "handshake"
       /\ \A ch \in Channels : last[ch] = "none"
  /\ metrics.epoch = current =>
       \A ch \in Channels :
         /\ metrics.of[ch].failed <=> last[ch] = "failure"
         /\ metrics.of[ch].answered /\ ~ metrics.of[ch].failed => last[ch] = "response"
         /\ state = "Running" /\ ~ failing =>
              metrics.of[ch].clients = Cardinality(OpenOn(ch))

StatusInv == StatusTypes /\ EpochsInv /\ IdleStates /\ CountersInv

-----------------------------------------------------------------------------
\* What a step of the runtime does to the counters: nothing.
LEMMA OpenFinite ==
  ASSUME StatusAssumption, NEW ch
  PROVE  IsFiniteSet(OpenOn(ch)) /\ Cardinality(OpenOn(ch)) \in Nat
<1>1. OpenOn(ch) \subseteq Conns BY DEF OpenOn
<1> QED BY <1>1, FS_Subset, FS_CardinalityType DEF StatusAssumption

LEMMA StatusInitInv == ASSUME StatusAssumption, StatusInit PROVE StatusInv
<1>1. StatusTypes
  BY DEF StatusInit, StatusTypes, States, Counts, Metrics, Connections, Nothing, NoMetrics
<1>2. EpochsInv /\ IdleStates
  BY DEF StatusInit, EpochsInv, IdleStates, Nothing
<1>3. CountersInv
  BY DEF StatusInit, CountersInv, Nothing, NoMetrics
<1> QED BY <1>1, <1>2, <1>3 DEF StatusInv

\* What connection_opened, response and connection_closed do to the counters.
LEMMA OpenedIs ==
  ASSUME NEW m \in Metrics, NEW ch \in Channels
  PROVE  LET g == [m EXCEPT !.of[ch].clients = @ + 1]
         IN  /\ g \in Metrics /\ g.epoch = m.epoch
             /\ g.of[ch] = [m.of[ch] EXCEPT !.clients = m.of[ch].clients + 1]
             /\ \A d \in Channels \ {ch} : g.of[d] = m.of[d]
BY DEF Metrics, Counts

LEMMA ResponseIs ==
  ASSUME NEW m \in Metrics, NEW ch \in Channels
  PROVE  LET g == [m EXCEPT !.of[ch].answered = TRUE, !.of[ch].failed = FALSE]
         IN  /\ g \in Metrics /\ g.epoch = m.epoch
             /\ g.of[ch] = [clients |-> m.of[ch].clients, answered |-> TRUE, failed |-> FALSE]
             /\ \A d \in Channels \ {ch} : g.of[d] = m.of[d]
<1> DEFINE k == [m EXCEPT !.of[ch].answered = TRUE]
           g == [k EXCEPT !.of[ch].failed = FALSE]
<1>1. /\ k \in Metrics /\ k.epoch = m.epoch
      /\ k.of[ch] = [clients |-> m.of[ch].clients, answered |-> TRUE, failed |-> m.of[ch].failed]
      /\ \A d \in Channels \ {ch} : k.of[d] = m.of[d]
  BY DEF Metrics, Counts
<1> HIDE DEF k
<1>2. /\ g \in Metrics /\ g.epoch = k.epoch
      /\ g.of[ch] = [clients |-> k.of[ch].clients, answered |-> k.of[ch].answered, failed |-> FALSE]
      /\ \A d \in Channels \ {ch} : g.of[d] = k.of[d]
  BY <1>1 DEF Metrics, Counts
<1>3. g = [m EXCEPT !.of[ch].answered = TRUE, !.of[ch].failed = FALSE]
  BY DEF k
<1>4. k.of[ch].clients = m.of[ch].clients /\ k.of[ch].answered = TRUE
  BY <1>1
<1> HIDE DEF g
<1> QED BY <1>1, <1>2, <1>3, <1>4

LEMMA ClosedIs ==
  ASSUME NEW m \in Metrics, NEW ch \in Channels, NEW b \in BOOLEAN
  PROVE  LET g == [m EXCEPT !.of[ch].clients = IF @ = 0 THEN 0 ELSE @ - 1,
                            !.of[ch].failed = @ \/ b]
         IN  /\ g \in Metrics /\ g.epoch = m.epoch
             /\ g.of[ch].clients = IF m.of[ch].clients = 0 THEN 0 ELSE m.of[ch].clients - 1
             /\ g.of[ch].answered = m.of[ch].answered
             /\ g.of[ch].failed = (m.of[ch].failed \/ b)
             /\ \A d \in Channels \ {ch} : g.of[d] = m.of[d]
<1> DEFINE k == [m EXCEPT !.of[ch].clients = IF @ = 0 THEN 0 ELSE @ - 1]
           v == k.of[ch].failed \/ b
           g == [k EXCEPT !.of[ch].failed = v]
<1>1. /\ k \in Metrics /\ k.epoch = m.epoch
      /\ k.of[ch].clients = IF m.of[ch].clients = 0 THEN 0 ELSE m.of[ch].clients - 1
      /\ k.of[ch].answered = m.of[ch].answered /\ k.of[ch].failed = m.of[ch].failed
      /\ \A d \in Channels \ {ch} : k.of[d] = m.of[d]
  BY DEF Metrics, Counts
<1>2. v \in BOOLEAN /\ v = (m.of[ch].failed \/ b)
  BY <1>1
<1>3. g = [m EXCEPT !.of[ch].clients = IF @ = 0 THEN 0 ELSE @ - 1,
                    !.of[ch].failed = @ \/ b]
  OBVIOUS
<1> HIDE DEF k, v
<1>4. /\ g \in Metrics /\ g.epoch = k.epoch
      /\ g.of[ch].clients = k.of[ch].clients
      /\ g.of[ch].answered = k.of[ch].answered
      /\ g.of[ch].failed = v
      /\ \A d \in Channels \ {ch} : g.of[d] = k.of[d]
  BY <1>1, <1>2 DEF Metrics, Counts
<1> HIDE DEF g
<1> QED BY <1>1, <1>2, <1>3, <1>4

LEMMA StatusTypesStep ==
  ASSUME StatusAssumption, StatusInv, [StatusNext]_statusVars
  PROVE  StatusTypes'
<1> USE DEF StatusTypes
<1>0. StatusTypes BY DEF StatusInv
<1>1. ASSUME NEW e \in SUBSET Channels \ {{}}, Launch(e) PROVE StatusTypes'
  BY <1>0, <1>1 DEF Launch, States
<1>2. CASE StartFails BY <1>0, <1>2 DEF StartFails, States
<1>3. CASE Publish BY <1>0, <1>3 DEF Publish, States
<1>4. CASE Adopt BY <1>0, <1>4 DEF Adopt
<1>5. CASE Watchdog BY <1>0, <1>5 DEF Watchdog, States
<1>6. CASE Halt BY <1>0, <1>6 DEF Halt, States
<1>7. CASE Stopped BY <1>0, <1>7 DEF Stopped, States
<1>8. ASSUME NEW ch \in Channels, ListenerFails(ch) PROVE StatusTypes'
  BY <1>0, <1>8 DEF ListenerFails
<1>9. ASSUME NEW ch \in Channels, NEW c \in Conns, Accept(c, ch) PROVE StatusTypes'
  BY <1>0, <1>9 DEF Accept, Connections, Stages
<1>10. ASSUME NEW c \in Conns, Open(c) PROVE StatusTypes'
  <2>1. conns[c] \in Connections BY <1>0, <1>10 DEF Open, At
  <2>2. OfEpoch(current) \in Metrics
    BY <1>0 DEF OfEpoch, Nothing, NoMetrics, Counts, Metrics
  <2>3. metrics' \in Metrics
    BY <1>10, <2>1, <2>2 DEF Open, Connections, Counts, Metrics
  <2>4. conns' \in [Conns -> Connections \cup {Null}]
    BY <1>0, <1>10, <2>1 DEF Open, Connections, Stages
  <2> QED BY <1>0, <1>10, <2>3, <2>4 DEF Open
<1>11. ASSUME NEW c \in Conns, Send(c) PROVE StatusTypes'
  <2>1. conns[c] \in Connections BY <1>0, <1>11 DEF Send, At
  <2> QED BY <1>0, <1>11, <2>1 DEF Send, Connections, Stages
<1>12. ASSUME NEW c \in Conns, Response(c) PROVE StatusTypes'
  <2>1. conns[c] \in Connections BY <1>0, <1>12 DEF Response, At
  <2>2. metrics' \in Metrics
    BY <1>0, <1>12, <2>1, ResponseIs DEF Response, Connections
  <2>3. conns' \in [Conns -> Connections \cup {Null}]
    BY <1>0, <1>12, <2>1 DEF Response, Connections, Stages
  <2> QED BY <1>0, <1>12, <2>2, <2>3 DEF Response
<1>13. ASSUME NEW c \in Conns, Abort(c) PROVE StatusTypes' BY <1>0, <1>13 DEF Abort
<1>14. ASSUME NEW c \in Conns, NEW b \in BOOLEAN, ConnectionClosed(c, b) PROVE StatusTypes'
  <2>1. conns[c] \in Connections BY <1>0, <1>14 DEF ConnectionClosed
  <2>2. conns[c].on \in Channels
    BY <2>1 DEF Connections
  <2>3. metrics' \in Metrics
    <3> DEFINE ch == conns[c].on
               g == [metrics EXCEPT !.of[ch].clients = IF @ = 0 THEN 0 ELSE @ - 1,
                                    !.of[ch].failed = @ \/ b]
    <3>1. g \in Metrics
      BY <1>0, <2>2, ClosedIs, ZenonT(20)
    <3>2. metrics' = metrics \/ metrics' = g
      BY <1>14 DEF ConnectionClosed
    <3> HIDE DEF g
    <3> QED BY <1>0, <3>1, <3>2
  <2>4. last' \in [Channels -> {"none", "response", "failure"}]
    BY <1>0, <1>14, <2>2 DEF ConnectionClosed
  <2> QED BY <1>0, <1>14, <2>3, <2>4 DEF ConnectionClosed
<1>15. CASE Ask BY <1>0, <1>15 DEF Ask
<1>16. CASE Answer BY <1>0, <1>16 DEF Answer
<1>17. CASE UNCHANGED statusVars BY <1>0, <1>17 DEF statusVars
<1> QED BY <1>1, <1>2, <1>3, <1>4, <1>5, <1>6, <1>7, <1>8, <1>9, <1>10, <1>11, <1>12, <1>13,
           <1>14, <1>15, <1>16, <1>17 DEF StatusNext

LEMMA EpochsStep ==
  ASSUME StatusAssumption, StatusInv, [StatusNext]_statusVars
  PROVE  EpochsInv'
<1> USE DEF EpochsInv, StatusTypes, Metrics
<1>0. StatusTypes /\ EpochsInv BY DEF StatusInv
<1>1. ASSUME NEW e, Launch(e) PROVE EpochsInv' BY <1>0, <1>1 DEF Launch
<1>2. CASE StartFails BY <1>0, <1>2 DEF StartFails
<1>3. CASE Publish
  <2>1. asked # Null => asked.epoch \in Nat BY <1>0
  <2> QED BY <1>0, <1>3, <2>1 DEF Publish
<1>4. CASE Adopt BY <1>0, <1>4 DEF Adopt
<1>5. CASE Watchdog BY <1>0, <1>5 DEF Watchdog
<1>6. CASE Halt BY <1>0, <1>6 DEF Halt
<1>7. CASE Stopped BY <1>0, <1>7 DEF Stopped
<1>8. ASSUME NEW ch, ListenerFails(ch) PROVE EpochsInv' BY <1>0, <1>8 DEF ListenerFails
<1>9. ASSUME NEW ch, NEW c, Accept(c, ch) PROVE EpochsInv' BY <1>0, <1>9 DEF Accept
<1>10. ASSUME NEW c \in Conns, Open(c) PROVE EpochsInv'
  <2>1. metrics'.epoch = OfEpoch(current).epoch BY <1>10 DEF Open
  <2>2. metrics'.epoch <= current BY <1>0, <2>1 DEF OfEpoch
  <2> QED BY <1>0, <1>10, <2>2 DEF Open
<1>11. ASSUME NEW c, Send(c) PROVE EpochsInv' BY <1>0, <1>11 DEF Send
<1>12. ASSUME NEW c, Response(c) PROVE EpochsInv'
  <2>1. metrics'.epoch = metrics.epoch BY <1>0, <1>12 DEF Response
  <2> QED BY <1>0, <1>12, <2>1 DEF Response
<1>13. ASSUME NEW c, Abort(c) PROVE EpochsInv' BY <1>0, <1>13 DEF Abort
<1>14. ASSUME NEW c, NEW b, ConnectionClosed(c, b) PROVE EpochsInv'
  <2>1. metrics'.epoch = metrics.epoch BY <1>0, <1>14 DEF ConnectionClosed
  <2> QED BY <1>0, <1>14, <2>1 DEF ConnectionClosed
<1>15. CASE Ask
  <2>1. asked' # Null /\ asked'.state = state /\ asked'.epoch = epoch BY <1>0, <1>15 DEF Ask, States, StatusAssumption
  <2> QED BY <1>0, <1>15, <2>1 DEF Ask
<1>16. CASE Answer BY <1>0, <1>16 DEF Answer
<1>17. CASE UNCHANGED statusVars BY <1>0, <1>17 DEF statusVars
<1> QED BY <1>1, <1>2, <1>3, <1>4, <1>5, <1>6, <1>7, <1>8, <1>9, <1>10, <1>11, <1>12, <1>13,
           <1>14, <1>15, <1>16, <1>17 DEF StatusNext

LEMMA StatusIdleStep ==
  ASSUME StatusAssumption, StatusInv, [StatusNext]_statusVars
  PROVE  IdleStates'
<1> USE DEF IdleStates, At
<1>0. StatusTypes /\ IdleStates BY DEF StatusInv
<1>1. ASSUME NEW e, Launch(e) PROVE IdleStates' BY <1>0, <1>1 DEF Launch
<1>2. ASSUME StartFails \/ Publish \/ Watchdog \/ Halt PROVE IdleStates'
  BY <1>0, <1>2 DEF StartFails, Publish, Watchdog, Halt
<1>3. CASE Stopped BY <1>0, <1>3 DEF Stopped
<1>4. ASSUME NEW ch, ListenerFails(ch) PROVE IdleStates' BY <1>0, <1>4 DEF ListenerFails
<1>5. ASSUME NEW ch, NEW c, Accept(c, ch) PROVE IdleStates' BY <1>0, <1>5 DEF Accept
<1>6. ASSUME NEW c \in Conns, Open(c) \/ Send(c) \/ Response(c) \/ Abort(c) \/ \E b : ConnectionClosed(c, b)
      PROVE  IdleStates'
  <2>1. conns[c] # Null /\ state' = state
    BY <1>0, <1>6 DEF Open, Send, Response, Abort, ConnectionClosed
  <2> QED BY <1>0, <2>1
<1>7. CASE Adopt \/ Ask \/ Answer \/ UNCHANGED statusVars
  BY <1>0, <1>7 DEF Adopt, Ask, Answer, statusVars
<1> QED BY <1>1, <1>2, <1>3, <1>4, <1>5, <1>6, <1>7 DEF StatusNext

-----------------------------------------------------------------------------
\* The connections that are counted, before and after a step.
LEMMA OpenSame ==
  ASSUME StatusTypes, StatusTypes', NEW ch \in Channels,
         \A c \in Conns :
           (conns'[c] # Null /\ conns'[c].on = ch /\ conns'[c].at # "handshake")
             <=> (conns[c] # Null /\ conns[c].on = ch /\ conns[c].at # "handshake")
  PROVE  OpenOn(ch)' = OpenOn(ch)
BY DEF OpenOn, At

LEMMA CountersStep ==
  ASSUME StatusAssumption, StatusInv, [StatusNext]_statusVars, StatusTypes'
  PROVE  CountersInv'
<1>0. StatusTypes /\ EpochsInv /\ IdleStates /\ CountersInv BY DEF StatusInv
<1>1. ASSUME (\E e : Launch(e)) \/ StartFails \/ Watchdog \/ Halt \/ Stopped
      PROVE  CountersInv'
  <2>1. /\ UNCHANGED <<current, metrics, conns, last>> /\ state' # "Running"
    BY <1>1 DEF Launch, StartFails, Watchdog, Halt, Stopped
  <2> QED BY <1>0, <2>1 DEF CountersInv
<1>2. CASE Publish
  <2>1. /\ \A c \in Conns : conns'[c] = Null
        /\ \A ch \in Channels : last'[ch] = "none"
    BY <1>0, <1>2 DEF Publish, IdleStates
  <2>2. metrics'.epoch # current'
    BY <1>0, <1>2 DEF Publish, EpochsInv, StatusTypes, Metrics
  <2> QED BY <2>1, <2>2 DEF CountersInv
<1>3. CASE Adopt \/ Ask \/ Answer \/ UNCHANGED statusVars
  <2>1. UNCHANGED <<state, current, failing, metrics, conns, last>>
    BY <1>3 DEF Adopt, Ask, Answer, statusVars
  <2>2. \A ch \in Channels : OpenOn(ch)' = OpenOn(ch)
    BY <2>1 DEF OpenOn, At
  <2> QED BY <1>0, <2>1, <2>2 DEF CountersInv
<1>4. ASSUME NEW ch, ListenerFails(ch) PROVE CountersInv'
  <2>1. UNCHANGED <<state, current, metrics, last>> /\ failing'
    BY <1>4 DEF ListenerFails
  <2>2. \A c \in Conns : conns'[c] # Null => conns'[c] = conns[c]
    BY <1>0, <1>4 DEF ListenerFails, StatusTypes
  <2> QED BY <1>0, <2>1, <2>2 DEF CountersInv
<1>5. ASSUME NEW ch \in Channels, NEW c \in Conns, Accept(c, ch) PROVE CountersInv'
  <2>1. UNCHANGED <<state, current, failing, metrics, last>>
    BY <1>5 DEF Accept
  <2>2. /\ conns[c] = Null /\ conns'[c].at = "handshake"
        /\ \A d \in Conns \ {c} : conns'[d] = conns[d]
    BY <1>0, <1>5 DEF Accept, StatusTypes
  <2>3. \A d \in Channels : OpenOn(d)' = OpenOn(d)
    BY <1>0, <2>2, OpenSame
  <2> QED BY <1>0, <2>1, <2>2, <2>3 DEF CountersInv
<1>6. ASSUME NEW c \in Conns, Send(c) PROVE CountersInv'
  <2>1. UNCHANGED <<state, current, failing, metrics, last>>
    BY <1>6 DEF Send
  <2>2. /\ conns[c] # Null /\ conns[c].at = "open" /\ conns'[c].at = "sent" /\ conns'[c] # Null
        /\ conns'[c].on = conns[c].on
        /\ \A d \in Conns \ {c} : conns'[d] = conns[d]
    BY <1>0, <1>6 DEF Send, At, StatusTypes, Connections, Stages, StatusAssumption
  <2>3. \A d \in Channels : OpenOn(d)' = OpenOn(d)
    BY <1>0, <2>2, OpenSame
  <2> QED BY <1>0, <2>1, <2>2, <2>3 DEF CountersInv
<1>7. ASSUME NEW c \in Conns, Abort(c) PROVE CountersInv'
  <2>1. UNCHANGED <<state, current, failing, metrics, last>> /\ state' # "Running"
    BY <1>7 DEF Abort
  <2>2. \A d \in Conns : conns'[d] # Null => conns'[d] = conns[d]
    BY <1>0, <1>7 DEF Abort, StatusTypes
  <2> QED BY <1>0, <2>1, <2>2 DEF CountersInv
<1>8. ASSUME NEW c \in Conns, Open(c) PROVE CountersInv'
  <2> DEFINE m == OfEpoch(current)
  <2>0. PICK on : on = conns[c].on OBVIOUS
  <2>1. UNCHANGED <<state, current, failing, last>> /\ metrics' = [m EXCEPT !.of[on].clients = @ + 1]
    BY <1>8, <2>0 DEF Open
  <2>2. /\ conns[c] # Null /\ conns[c].at = "handshake" /\ conns'[c].at = "open" /\ conns'[c] # Null
        /\ on \in Channels /\ conns'[c].on = on
        /\ \A d \in Conns \ {c} : conns'[d] = conns[d]
    BY <1>0, <1>8, <2>0 DEF Open, At, StatusTypes, Connections, Stages, StatusAssumption
  <2>3. \A d \in Channels \ {on} : OpenOn(d)' = OpenOn(d)
    BY <1>0, <2>0, <2>2, OpenSame
  <2>4. OpenOn(on)' = OpenOn(on) \cup {c} /\ c \notin OpenOn(on)
    BY <2>0, <2>2 DEF OpenOn, At
  <2>5. Cardinality(OpenOn(on)') = Cardinality(OpenOn(on)) + 1
    BY <2>4, OpenFinite, FS_AddElement
  <2>6. m \in Metrics /\ m.epoch = current
    BY <1>0 DEF OfEpoch, StatusTypes, Metrics, Counts, Nothing, NoMetrics
  <2>7. \A d \in Channels :
          /\ m.of[d].failed <=> last[d] = "failure"
          /\ m.of[d].answered /\ ~ m.of[d].failed => last[d] = "response"
          /\ state = "Running" /\ ~ failing => m.of[d].clients = Cardinality(OpenOn(d))
    <3>1. CASE metrics.epoch = current BY <1>0, <3>1 DEF OfEpoch, CountersInv
    <3>2. CASE metrics.epoch # current
      <4>1. m.of = Nothing BY <3>2 DEF OfEpoch
      <4>2. \A d \in Channels : OpenOn(d) = {} BY <1>0, <3>2 DEF CountersInv, OpenOn, At
      <4> QED BY <1>0, <3>2, <4>1, <4>2, FS_EmptySet DEF CountersInv, Nothing, NoMetrics
    <3> QED BY <3>1, <3>2
  <2> HIDE DEF m
  <2>8. /\ metrics'.epoch = current
        /\ metrics'.of[on] = [m.of[on] EXCEPT !.clients = m.of[on].clients + 1]
        /\ \A d \in Channels \ {on} : metrics'.of[d] = m.of[d]
    BY <2>1, <2>2, <2>6, OpenedIs
  <2>9. /\ metrics'.of[on].failed = m.of[on].failed
        /\ metrics'.of[on].answered = m.of[on].answered
        /\ metrics'.of[on].clients = m.of[on].clients + 1
    <3>1. m.of[on] \in Counts BY <2>2, <2>6 DEF Metrics
    <3> QED BY <2>8, <3>1 DEF Counts
  <2>10. ASSUME NEW d \in Channels
         PROVE  /\ metrics'.of[d].failed <=> last'[d] = "failure"
                /\ metrics'.of[d].answered /\ ~ metrics'.of[d].failed => last'[d] = "response"
                /\ state' = "Running" /\ ~ failing' => metrics'.of[d].clients = Cardinality(OpenOn(d)')
    <3>1. CASE d = on BY <2>1, <2>2, <2>5, <2>7, <2>9, <3>1
    <3>2. CASE d # on BY <2>1, <2>3, <2>7, <2>8, <3>2
    <3> QED BY <3>1, <3>2
  <2> QED BY <2>1, <2>8, <2>10 DEF CountersInv
<1>9. ASSUME NEW c \in Conns, Response(c) PROVE CountersInv'
  <2>0. PICK on : on = conns[c].on OBVIOUS
  <2>1. /\ UNCHANGED <<state, current, failing>>
        /\ metrics' = [metrics EXCEPT !.of[on].answered = TRUE, !.of[on].failed = FALSE]
        /\ last' = [last EXCEPT ![on] = "response"]
    BY <1>9, <2>0 DEF Response
  <2>2. /\ conns[c] # Null /\ conns[c].at = "sent" /\ conns'[c].at = "answered" /\ conns'[c] # Null
        /\ on \in Channels /\ conns'[c].on = on
        /\ \A d \in Conns \ {c} : conns'[d] = conns[d]
    BY <1>0, <1>9, <2>0 DEF Response, At, StatusTypes, Connections, Stages, StatusAssumption
  <2>3. \A d \in Channels : OpenOn(d)' = OpenOn(d)
    BY <1>0, <2>0, <2>2, OpenSame
  <2>4. metrics.epoch = current BY <1>0, <2>2 DEF CountersInv
  <2>5. metrics \in Metrics BY <1>0 DEF StatusTypes
  <2>6. /\ metrics'.epoch = metrics.epoch
        /\ metrics'.of[on] = [clients |-> metrics.of[on].clients, answered |-> TRUE, failed |-> FALSE]
        /\ \A d \in Channels \ {on} : metrics'.of[d] = metrics.of[d]
    BY <2>1, <2>2, <2>5, ResponseIs
  <2>7. last'[on] = "response" /\ \A d \in Channels \ {on} : last'[d] = last[d]
    BY <1>0, <2>1, <2>2 DEF StatusTypes
  <2>8. ASSUME NEW d \in Channels
        PROVE  /\ metrics'.of[d].failed <=> last'[d] = "failure"
               /\ metrics'.of[d].answered /\ ~ metrics'.of[d].failed => last'[d] = "response"
               /\ state' = "Running" /\ ~ failing' => metrics'.of[d].clients = Cardinality(OpenOn(d)')
    <3>1. metrics'.of[d].clients = metrics.of[d].clients
      <4>1. CASE d = on BY <2>6, <4>1
      <4>2. CASE d # on BY <2>6, <4>2
      <4> QED BY <4>1, <4>2
    <3>2. state = "Running" /\ ~ failing => metrics.of[d].clients = Cardinality(OpenOn(d))
      BY <1>0, <2>4 DEF CountersInv
    <3>3. state' = "Running" /\ ~ failing' => metrics'.of[d].clients = Cardinality(OpenOn(d)')
      BY <2>1, <2>3, <3>1, <3>2
    <3>4. CASE d = on BY <2>6, <2>7, <3>3, <3>4
    <3>5. CASE d # on BY <1>0, <2>4, <2>6, <2>7, <3>3, <3>5 DEF CountersInv
    <3> QED BY <3>4, <3>5
  <2>9. metrics'.epoch = current' BY <2>1, <2>4, <2>6
  <2> QED BY <2>8, <2>9 DEF CountersInv
<1>10. ASSUME NEW c \in Conns, NEW b \in BOOLEAN, ConnectionClosed(c, b) PROVE CountersInv'
  <2>0. PICK on : on = conns[c].on OBVIOUS
  <2>1. UNCHANGED <<state, current, failing>> BY <1>10 DEF ConnectionClosed
  <2>2. /\ conns[c] # Null /\ conns'[c] = Null /\ on \in Channels
        /\ \A d \in Conns \ {c} : conns'[d] = conns[d]
    BY <1>0, <1>10, <2>0 DEF ConnectionClosed, StatusTypes, Connections
  <2>3. CASE conns[c].at = "handshake"
    <3>1. UNCHANGED <<metrics, last>> BY <1>10, <2>3 DEF ConnectionClosed, At
    <3>2. \A d \in Channels : OpenOn(d)' = OpenOn(d) BY <1>0, <2>0, <2>2, <2>3, OpenSame
    <3> QED BY <1>0, <2>1, <2>2, <3>1, <3>2 DEF CountersInv
  <2>4. CASE conns[c].at # "handshake"
    <3>1. /\ metrics' = [metrics EXCEPT !.of[on].clients = IF @ = 0 THEN 0 ELSE @ - 1,
                                        !.of[on].failed = @ \/ b]
          /\ last' = IF b THEN [last EXCEPT ![on] = "failure"] ELSE last
      BY <1>10, <2>0, <2>4 DEF ConnectionClosed, At
    <3>2. metrics.epoch = current /\ metrics \in Metrics
      BY <1>0, <2>2, <2>4 DEF CountersInv, StatusTypes
    <3>3. \A d \in Channels \ {on} : OpenOn(d)' = OpenOn(d) BY <1>0, <2>0, <2>2, <2>4, OpenSame
    <3>4. OpenOn(on)' = OpenOn(on) \ {c} /\ c \in OpenOn(on)
      BY <2>0, <2>2, <2>4 DEF OpenOn, At
    <3>5. /\ Cardinality(OpenOn(on)') = Cardinality(OpenOn(on)) - 1
          /\ Cardinality(OpenOn(on)) # 0
      <4>1. IsFiniteSet(OpenOn(on)) BY OpenFinite
      <4>2. Cardinality(OpenOn(on) \ {c}) = Cardinality(OpenOn(on)) - 1
        BY <3>4, <4>1, FS_RemoveElement
      <4>3. Cardinality(OpenOn(on)) # 0 BY <3>4, <4>1, FS_EmptySet
      <4> QED BY <3>4, <4>2, <4>3
    <3>6. /\ last'[on] = IF b THEN "failure" ELSE last[on]
          /\ \A d \in Channels \ {on} : last'[d] = last[d]
      BY <1>0, <2>2, <3>1 DEF StatusTypes
    <3>7. /\ metrics'.epoch = metrics.epoch
          /\ metrics'.of[on].clients = IF metrics.of[on].clients = 0 THEN 0 ELSE metrics.of[on].clients - 1
          /\ metrics'.of[on].answered = metrics.of[on].answered
          /\ metrics'.of[on].failed = (metrics.of[on].failed \/ b)
          /\ \A d \in Channels \ {on} : metrics'.of[d] = metrics.of[d]
      <4> DEFINE g == [metrics EXCEPT !.of[on].clients = IF @ = 0 THEN 0 ELSE @ - 1,
                                      !.of[on].failed = @ \/ b]
      <4>0. on \in Channels BY <2>2
      <4>1. /\ g.epoch = metrics.epoch
            /\ g.of[on].clients = IF metrics.of[on].clients = 0 THEN 0 ELSE metrics.of[on].clients - 1
            /\ g.of[on].answered = metrics.of[on].answered
            /\ g.of[on].failed = (metrics.of[on].failed \/ b)
            /\ \A d \in Channels \ {on} : g.of[d] = metrics.of[d]
        BY <3>2, <4>0, ClosedIs, ZenonT(40)
      <4>2. metrics' = g BY <3>1
      <4> HIDE DEF g
      <4> QED BY <4>1, <4>2
    <3>8. ASSUME NEW d \in Channels
          PROVE  /\ metrics'.of[d].failed <=> last'[d] = "failure"
                 /\ metrics'.of[d].answered /\ ~ metrics'.of[d].failed => last'[d] = "response"
                 /\ state' = "Running" /\ ~ failing' => metrics'.of[d].clients = Cardinality(OpenOn(d)')
      <4>0. /\ metrics.of[d].failed <=> last[d] = "failure"
            /\ metrics.of[d].answered /\ ~ metrics.of[d].failed => last[d] = "response"
            /\ state = "Running" /\ ~ failing => metrics.of[d].clients = Cardinality(OpenOn(d))
        BY <1>0, <3>2 DEF CountersInv
      <4>1. CASE d = on
        <5>1. CASE b BY <2>1, <3>5, <3>6, <3>7, <4>0, <4>1, <5>1
        <5>2. CASE ~ b BY <2>1, <3>5, <3>6, <3>7, <4>0, <4>1, <5>2
        <5> QED BY <5>1, <5>2
      <4>2. CASE d # on BY <2>1, <3>3, <3>6, <3>7, <4>0, <4>2
      <4> QED BY <4>1, <4>2
    <3> QED BY <2>1, <3>2, <3>7, <3>8 DEF CountersInv
  <2> QED BY <2>3, <2>4
<1> QED BY <1>1, <1>2, <1>3, <1>4, <1>5, <1>6, <1>7, <1>8, <1>9, <1>10 DEF StatusNext

LEMMA StatusStep ==
  ASSUME StatusAssumption, StatusInv, [StatusNext]_statusVars
  PROVE  StatusInv'
BY StatusTypesStep, EpochsStep, StatusIdleStep, CountersStep DEF StatusInv

(* A status about the runtime that still runs, all its listeners alive, is true  *)
(* of the connections and of what the upstream last did, for any channels and    *)
(* connections, however starts, stops and failures fall into its reading.        *)
THEOREM StatusPageIsTrue == ASSUME StatusAssumption PROVE StatusSpec => StatusIsTrue
<1>1. StatusInit => StatusInv BY StatusInitInv
<1>2. StatusInv /\ [StatusNext]_statusVars => StatusInv' BY StatusStep
<1>3. ASSUME StatusInv, asked # Null, asked.epoch = current, state = "Running", ~ failing
      PROVE  LET view == View(asked)
             IN  /\ \A ch \in Channels : view.clients[ch] = Cardinality(OpenOn(ch))
                 /\ view.outbound = "Healthy" => \A ch \in view.enabled : last[ch] = "response"
                 /\ view.outbound = "Faulted" => \E ch \in view.enabled : last[ch] = "failure"
  <2> DEFINE m == Counters(asked.epoch)
             tones == {Tone(asked.state, m[ch]) : ch \in settings}
             view == View(asked)
  <2>1. StatusTypes /\ EpochsInv /\ CountersInv BY <1>3 DEF StatusInv
  <2>2. current # 0 /\ asked.state = "Running" BY <1>3, <2>1 DEF EpochsInv
  <2>3. \A ch \in Channels :
          /\ m[ch].failed <=> last[ch] = "failure"
          /\ m[ch].answered /\ ~ m[ch].failed => last[ch] = "response"
          /\ m[ch].clients = Cardinality(OpenOn(ch))
    <3>1. CASE metrics.epoch = current
      BY <1>3, <2>1, <3>1 DEF Counters, CountersInv
    <3>2. CASE metrics.epoch # current
      <4>1. m = Nothing BY <1>3, <2>2, <3>2 DEF Counters
      <4>2. \A ch \in Channels : OpenOn(ch) = {} BY <2>1, <3>2 DEF CountersInv, OpenOn, At
      <4> QED BY <2>1, <3>2, <4>1, <4>2, FS_EmptySet DEF CountersInv, Nothing, NoMetrics
    <3> QED BY <3>1, <3>2
  <2>4. settings \subseteq Channels BY <2>1 DEF StatusTypes
  <2> HIDE DEF m
  <2>5. /\ view.clients = [ch \in Channels |-> m[ch].clients]
        /\ view.enabled = settings
        /\ view.outbound = Outbound("Running", tones)
    BY <2>2 DEF View, m
  <2>6. view.outbound = "Healthy" => \A ch \in settings : m[ch].answered /\ ~ m[ch].failed
    <3> SUFFICES ASSUME view.outbound = "Healthy", NEW ch \in settings
                 PROVE  m[ch].answered /\ ~ m[ch].failed
      OBVIOUS
    <3>1. Tone("Running", m[ch]) \in tones BY <2>2
    <3>2. Tone("Running", m[ch]) = "positive" BY <2>5, <3>1 DEF Outbound
    <3> QED BY <3>2 DEF Tone
  <2>7. view.outbound = "Faulted" => \E ch \in settings : m[ch].failed
    <3> SUFFICES ASSUME view.outbound = "Faulted" PROVE \E ch \in settings : m[ch].failed
      OBVIOUS
    <3>1. "danger" \in tones BY <2>5 DEF Outbound
    <3>2. PICK ch \in settings : Tone("Running", m[ch]) = "danger" BY <2>2, <3>1
    <3> QED BY <3>2 DEF Tone
  <2> HIDE DEF view
  <2> QED BY <2>3, <2>4, <2>5, <2>6, <2>7 DEF view
<1>4. StatusInv /\ [StatusNext]_statusVars =>
        [(asked # Null /\ asked' = Null /\ asked.epoch = current
            /\ state = "Running" /\ ~ failing) =>
           LET view == View(asked)
           IN  /\ \A ch \in Channels : view.clients[ch] = Cardinality(OpenOn(ch))
               /\ view.outbound = "Healthy" => \A ch \in view.enabled : last[ch] = "response"
               /\ view.outbound = "Faulted" => \E ch \in view.enabled : last[ch] = "failure"]_statusVars
  BY <1>3
<1> QED BY <1>1, <1>2, <1>4, PTL DEF StatusSpec, StatusIsTrue

-----------------------------------------------------------------------------
(* The wire. *)

From(s, a, b) == [i \in 1 .. b - a |-> s[a + i]]
GenLen(p) == IF p.expect THEN 4 ELSE 2
Source(p) == Generated(p) \o Bytes(p.body)

LEMMA FromLen ==
  ASSUME NEW s, NEW a \in Nat, NEW b \in Nat, a <= b
  PROVE  Len(From(s, a, b)) = b - a
BY DEF From

LEMMA FromTail ==
  ASSUME NEW S, NEW s \in Seq(S), NEW a \in Nat, NEW b \in Nat, a < b, b <= Len(s)
  PROVE  Tail(From(s, a, b)) = From(s, a + 1, b) /\ Head(From(s, a, b)) = s[a + 1]
<1>1. From(s, a, b) = SubSeq(s, a + 1, b) BY DEF From
<1>2. From(s, a + 1, b) = SubSeq(s, (a + 1) + 1, b) BY DEF From
<1>3. a + 1 \in 1 .. Len(s) /\ b \in a + 1 .. Len(s) OBVIOUS
<1> QED BY <1>1, <1>2, <1>3, HeadTailOfSubSeq

LEMMA FromAppend ==
  ASSUME NEW s, NEW b \in Nat
  PROVE  Append(From(s, 0, b), s[b + 1]) = From(s, 0, b + 1)
BY DEF From

LEMMA FromMore ==
  ASSUME NEW s, NEW a \in Nat, NEW b \in Nat, NEW c \in Nat, a <= b, b <= c
  PROVE  From(s, a, b) \o [i \in 1 .. c - b |-> s[b + i]] = From(s, a, c)
BY DEF From

LEMMA SourceIs ==
  ASSUME NEW p, p.expect \in BOOLEAN, p.body \in Nat
  PROVE  /\ ~ p.expect => Source(p)[1] = <<"generated", 1>> /\ Source(p)[2] = <<"generated", 2>>
         /\ \A i \in 1 .. p.body : Source(p)[GenLen(p) + i] = <<"byte", i>>
BY DEF Source, Generated, Bytes, GenLen, Info

-----------------------------------------------------------------------------
\* What Hyper was given so far: after the end of the body the rest of it follows.
Held == IF mode = "tail" \/ (mode = "closed" /\ ended = "done") THEN plan.body ELSE offset

\* c parts and bytes have left the buffer, w have reached the peer.
Place(c, w) ==
  /\ c <= GenLen(plan) + Held
  /\ buf = From(Source(plan), c, GenLen(plan) + Held)
  /\ wire = From(Expected(plan), 0, w)
  /\ head = "none" => sent = 0 /\ c < GenLen(plan) /\ w = IF c < 2 THEN 0 ELSE 2
  /\ head = "info" => plan.expect /\ c = 2 /\ w = sent /\ sent < 2
  /\ head = "final" => /\ c >= GenLen(plan) /\ (sent < 2 => c = GenLen(plan))
                       /\ w = IF sent = 2 THEN c ELSE GenLen(plan) - 2 + sent

\* There is no more, and more was declared.
Outrun == offset = plan.body /\ plan.body < plan.claimed

\* What has to have reached the peer.
Arrived(c, w) ==
  /\ ended = "done" /\ mode = "closed" => c = GenLen(plan) + plan.body /\ w = c
  /\ flushed /\ plan.body > 0 => w = GenLen(plan) + plan.body
  /\ ended = "cut" => w = GenLen(plan) + plan.cut
  /\ Unpaced(plan) /\ stalled = 0 =>
       /\ mode = "rest" /\ wait # Null => w = GenLen(plan) + offset
       /\ elapsed > 0 => Outrun /\ w = GenLen(plan) + offset

BodyInv ==
  /\ offset <= BodyBytes(plan)
  /\ Direct(plan) => offset <= plan.cut /\ head = "final" /\ sent = 2
  /\ Direct(plan) /\ mode \in {"rest", "poll"} => buf = <<>>
  /\ mode \in {"rest", "poll"} => ended = "no"
  /\ mode = "flush" => ended \in {"no", "done"}
  /\ mode = "tail" => ended = "done" /\ head = "final" /\ sent = 2
  /\ mode = "closed" => ended # "no"
  /\ ended = "done" => offset = plan.claimed
  /\ ended = "short" => offset = plan.body /\ elapsed > 0
  /\ ended = "cut" => Direct(plan) /\ offset = plan.cut
  /\ complete => plan.dir = "up" /\ offset = plan.body
  /\ flushed => complete
  /\ Unpaced(plan) => throttleAt = 0 /\ (wait # Null => Outrun)

PlaceInv == \E c, w \in Nat : Place(c, w) /\ Arrived(c, w)

WireInv == WireTypeOK /\ BodyInv /\ PlaceInv

-----------------------------------------------------------------------------
Parts == {"info", "generated", "final", "byte"} \X Nat

LEMMA PartsTyped ==
  ASSUME NEW p, p.expect \in BOOLEAN, p.body \in Nat
  PROVE  /\ \A n \in Nat : Bytes(n) \in Seq(Parts) /\ Len(Bytes(n)) = n
         /\ Final \in Seq(Parts) /\ Len(Final) = 2
         /\ Source(p) \in Seq(Parts) /\ Expected(p) \in Seq(Parts)
         /\ Generated(p) \in Seq(Parts) /\ Len(Generated(p)) = GenLen(p)
<1> DEFINE heads == <<<<"generated", 1>>, <<"generated", 2>>>>
<1>1. Info \in Seq(Parts) /\ heads \in Seq(Parts) /\ <<>> \in Seq(Parts) /\ Final \in Seq(Parts)
  BY DEF Info, Final, Parts
<1>2. ASSUME NEW n \in Nat PROVE Bytes(n) \in Seq(Parts)
  <2>1. Bytes(n) \in [1 .. n -> Parts] BY DEF Bytes, Parts
  <2> QED BY <2>1, SeqDef
<1>3. Len(Final) = 2 /\ \A n \in Nat : Len(Bytes(n)) = n BY DEF Final, Bytes
<1> DEFINE first == IF p.expect THEN Info ELSE <<>>
<1>4. first \in Seq(Parts) BY <1>1
<1>5. Source(p) = (first \o heads) \o Bytes(p.body) BY DEF Source, Generated
<1>6. Expected(p) = (first \o Final) \o Bytes(p.body) BY DEF Expected
<1>7. Generated(p) = first \o heads BY DEF Generated
<1>8. Len(Generated(p)) = GenLen(p) BY DEF Generated, Info, GenLen
<1> HIDE DEF first, heads
<1> QED BY <1>1, <1>2, <1>3, <1>4, <1>5, <1>6, <1>7, <1>8, ConcatProperties

LEMMA FromSeq ==
  ASSUME NEW S, NEW s \in Seq(S), NEW b \in 0 .. Len(s)
  PROVE  From(s, 0, b) \in Seq(S) /\ Len(From(s, 0, b)) = b
<1>1. From(s, 0, b) \in [1 .. b -> S] BY DEF From
<1>2. From(s, 0, b) \in Seq(S) BY <1>1, SeqDef
<1> QED BY <1>2 DEF From

LEMMA ExpectedIs ==
  ASSUME NEW p, p.expect \in BOOLEAN, p.body \in Nat
  PROVE  /\ Len(Expected(p)) = GenLen(p) + p.body
         /\ Expected(p)[GenLen(p) - 1] = Final[1] /\ Expected(p)[GenLen(p)] = Final[2]
         /\ \A i \in 1 .. p.body : Expected(p)[GenLen(p) + i] = <<"byte", i>>
BY DEF Expected, GenLen, Info, Final, Bytes

LEMMA AllExpected ==
  ASSUME NEW p, p.expect \in BOOLEAN, p.body \in Nat
  PROVE  From(Expected(p), 0, GenLen(p) + p.body) = Expected(p)
<1> DEFINE e == Expected(p)
           f == From(e, 0, GenLen(p) + p.body)
<1>1. e \in Seq(Parts) /\ Len(e) = GenLen(p) + p.body BY PartsTyped, ExpectedIs
<1>2. GenLen(p) + p.body \in 0 .. Len(e) BY <1>1 DEF GenLen
<1>3. \A i \in 1 .. Len(e) : f[i] = e[i] BY <1>1 DEF From, GenLen
<1> HIDE DEF e
<1>4. f \in Seq(Parts) /\ Len(f) = Len(e) BY <1>1, <1>2, FromSeq
<1> HIDE DEF f
<1>5. f = e BY <1>1, <1>3, <1>4, SeqEqual
<1> QED BY <1>5 DEF e, f

LEMMA SourceLen ==
  ASSUME NEW p, p.expect \in BOOLEAN, p.body \in Nat
  PROVE  Len(Source(p)) = GenLen(p) + p.body
BY DEF Source, Generated, Bytes, GenLen, Info

LEMMA CutIs ==
  ASSUME NEW p, p.expect \in BOOLEAN, ~ p.expect, p.body \in Nat, NEW k \in 0 .. p.body
  PROVE  From(Expected(p), 0, GenLen(p) + k) = Final \o Bytes(k)
<1> DEFINE f == From(Expected(p), 0, 2 + k)
           g == Final \o Bytes(k)
<1>0. p.expect \in BOOLEAN OBVIOUS
<1>1. GenLen(p) = 2 BY DEF GenLen
<1>2. f \in Seq(Parts) /\ Len(f) = 2 + k
  <2>1. Expected(p) \in Seq(Parts) /\ Len(Expected(p)) = 2 + p.body
    BY <1>0, <1>1, PartsTyped, ExpectedIs
  <2>2. 2 + k \in 0 .. Len(Expected(p)) BY <2>1
  <2> QED BY <2>1, <2>2, FromSeq
<1>3. g \in Seq(Parts) /\ Len(g) = 2 + k
  <2>1. Final \in Seq(Parts) /\ Bytes(k) \in Seq(Parts) /\ Len(Final) = 2 /\ Len(Bytes(k)) = k
    BY <1>0, PartsTyped
  <2>2. g \in Seq(Parts) /\ Len(g) = Len(Final) + Len(Bytes(k))
    BY <2>1, ConcatProperties, Zenon
  <2> QED BY <2>1, <2>2
<1>4. /\ g[1] = Final[1] /\ g[2] = Final[2]
      /\ \A i \in 1 .. k : g[2 + i] = <<"byte", i>>
  BY DEF Final, Bytes
<1>5. /\ f[1] = Final[1] /\ f[2] = Final[2]
      /\ \A i \in 1 .. k : f[2 + i] = <<"byte", i>>
  <2>1. Expected(p)[1] = Final[1] /\ Expected(p)[2] = Final[2] BY <1>0, <1>1, ExpectedIs
  <2>2. \A i \in 1 .. p.body : Expected(p)[2 + i] = <<"byte", i>> BY <1>0, <1>1, ExpectedIs
  <2>3. \A i \in 1 .. 2 + k : f[i] = Expected(p)[i] BY DEF From
  <2> HIDE DEF f
  <2> QED BY <2>1, <2>2, <2>3
<1> HIDE DEF f, g
<1>6. ASSUME NEW i \in 1 .. Len(f) PROVE f[i] = g[i]
  <2>1. CASE i \in {1, 2} BY <1>4, <1>5, <2>1
  <2>2. CASE i \notin {1, 2}
    <3>1. i - 2 \in 1 .. k /\ i = 2 + (i - 2) BY <1>2, <2>2
    <3> QED BY <1>4, <1>5, <3>1
  <2> QED BY <2>1, <2>2
<1>7. f = g BY <1>2, <1>3, <1>6, SeqEqual
<1> QED BY <1>1, <1>7 DEF f, g

LEMMA RestIs ==
  ASSUME NEW p, p.expect \in BOOLEAN, p.body \in Nat, NEW k \in 0 .. p.body
  PROVE  SubSeq(Bytes(p.body), k + 1, p.body) = From(Source(p), GenLen(p) + k, GenLen(p) + p.body)
<1>1. \A i \in 1 .. p.body - k : Source(p)[(GenLen(p) + k) + i] = <<"byte", k + i>>
  BY SourceIs DEF GenLen
<1>2. SubSeq(Bytes(p.body), k + 1, p.body) = [i \in 1 .. p.body - k |-> <<"byte", k + i>>]
  BY DEF Bytes
<1>3. (GenLen(p) + p.body) - (GenLen(p) + k) = p.body - k BY DEF GenLen
<1> QED BY <1>1, <1>2, <1>3 DEF From

-----------------------------------------------------------------------------
\* What is known of the message.
PlanIs ==
  /\ plan.expect \in BOOLEAN /\ plan.body \in Nat /\ plan.claimed \in Nat
  /\ GenLen(plan) \in {2, 4} /\ (GenLen(plan) = 4 <=> plan.expect)
  /\ BodyBytes(plan) \in Nat /\ BodyBytes(plan) <= plan.body /\ BodyBytes(plan) <= plan.claimed
  /\ BodyBytes(plan) \in {plan.body, plan.claimed}
  /\ Direct(plan) => plan.dir = "up" /\ plan.cut \in Nat /\ plan.cut < plan.body
  /\ plan.dir = "up" => plan.claimed = plan.body /\ ~ plan.expect
  /\ ChunkBytes(plan, BodyBytes(plan)) \in Nat

LEMMA PlanKnown == ASSUME WireAssumption, plan \in Plans PROVE PlanIs
<1>1. IsPlan(plan) BY DEF WireAssumption
<1>2. BodyBytes(plan) \in Nat BY <1>1 DEF IsPlan, BodyBytes
<1>3. ChunkBytes(plan, BodyBytes(plan)) \in Nat
  BY <1>1, <1>2 DEF IsPlan, IsSchedule, ChunkBytes, WireAssumption
<1>4. Direct(plan) => plan.dir = "up" /\ plan.cut \in Nat /\ plan.cut < plan.body
  BY <1>1 DEF IsPlan, Direct
<1> QED BY <1>1, <1>2, <1>3, <1>4 DEF IsPlan, PlanIs, GenLen, BodyBytes

\* The next chunk ends behind the last one, and before the end and the cut.
LEMMA ChunkIs ==
  ASSUME PlanIs, WireTypeOK, BodyInv
  PROVE  /\ NextChunk \in Nat /\ offset <= NextChunk /\ NextChunk <= BodyBytes(plan)
         /\ Direct(plan) => NextChunk <= plan.cut
BY DEF PlanIs, WireTypeOK, BodyInv, NextChunk, Later

LEMMA WireTypesStep ==
  ASSUME WireAssumption, WireInv, [WireNext]_wireVars
  PROVE  WireTypeOK'
<1> USE DEF WireTypeOK, pacing, writer
<1>0. WireTypeOK /\ BodyInv /\ PlanIs BY PlanKnown DEF WireInv
<1>1. CASE Cancelled BY <1>0, <1>1 DEF Cancelled
<1>2. CASE Sleep
  <2>1. plan' = plan /\ mode' = "flush" /\ UNCHANGED <<offset, throttleAt, ended, elapsed, stalled, head,
          sent, complete, flushed, cancelled>>
    BY <1>2 DEF Sleep, Pend
  <2>2. GapEnd \in Nat
    <3>1. CASE Blocked
      <4>1. IsPlan(plan) /\ plan.gaps # Null BY <1>0, <3>1 DEF WireAssumption, Blocked
      <4>2. Cycle \in Nat \ {0} BY <4>1 DEF IsPlan, IsSchedule, Cycle
      <4> HIDE DEF Cycle
      <4>3. elapsed % Cycle \in 0 .. Cycle - 1 BY <1>0, <4>2
      <4> QED BY <1>0, <3>1, <4>2, <4>3 DEF GapEnd
    <3>2. CASE ~ Blocked BY <1>0, <3>2 DEF GapEnd
    <3> QED BY <3>1, <3>2
  <2>3. CASE MustJitter
    <3>1. IsPlan(plan) /\ plan.jitter # Null BY <1>0, <2>3 DEF WireAssumption, MustJitter
    <3>2. PICK draw \in plan.jitter.min .. plan.jitter.max :
            jittered' = JitterMark /\ wait' = Later(elapsed + draw, GapEnd)
      BY <1>2, <2>3 DEF Sleep, Pend
    <3>3. draw \in Nat BY <3>1, <3>2 DEF IsPlan, IsSchedule
    <3>4. wait' \in Nat BY <1>0, <2>2, <3>2, <3>3 DEF Later
    <3>5. jittered' \in -2 .. plan.body BY <1>0, <3>2 DEF JitterMark, PlanIs
    <3> QED BY <1>0, <2>1, <3>4, <3>5
  <2>4. CASE ~ MustJitter
    <3>1. wait' = GapEnd /\ jittered' = jittered BY <1>2, <2>4 DEF Sleep, Pend
    <3> QED BY <1>0, <2>1, <2>2, <3>1
  <2> QED BY <2>3, <2>4
<1>3. CASE Throttle
  <2>1. jittered' \in -2 .. plan.body BY <1>0, <1>3 DEF Throttle, Marked, JitterMark, PlanIs
  <2> QED BY <1>0, <1>3, <2>1 DEF Throttle, Pend
<1>4. CASE Emit
  <2>1. jittered' \in -2 .. plan.body BY <1>0, <1>4 DEF Emit, Marked, JitterMark, PlanIs
  <2>2. offset' \in 0 .. plan.body BY <1>0, <1>4, ChunkIs DEF Emit, PlanIs
  <2>3. throttleAt' \in Nat
    <3>1. CASE plan.throttle = Null BY <1>0, <1>4, <3>1 DEF Emit
    <3>2. CASE plan.throttle # Null
      <4>1. plan.throttle.rate \in Nat \ {0} /\ Second \in Nat
        BY <1>0, <3>2 DEF WireAssumption, IsPlan, IsSchedule
      <4>2. NextChunk - offset \in Nat BY <1>0, ChunkIs
      <4>3. (NextChunk - offset) * Second \in Nat BY <4>1, <4>2
      <4>4. Rate(plan, NextChunk - offset) \in Nat BY <4>1, <4>3 DEF Rate
      <4> QED BY <1>0, <1>4, <3>2, <4>4 DEF Emit
    <3> QED BY <3>1, <3>2
  <2>4. complete' \in BOOLEAN /\ ended' \in {"no", "done", "short", "cut", "cancelled"}
        /\ mode' \in {"rest", "poll", "flush", "tail", "closed"}
    BY <1>0, <1>4 DEF Emit
  <2> QED BY <1>0, <1>4, <2>1, <2>2, <2>3, <2>4 DEF Emit
<1>5. CASE EndShort BY <1>0, <1>5 DEF EndShort, Pend, FinishDelay
<1>6. CASE EndEmpty BY <1>0, <1>6 DEF EndEmpty
<1>7. CASE CutOff BY <1>0, <1>7 DEF CutOff
<1>8. CASE Full BY <1>0, <1>8 DEF Full
<1>9. CASE WriteHead BY <1>0, <1>9 DEF WriteHead, HeadDue, Forget
<1>10. CASE SkipHead BY <1>0, <1>10 DEF SkipHead
<1>11. CASE WriteByte BY <1>0, <1>11 DEF WriteByte
<1>12. CASE Flush BY <1>0, <1>12 DEF Flush
<1>13. CASE Close BY <1>0, <1>13 DEF Close
<1>14. CASE IdleFlush BY <1>0, <1>14 DEF IdleFlush
<1>15. CASE Wake BY <1>0, <1>15 DEF Wake
<1>16. CASE Tick BY <1>0, <1>16 DEF Tick
<1>17. CASE Stall BY <1>0, <1>17 DEF Stall, WireAssumption
<1>18. CASE Cancel BY <1>0, <1>18 DEF Cancel
<1>19. CASE UNCHANGED wireVars BY <1>0, <1>19 DEF wireVars
<1> QED BY <1>1, <1>2, <1>3, <1>4, <1>5, <1>6, <1>7, <1>8, <1>9, <1>10, <1>11, <1>12, <1>13, <1>14,
           <1>15, <1>16, <1>17, <1>18, <1>19 DEF WireNext

LEMMA InfoIs ==
  ASSUME NEW p, p.expect, p.body \in Nat
  PROVE  /\ Source(p)[1] = <<"info", 1>> /\ Source(p)[2] = <<"info", 2>>
         /\ Source(p)[3] = <<"generated", 1>> /\ Source(p)[4] = <<"generated", 2>>
         /\ Expected(p)[1] = Info[1] /\ Expected(p)[2] = Info[2]
BY DEF Source, Generated, Bytes, Info, Expected, Final

\* Once the buffer is empty, everything given to Hyper has left it.
LEMMA NothingBuffered ==
  ASSUME WireTypeOK, PlanIs, NEW c \in Nat, NEW w, Place(c, w), buf = <<>>
  PROVE  c = GenLen(plan) + Held /\ head # "none"
<1> DEFINE n == GenLen(plan) + Held
<1>1. GenLen(plan) \in Nat /\ Held \in Nat BY DEF PlanIs, WireTypeOK, Held
<1>2. n \in Nat /\ GenLen(plan) <= n BY <1>1
<1>3. c <= n /\ buf = From(Source(plan), c, n) /\ (head = "none" => c < GenLen(plan))
  BY DEF Place
<1> HIDE DEF n
<1>4. Len(buf) = n - c BY <1>2, <1>3, FromLen
<1>5. n - c = 0 BY <1>4
<1>6. c = n BY <1>2, <1>5
<1> QED BY <1>1, <1>2, <1>3, <1>6 DEF n

\* In the cut of an upload the head is out, and whatever is polled has been written.
LEMMA BodyStep ==
  ASSUME WireAssumption, WireInv, [WireNext]_wireVars
  PROVE  BodyInv'
<1> USE DEF BodyInv, pacing, writer, Direct, Outrun, BodyBytes, Unpaced
<1>0. WireTypeOK /\ BodyInv /\ PlanIs BY PlanKnown DEF WireInv, WireTypeOK
<1>1. CASE Cancelled BY <1>0, <1>1 DEF Cancelled, Polled
<1>2. CASE Sleep
  <2>1. mode = "poll" /\ mode' = "flush" /\ ended = "no"
        /\ UNCHANGED <<plan, offset, throttleAt, ended, elapsed, stalled, writer, complete,
                       flushed, cancelled>>
    BY <1>2 DEF Sleep, Pend, MayPoll, Polled
  <2>2. ~ Unpaced(plan)
    <3>1. MustJitter => plan.jitter # Null BY DEF MustJitter
    <3>2. GapEnd > elapsed => plan.gaps # Null BY <1>0 DEF WireTypeOK, GapEnd, Blocked
    <3> QED BY <1>2, <3>1, <3>2 DEF Sleep
  <2> QED BY <1>0, <2>1, <2>2
<1>3. CASE Throttle
  <2>1. mode = "poll" /\ mode' = "flush" /\ ended = "no"
        /\ UNCHANGED <<plan, offset, throttleAt, ended, elapsed, stalled, writer, complete,
                       flushed, cancelled>>
    BY <1>3 DEF Throttle, Pend, MayPoll, Polled
  <2>2. ~ Unpaced(plan) BY <1>0, <1>3 DEF Throttle, WireTypeOK
  <2> QED BY <1>0, <2>1, <2>2
<1>4. CASE Emit
  <2>1. /\ mode = "poll" /\ ended = "no" /\ offset < BodyBytes(plan)
        /\ UNCHANGED <<plan, elapsed, stalled, head, sent, wire, flushed, cancelled>>
        /\ offset' = NextChunk /\ wait' = Null
        /\ complete' = (complete \/ (plan.dir = "up" /\ offset' = plan.body))
        /\ ended' = IF offset' = plan.claimed THEN "done" ELSE ended
        /\ mode' = IF offset' = plan.claimed \/ Direct(plan) THEN "flush" ELSE "poll"
    BY <1>4 DEF Emit, MayPoll, Polled, More
  <2>2. offset' <= BodyBytes(plan) /\ (Direct(plan) => offset' <= plan.cut)
    BY <1>0, <2>1, ChunkIs
  <2>3. ~ complete BY <1>0, <2>1 DEF PlanIs, WireTypeOK
  <2>4. Unpaced(plan) => throttleAt' = 0 BY <1>0, <1>4 DEF Emit
  <2> QED BY <1>0, <2>1, <2>2, <2>3, <2>4
<1>5. CASE EndShort
  <2>1. /\ mode = "poll" /\ ended = "no" /\ ~ offset < BodyBytes(plan) /\ offset # plan.claimed
        /\ UNCHANGED <<plan, offset, throttleAt, elapsed, writer, flushed, complete>>
    BY <1>5 DEF EndShort, MayPoll, Polled, More
  <2>2. offset = plan.body /\ plan.body < plan.claimed
    BY <1>0, <2>1 DEF PlanIs, WireTypeOK
  <2>3. ~ Direct(plan) BY <1>0, <2>2 DEF PlanIs
  <2>4. \/ elapsed < 1 /\ mode' = "flush" /\ ended' = ended
        \/ ~ elapsed < 1 /\ mode' = "closed" /\ ended' = "short" /\ wait' = wait
    BY <1>5 DEF EndShort, Pend, FinishDelay
  <2>5. elapsed \in Nat BY <1>0 DEF WireTypeOK
  <2> QED BY <1>0, <2>1, <2>2, <2>3, <2>4, <2>5
<1>6. CASE EndEmpty
  <2>1. mode = "poll" /\ ended = "no" /\ ~ offset < BodyBytes(plan) /\ offset = plan.claimed
    BY <1>6 DEF EndEmpty, MayPoll, Polled, More
  <2> QED BY <1>0, <1>6, <2>1 DEF EndEmpty
<1>7. CASE CutOff
  <2>1. mode = "poll" /\ ended = "no" /\ Direct(plan) /\ offset >= plan.cut
    BY <1>7 DEF CutOff, MayPoll, Polled, AtCut
  <2>2. offset = plan.cut BY <1>0, <2>1 DEF WireTypeOK, PlanIs
  <2> QED BY <1>0, <1>7, <2>1, <2>2 DEF CutOff
<1>8. CASE Full BY <1>0, <1>8 DEF Full, Polled
<1>9. CASE WriteHead BY <1>0, <1>9 DEF WriteHead, HeadDue
<1>10. CASE SkipHead BY <1>0, <1>10 DEF SkipHead
<1>11. CASE WriteByte BY <1>0, <1>11 DEF WriteByte
<1>12. CASE Flush
  <2>1. mode = "flush" /\ buf = <<>> /\ ~ HeadDue /\ flushed' = (flushed \/ complete)
        /\ UNCHANGED <<plan, pacing, elapsed, stalled, head, sent, wire, complete, cancelled>>
        /\ IF ended = "no" THEN mode' = "rest" /\ buf' = buf ELSE mode' = "tail"
    BY <1>12 DEF Flush
  <2>2. head # "none"
    <3>1. PICK c, w \in Nat : Place(c, w) BY DEF WireInv, PlaceInv
    <3> QED BY <1>0, <2>1, <3>1, NothingBuffered
  <2>3. head = "final" /\ sent = 2
    <3>1. ~ (head = "info" /\ ~ sent < 2) BY DEF WireInv, PlaceInv, Place
    <3> QED BY <1>0, <2>1, <2>2, <3>1 DEF HeadDue, WireTypeOK
  <2>4. CASE ended = "no" BY <1>0, <2>1, <2>3, <2>4
  <2>5. CASE ended # "no" BY <1>0, <2>1, <2>3, <2>5
  <2> QED BY <2>4, <2>5
<1>13. CASE Close BY <1>0, <1>13 DEF Close
<1>14. CASE IdleFlush BY <1>0, <1>14 DEF IdleFlush
<1>15. CASE Wake BY <1>0, <1>15 DEF Wake
<1>16. CASE Tick BY <1>0, <1>16 DEF Tick
<1>17. CASE Stall BY <1>0, <1>17 DEF Stall
<1>18. CASE Cancel BY <1>0, <1>18 DEF Cancel
<1>19. CASE UNCHANGED wireVars BY <1>0, <1>19 DEF wireVars
<1> QED BY <1>1, <1>2, <1>3, <1>4, <1>5, <1>6, <1>7, <1>8, <1>9, <1>10, <1>11, <1>12, <1>13, <1>14,
           <1>15, <1>16, <1>17, <1>18, <1>19 DEF WireNext

\* Nothing is put into the buffer or taken out of it.
LEMMA PlaceStays ==
  ASSUME NEW c, NEW w, Place(c, w), Arrived(c, w),
         UNCHANGED <<plan, offset, elapsed, stalled, buf, head, sent, wire, flushed>>, Held' = Held,
         ended' = "done" /\ mode' = "closed" => ended = "done" /\ mode = "closed",
         ended' = "cut" => ended = "cut",
         mode' = "rest" /\ wait' # Null => mode = "rest" /\ wait # Null
  PROVE  Place(c, w)' /\ Arrived(c, w)'
<1>1. Place(c, w)' BY DEF Place
<1>2. Outrun' = Outrun BY DEF Outrun
<1>3. Arrived(c, w)' BY <1>2 DEF Arrived
<1> QED BY <1>1, <1>3

LEMMA PlaceQuiet ==
  ASSUME WireTypeOK, BodyInv, NEW c, NEW w, Place(c, w), Arrived(c, w),
         \/ Cancelled \/ Sleep \/ Throttle \/ EndShort \/ EndEmpty \/ Full \/ Wake \/ Cancel
         \/ UNCHANGED wireVars
  PROVE  Place(c, w)' /\ Arrived(c, w)'
<1> USE DEF pacing, writer, Held
<1>1. CASE Cancelled BY <1>1, PlaceStays DEF Cancelled, Polled
<1>2. CASE Sleep
  <2>1. mode = "poll" /\ mode' = "flush" /\ ended = "no"
        /\ UNCHANGED <<plan, offset, ended, elapsed, stalled, writer, flushed>>
    BY <1>2 DEF Sleep, Pend, MayPoll, Polled
  <2> QED BY <2>1, PlaceStays
<1>3. CASE Throttle
  <2>1. mode = "poll" /\ mode' = "flush" /\ ended = "no"
        /\ UNCHANGED <<plan, offset, ended, elapsed, stalled, writer, flushed>>
    BY <1>3 DEF Throttle, Pend, MayPoll, Polled
  <2> QED BY <2>1, PlaceStays
<1>4. CASE EndShort
  <2>1. mode = "poll" /\ mode' \in {"flush", "closed"} /\ ended = "no" /\ ended' \in {"no", "short"}
        /\ UNCHANGED <<plan, offset, elapsed, stalled, writer, flushed>>
    BY <1>4 DEF EndShort, Pend, MayPoll, Polled
  <2> QED BY <2>1, PlaceStays
<1>5. CASE EndEmpty BY <1>5, PlaceStays DEF EndEmpty, MayPoll, Polled
<1>6. CASE Full BY <1>6, PlaceStays DEF Full, Polled
<1>7. CASE Wake BY <1>7, PlaceStays DEF Wake, BodyInv
<1>8. CASE Cancel BY <1>8, PlaceStays DEF Cancel
<1>9. CASE UNCHANGED wireVars BY <1>9, PlaceStays DEF wireVars
<1> QED BY <1>1, <1>2, <1>3, <1>4, <1>5, <1>6, <1>7, <1>8, <1>9

LEMMA PlaceEmit ==
  ASSUME WireTypeOK, PlanIs, BodyInv, NEW c \in Nat, NEW w \in Nat, Place(c, w), Arrived(c, w), Emit
  PROVE  Place(c, w)' /\ Arrived(c, w)'
<1>1. /\ mode = "poll" /\ ended = "no" /\ offset < BodyBytes(plan)
      /\ UNCHANGED <<plan, elapsed, stalled, head, sent, wire, flushed>>
      /\ offset' = NextChunk
      /\ buf' = buf \o [i \in 1 .. NextChunk - offset |-> <<"byte", offset + i>>]
      /\ mode' \in {"poll", "flush"} /\ ended' \in {"no", "done"}
  BY DEF Emit, MayPoll, Polled, More
<1> DEFINE G == GenLen(plan)
<1>2. /\ G \in Nat /\ offset \in Nat /\ NextChunk \in Nat
      /\ offset <= NextChunk /\ NextChunk <= plan.body /\ plan.body \in Nat
  BY ChunkIs DEF PlanIs, WireTypeOK
<1>3. Held = offset /\ Held' = NextChunk BY <1>1 DEF Held
<1>4. c <= G + offset /\ buf = From(Source(plan), c, G + offset) BY <1>3 DEF Place
<1>5. buf' = From(Source(plan), c, G + NextChunk)
  <2> DEFINE b == G + offset
             e == G + NextChunk
             s == Source(plan)
  <2>1. \A i \in 1 .. plan.body : s[G + i] = <<"byte", i>> BY SourceIs DEF PlanIs
  <2>2. \A i \in 1 .. e - b : s[b + i] = <<"byte", offset + i>>
    <3> TAKE i \in 1 .. e - b
    <3>1. offset + i \in 1 .. plan.body /\ b + i = G + (offset + i) BY <1>2
    <3> QED BY <2>1, <3>1
  <2>3. e - b = NextChunk - offset BY <1>2
  <2>4. b \in Nat /\ e \in Nat /\ c <= b /\ b <= e BY <1>2, <1>4
  <2>5. buf = From(s, c, b) BY <1>4
  <2> HIDE DEF b, e, s, G
  <2>6. [i \in 1 .. NextChunk - offset |-> <<"byte", offset + i>>] = [i \in 1 .. e - b |-> s[b + i]]
    BY <2>2, <2>3
  <2>7. From(s, c, b) \o [i \in 1 .. e - b |-> s[b + i]] = From(s, c, e) BY <2>4, FromMore
  <2>8. buf' = buf \o [i \in 1 .. e - b |-> s[b + i]] BY <1>1, <2>6
  <2>9. buf' = From(s, c, e) BY <2>5, <2>7, <2>8
  <2> QED BY <2>9 DEF s, e, G
<1>6. c <= G + NextChunk BY <1>2, <1>4
<1>7. Place(c, w)' BY <1>1, <1>3, <1>5, <1>6 DEF Place, GenLen
<1>8. ~ (flushed /\ plan.body > 0)
  BY <1>1, <1>2 DEF BodyInv, PlanIs
<1>9. ~ (Unpaced(plan) /\ stalled = 0 /\ elapsed > 0)
  BY <1>1, <1>2 DEF Arrived, Outrun, PlanIs
<1>10. Arrived(c, w)' BY <1>1, <1>8, <1>9 DEF Arrived
<1> QED BY <1>7, <1>10

LEMMA PlaceOthers ==
  ASSUME WireTypeOK, PlanIs, BodyInv, NEW c \in Nat, NEW w \in Nat, Place(c, w), Arrived(c, w),
         CutOff \/ Flush \/ Close \/ IdleFlush \/ Tick \/ Stall
  PROVE  Place(c, w)' /\ Arrived(c, w)'
<1> DEFINE G == GenLen(plan)
<1>0. /\ G \in {2, 4} /\ offset \in Nat /\ plan.body \in Nat /\ elapsed \in Nat
      /\ offset <= plan.body
  BY DEF PlanIs, WireTypeOK
<1>1. head = "final" /\ sent = 2 => c = w BY DEF Place
<1>2. CASE CutOff
  <2>1. mode = "poll" /\ mode' = "closed" /\ ended = "no" /\ ended' = "cut" /\ Direct(plan) /\ offset >= plan.cut
        /\ UNCHANGED <<plan, offset, elapsed, stalled, buf, head, sent, wire, flushed>>
    BY <1>2 DEF CutOff, MayPoll, Polled, AtCut, writer
  <2>2. buf = <<>> /\ head = "final" /\ sent = 2 /\ offset = plan.cut
    BY <1>0, <2>1 DEF BodyInv, PlanIs
  <2>3. Held = offset /\ Held' = offset BY <2>1 DEF Held
  <2>4. w = G + plan.cut BY <1>1, <2>2, <2>3, NothingBuffered
  <2>5. Place(c, w)' BY <2>1, <2>3 DEF Place
  <2>6. Arrived(c, w)' BY <2>1, <2>4 DEF Arrived, Outrun
  <2> QED BY <2>5, <2>6
<1>3. CASE Flush
  <2>1. mode = "flush" /\ buf = <<>> /\ ~ HeadDue /\ flushed' = (flushed \/ complete)
        /\ UNCHANGED <<plan, pacing, elapsed, stalled, head, sent, wire, complete, cancelled>>
        /\ IF ended = "no" THEN mode' = "rest" /\ buf' = buf
           ELSE mode' = "tail" /\ buf' = SubSeq(Bytes(plan.body), plan.claimed + 1, plan.body)
    BY <1>3 DEF Flush
  <2>2. Held = offset BY <2>1 DEF Held
  <2>3. c = G + offset /\ head # "none" BY <2>1, <2>2, NothingBuffered
  <2>4. head = "final" /\ sent = 2
    <3>1. ~ (head = "info" /\ ~ sent < 2) BY DEF Place
    <3> QED BY <2>1, <2>3, <3>1 DEF HeadDue, WireTypeOK
  <2>5. c = w BY <1>1, <2>4
  <2>6. flushed' /\ plan.body > 0 => w = G + plan.body
    BY <2>1, <2>3, <2>5 DEF BodyInv
  <2>7. CASE ended = "no"
    <3>1. Held' = offset BY <2>1, <2>7 DEF Held, pacing
    <3>2. Place(c, w)' BY <2>1, <2>2, <2>7, <3>1 DEF Place
    <3>3. Arrived(c, w)' BY <2>1, <2>3, <2>5, <2>6, <2>7 DEF Arrived, Outrun, pacing
    <3> QED BY <3>2, <3>3
  <2>8. CASE ended # "no"
    <3>1. ended = "done" /\ offset = plan.claimed BY <2>1, <2>8 DEF BodyInv
    <3>2. Held' = plan.body BY <2>1, <2>8 DEF Held
    <3>3. buf' = From(Source(plan), G + offset, G + plan.body)
      <4>1. plan.expect \in BOOLEAN /\ plan.body \in Nat /\ offset \in 0 .. plan.body
        BY <1>0 DEF PlanIs
      <4>2. SubSeq(Bytes(plan.body), offset + 1, plan.body)
              = From(Source(plan), GenLen(plan) + offset, GenLen(plan) + plan.body)
        BY <4>1, RestIs
      <4>3. buf' = SubSeq(Bytes(plan.body), offset + 1, plan.body) BY <2>1, <2>8, <3>1
      <4> QED BY <4>2, <4>3
    <3>4. Place(c, w)'
      BY <1>0, <2>1, <2>3, <2>4, <2>5, <3>2, <3>3 DEF Place, GenLen
    <3>5. Arrived(c, w)' BY <2>1, <2>6, <2>8, <3>1 DEF Arrived, Outrun, pacing
    <3> QED BY <3>4, <3>5
  <2> QED BY <2>7, <2>8
<1>4. CASE Close
  <2>1. mode = "tail" /\ mode' = "closed" /\ buf = <<>>
        /\ UNCHANGED <<plan, pacing, elapsed, stalled, writer, flushed>>
    BY <1>4 DEF Close
  <2>2. ended = "done" /\ head = "final" /\ sent = 2 BY <2>1 DEF BodyInv
  <2>3. Held = plan.body /\ Held' = plan.body BY <2>1, <2>2 DEF Held, pacing
  <2>4. c = G + plan.body /\ w = c BY <1>1, <2>1, <2>2, <2>3, NothingBuffered
  <2>5. Place(c, w)' BY <2>1, <2>3 DEF Place, writer
  <2>6. Arrived(c, w)' BY <2>1, <2>2, <2>4 DEF Arrived, Outrun, pacing
  <2> QED BY <2>5, <2>6
<1>5. CASE IdleFlush
  <2>1. mode = "rest" /\ offset = 0 /\ flushed' = (flushed \/ complete)
        /\ UNCHANGED <<plan, pacing, elapsed, stalled, mode, writer>>
    BY <1>5 DEF IdleFlush
  <2>2. Held' = Held BY <2>1 DEF Held, pacing
  <2>3. flushed' => plan.body = 0 \/ flushed BY <2>1 DEF BodyInv
  <2>4. Place(c, w)' BY <2>1, <2>2 DEF Place, writer
  <2>5. Arrived(c, w)' BY <1>0, <2>1, <2>3 DEF Arrived, Outrun, pacing
  <2> QED BY <2>4, <2>5
<1>6. CASE Tick
  <2>1. mode = "rest" /\ wait # Null /\ elapsed' = elapsed + 1
        /\ UNCHANGED <<plan, pacing, stalled, mode, writer, flushed>>
    BY <1>6 DEF Tick, Awake
  <2>2. Held' = Held BY <2>1 DEF Held, pacing
  <2>3. Place(c, w)' BY <2>1, <2>2 DEF Place, writer
  <2>4. Unpaced(plan) /\ stalled = 0 => Outrun /\ w = G + offset
    BY <2>1 DEF Arrived, BodyInv
  <2>5. Arrived(c, w)' BY <2>1, <2>4 DEF Arrived, Outrun, pacing
  <2> QED BY <2>3, <2>5
<1>7. CASE Stall
  <2>1. stalled' # 0 /\ UNCHANGED <<plan, pacing, mode, writer, flushed>>
    BY <1>7 DEF Stall, WireTypeOK
  <2>2. Held' = Held BY <2>1 DEF Held, pacing
  <2>3. Place(c, w)' BY <2>1, <2>2 DEF Place, writer
  <2>4. Arrived(c, w)' BY <2>1 DEF Arrived, pacing
  <2> QED BY <2>3, <2>4
<1> QED BY <1>2, <1>3, <1>4, <1>5, <1>6, <1>7

\* What leaves the buffer is the next part or byte of the source.
LEMMA BufferHead ==
  ASSUME WireTypeOK, PlanIs, NEW c \in Nat, NEW w, Place(c, w), buf # <<>>
  PROVE  /\ c < GenLen(plan) + Held /\ Held \in Nat /\ Held <= plan.body
         /\ Head(buf) = Source(plan)[c + 1]
         /\ Tail(buf) = From(Source(plan), c + 1, GenLen(plan) + Held)
<1> DEFINE n == GenLen(plan) + Held
           s == Source(plan)
<1>1. GenLen(plan) \in Nat /\ Held \in Nat /\ Held <= plan.body /\ plan.body \in Nat
  BY DEF PlanIs, WireTypeOK, Held
<1>2. n \in Nat /\ c <= n /\ buf = From(s, c, n) BY <1>1 DEF Place
<1>3. s \in Seq(Parts) /\ n <= Len(s)
  <2>1. plan.expect \in BOOLEAN BY DEF PlanIs
  <2>2. s \in Seq(Parts) /\ Len(s) = GenLen(plan) + plan.body
    BY <1>1, <2>1, PartsTyped, SourceLen
  <2> QED BY <1>1, <2>2
<1>4. c # n
  <2> SUFFICES ASSUME c = n PROVE FALSE OBVIOUS
  <2>1. From(s, n, n) = <<>> BY <1>2 DEF From
  <2> QED BY <1>2, <2>1
<1> HIDE DEF n, s
<1>5. c < n BY <1>2, <1>4
<1>6. Tail(buf) = From(s, c + 1, n) /\ Head(buf) = s[c + 1]
  BY <1>2, <1>3, <1>5, FromTail
<1> QED BY <1>1, <1>5, <1>6 DEF n, s

LEMMA PlaceWriteByte ==
  ASSUME WireTypeOK, PlanIs, BodyInv, NEW c \in Nat, NEW w \in Nat, Place(c, w), Arrived(c, w),
         WriteByte
  PROVE  Place(c + 1, w + 1)' /\ Arrived(c + 1, w + 1)'
<1> DEFINE G == GenLen(plan)
<1>1. /\ mode \in {"flush", "tail"} /\ head # "none" /\ ~ HeadDue /\ buf # <<>>
      /\ wire' = Append(wire, Head(buf)) /\ buf' = Tail(buf)
      /\ UNCHANGED <<plan, pacing, elapsed, stalled, mode, head, sent, complete, flushed, cancelled>>
  BY DEF WriteByte
<1>2. head = "final" /\ sent = 2
  <2>1. ~ (head = "info" /\ ~ sent < 2) BY DEF Place
  <2> QED BY <1>1, <2>1 DEF HeadDue, WireTypeOK
<1>3. c = w /\ G <= c /\ G \in Nat /\ plan.body \in Nat BY <1>2 DEF Place, PlanIs
<1>4. /\ c < G + Held /\ Held \in Nat /\ Held <= plan.body
      /\ Head(buf) = Source(plan)[c + 1] /\ buf' = From(Source(plan), c + 1, G + Held)
  BY <1>1, BufferHead
<1>5. Held' = Held BY <1>1 DEF Held, pacing
<1>6. Source(plan)[c + 1] = Expected(plan)[w + 1]
  <2>1. plan.expect \in BOOLEAN BY DEF PlanIs
  <2>2. (c + 1) - G \in 1 .. plan.body /\ c + 1 = G + ((c + 1) - G) BY <1>3, <1>4
  <2>3. Source(plan)[G + ((c + 1) - G)] = <<"byte", (c + 1) - G>>
    BY <1>3, <2>1, <2>2, SourceIs
  <2>4. Expected(plan)[G + ((c + 1) - G)] = <<"byte", (c + 1) - G>>
    BY <1>3, <2>1, <2>2, ExpectedIs
  <2> QED BY <1>3, <2>2, <2>3, <2>4
<1>7. wire' = From(Expected(plan), 0, w + 1)
  <2>1. wire = From(Expected(plan), 0, w) BY DEF Place
  <2> QED BY <1>1, <1>4, <1>6, <2>1, FromAppend
<1>8. Place(c + 1, w + 1)'
  BY <1>1, <1>2, <1>3, <1>4, <1>5, <1>7 DEF Place
<1>9. Held = offset \/ (mode = "tail" /\ Held = plan.body /\ ended = "done" /\ offset = plan.claimed)
  BY <1>1 DEF Held, BodyInv
<1>10. ~ (flushed /\ plan.body > 0) BY <1>3, <1>4 DEF Arrived
<1>11. ended # "cut" BY <1>1 DEF BodyInv
<1>12. ~ (Unpaced(plan) /\ stalled = 0 /\ elapsed > 0)
  BY <1>3, <1>4, <1>9 DEF Arrived, Outrun, PlanIs, WireTypeOK
<1>13. Arrived(c + 1, w + 1)'
  BY <1>1, <1>10, <1>11, <1>12 DEF Arrived, pacing
<1> QED BY <1>8, <1>13

\* As long as the head is on its way, nothing has arrived that the end is judged by.
LEMMA HeadOnItsWay ==
  ASSUME WireTypeOK, PlanIs, BodyInv, NEW c, NEW w \in Nat, Arrived(c, w), NEW d, NEW v,
         mode \in {"flush", "tail"}, w < GenLen(plan),
         UNCHANGED <<plan, offset, wait, ended, elapsed, stalled, mode, flushed>>
  PROVE  Arrived(d, v)'
<1>1. GenLen(plan) \in Nat /\ plan.body \in Nat /\ offset \in Nat BY DEF WireTypeOK, PlanIs
<1>2. ~ (flushed /\ plan.body > 0) BY <1>1 DEF Arrived
<1>3. ended # "cut" BY DEF BodyInv
<1>4. ~ (Unpaced(plan) /\ stalled = 0 /\ elapsed > 0) BY <1>1 DEF Arrived
<1> QED BY <1>2, <1>3, <1>4 DEF Arrived

LEMMA PlaceWriteHead ==
  ASSUME WireTypeOK, PlanIs, BodyInv, NEW c \in Nat, NEW w \in Nat, Place(c, w), Arrived(c, w),
         WriteHead
  PROVE  Place(c, w + 1)' /\ Arrived(c, w + 1)'
<1> DEFINE G == GenLen(plan)
<1>1. /\ mode \in {"flush", "tail"} /\ head # "none" /\ sent < 2
      /\ wire' = Append(wire, Canonical[sent + 1])
      /\ IF head = "info" /\ sent = 1 THEN head' = "none" /\ sent' = 0
         ELSE sent' = sent + 1 /\ head' = head
      /\ UNCHANGED <<plan, pacing, elapsed, stalled, mode, buf, complete, flushed, cancelled>>
  BY DEF WriteHead, HeadDue, Forget
<1>2. sent \in {0, 1} /\ G \in {2, 4} /\ (G = 4 <=> plan.expect) /\ plan.expect \in BOOLEAN
      /\ plan.body \in Nat
  BY <1>1 DEF WireTypeOK, PlanIs
<1>3. Held' = Held BY <1>1 DEF Held, pacing
<1>4. wire = From(Expected(plan), 0, w) BY DEF Place
<1>5. CASE head = "info"
  <2>1. plan.expect /\ c = 2 /\ w = sent BY <1>5 DEF Place
  <2>2. Canonical[sent + 1] = Expected(plan)[w + 1]
    <3>1. Expected(plan)[1] = Info[1] /\ Expected(plan)[2] = Info[2]
      BY <1>2, <2>1, InfoIs
    <3>2. Canonical = Info BY <1>5 DEF Canonical
    <3> QED BY <1>2, <2>1, <3>1, <3>2
  <2>3. wire' = From(Expected(plan), 0, w + 1) BY <1>1, <1>4, <2>2, FromAppend
  <2>4. Place(c, w + 1)' BY <1>1, <1>2, <1>3, <1>5, <2>1, <2>3 DEF Place, GenLen
  <2>5. w < G BY <1>2, <2>1
  <2> QED BY <1>1, <2>4, <2>5, HeadOnItsWay DEF pacing
<1>6. CASE head = "final"
  <2>1. c = G /\ w = G - 2 + sent BY <1>1, <1>6 DEF Place
  <2>2. Canonical[sent + 1] = Expected(plan)[w + 1]
    <3>1. Expected(plan)[G - 1] = Final[1] /\ Expected(plan)[G] = Final[2]
      BY <1>2, ExpectedIs
    <3>2. Canonical = Final BY <1>6 DEF Canonical
    <3> QED BY <1>2, <2>1, <3>1, <3>2
  <2>3. wire' = From(Expected(plan), 0, w + 1) BY <1>1, <1>4, <2>2, FromAppend
  <2>4. Place(c, w + 1)' BY <1>1, <1>2, <1>3, <1>6, <2>1, <2>3 DEF Place, GenLen
  <2>5. w < G BY <1>2, <2>1
  <2> QED BY <1>1, <2>4, <2>5, HeadOnItsWay DEF pacing
<1> QED BY <1>1, <1>5, <1>6 DEF WireTypeOK

LEMMA PlaceSkipHead ==
  ASSUME WireTypeOK, PlanIs, BodyInv, NEW c \in Nat, NEW w \in Nat, Place(c, w), Arrived(c, w),
         SkipHead
  PROVE  Place(c + 1, w)' /\ Arrived(c + 1, w)'
<1> DEFINE G == GenLen(plan)
<1>1. /\ mode = "flush" /\ head = "none" /\ buf # <<>> /\ buf' = Tail(buf)
      /\ head' = CASE Head(buf) = <<"info", 2>> -> "info"
                   [] Head(buf) = <<"generated", 2>> -> "final"
                   [] OTHER -> head
      /\ UNCHANGED <<plan, pacing, elapsed, stalled, mode, sent, wire, complete, flushed, cancelled>>
  BY DEF SkipHead
<1>2. /\ sent = 0 /\ c < G /\ w = IF c < 2 THEN 0 ELSE 2
      /\ G \in {2, 4} /\ (G = 4 <=> plan.expect) /\ plan.expect \in BOOLEAN /\ plan.body \in Nat
  BY <1>1 DEF Place, PlanIs
<1>3. Held' = Held BY <1>1 DEF Held, pacing
<1>4. /\ c < G + Held /\ Held \in Nat
      /\ Head(buf) = Source(plan)[c + 1] /\ buf' = From(Source(plan), c + 1, G + Held)
  BY <1>1, BufferHead
<1>5. head' = IF plan.expect /\ c = 1 THEN "info" ELSE IF c + 1 = G THEN "final" ELSE "none"
  <2>1. CASE plan.expect
    <3>1. c \in {0, 1, 2, 3} /\ G = 4 BY <1>2, <2>1
    <3>2. /\ Source(plan)[1] = <<"info", 1>> /\ Source(plan)[2] = <<"info", 2>>
          /\ Source(plan)[3] = <<"generated", 1>> /\ Source(plan)[4] = <<"generated", 2>>
      BY <1>2, <2>1, InfoIs
    <3>3. CASE c = 0
      <4>1. Head(buf) = <<"info", 1>> BY <1>4, <3>2, <3>3
      <4> QED BY <1>1, <3>1, <3>3, <4>1
    <3>4. CASE c = 1
      <4>1. Head(buf) = <<"info", 2>> BY <1>4, <3>2, <3>4
      <4> QED BY <1>1, <2>1, <3>1, <3>4, <4>1
    <3>5. CASE c = 2
      <4>1. Head(buf) = <<"generated", 1>> BY <1>4, <3>2, <3>5
      <4> QED BY <1>1, <3>1, <3>5, <4>1
    <3>6. CASE c = 3
      <4>1. Head(buf) = <<"generated", 2>> BY <1>4, <3>2, <3>6
      <4> QED BY <1>1, <3>1, <3>6, <4>1
    <3> QED BY <3>1, <3>3, <3>4, <3>5, <3>6
  <2>2. CASE ~ plan.expect
    <3>1. c \in {0, 1} /\ G = 2 BY <1>2, <2>2
    <3>2. Source(plan)[1] = <<"generated", 1>> /\ Source(plan)[2] = <<"generated", 2>>
      BY <1>2, <2>2, SourceIs
    <3>3. CASE c = 0
      <4>1. Head(buf) = <<"generated", 1>> BY <1>4, <3>2, <3>3
      <4> QED BY <1>1, <2>2, <3>1, <3>3, <4>1
    <3>4. CASE c = 1
      <4>1. Head(buf) = <<"generated", 2>> BY <1>4, <3>2, <3>4
      <4> QED BY <1>1, <2>2, <3>1, <3>4, <4>1
    <3> QED BY <3>1, <3>3, <3>4
  <2> QED BY <1>2, <2>1, <2>2
<1>6. wire' = From(Expected(plan), 0, w) BY <1>1 DEF Place
<1>7. Place(c + 1, w)'
  <2>1. plan' = plan /\ sent' = 0 /\ GenLen(plan)' = G BY <1>1, <1>2 DEF GenLen
  <2>2. c + 1 <= G + Held BY <1>2, <1>4
  <2>3. head' = "none" => c + 1 < G /\ w = IF c + 1 < 2 THEN 0 ELSE 2
    BY <1>2, <1>5
  <2>4. head' = "info" => plan.expect /\ c + 1 = 2 /\ w = 0 BY <1>2, <1>5
  <2>5. head' = "final" => c + 1 = G /\ w = G - 2 BY <1>2, <1>5
  <2> HIDE DEF G
  <2> QED BY <1>2, <1>3, <1>4, <1>6, <2>1, <2>2, <2>3, <2>4, <2>5 DEF Place
<1>8. w < G BY <1>2
<1> QED BY <1>1, <1>7, <1>8, HeadOnItsWay DEF pacing

LEMMA PlaceStep ==
  ASSUME WireAssumption, WireInv, [WireNext]_wireVars
  PROVE  PlaceInv'
<1>0. WireTypeOK /\ BodyInv /\ PlanIs BY PlanKnown DEF WireInv, WireTypeOK
<1>1. PICK c, w \in Nat : Place(c, w) /\ Arrived(c, w)
  BY DEF WireInv, PlaceInv
<1>2. c \in Nat /\ w \in Nat OBVIOUS
<1>3. \E d, v \in Nat : Place(d, v)' /\ Arrived(d, v)'
  <2>1. CASE \/ Cancelled \/ Sleep \/ Throttle \/ EndShort \/ EndEmpty \/ Full \/ Wake \/ Cancel
             \/ UNCHANGED wireVars
    BY <1>0, <1>1, <1>2, <2>1, PlaceQuiet
  <2>2. CASE Emit BY <1>0, <1>1, <1>2, <2>2, PlaceEmit
  <2>3. CASE CutOff \/ Flush \/ Close \/ IdleFlush \/ Tick \/ Stall
    BY <1>0, <1>1, <1>2, <2>3, PlaceOthers
  <2>4. CASE WriteByte
    <3>1. c + 1 \in Nat /\ w + 1 \in Nat BY <1>2
    <3> QED BY <1>0, <1>1, <1>2, <2>4, <3>1, PlaceWriteByte
  <2>5. CASE WriteHead
    <3>1. w + 1 \in Nat BY <1>2
    <3> QED BY <1>0, <1>1, <1>2, <2>5, <3>1, PlaceWriteHead
  <2>6. CASE SkipHead
    <3>1. c + 1 \in Nat BY <1>2
    <3> QED BY <1>0, <1>1, <1>2, <2>6, <3>1, PlaceSkipHead
  <2> QED BY <2>1, <2>2, <2>3, <2>4, <2>5, <2>6 DEF WireNext
<1> QED BY <1>3 DEF PlaceInv

LEMMA WireInitInv == ASSUME WireAssumption, WireInit PROVE WireInv
<1>0. plan \in Plans BY DEF WireInit
<1>1. PlanIs BY <1>0, PlanKnown
<1>2. complete = (plan.dir = "up" /\ plan.body = 0) BY DEF WireInit
<1>3. complete \in BOOLEAN /\ (complete => plan.dir = "up" /\ plan.body = 0) BY <1>2
<1>4. head \in {"none", "final"} /\ sent \in {0, 2} BY DEF WireInit
<1>5. WireTypeOK
  <2>1. /\ offset = 0 /\ elapsed = 0 /\ stalled = 0 /\ wait = Null /\ throttleAt = 0
        /\ jittered = -2 /\ ended = "no" /\ mode = "rest"
        /\ flushed \in BOOLEAN /\ cancelled \in BOOLEAN
    BY DEF WireInit
  <2>2. plan.body \in Nat /\ MaxStall \in Nat BY <1>1 DEF PlanIs, WireAssumption
  <2> QED BY <1>0, <1>3, <1>4, <2>1, <2>2 DEF WireTypeOK
<1>6. BodyInv
  <2>1. Direct(plan) => head = "final" /\ sent = 2 /\ buf = <<>> BY DEF WireInit
  <2>2. offset = 0 /\ wait = Null /\ throttleAt = 0 /\ ended = "no" /\ mode = "rest" /\ ~ flushed
    BY DEF WireInit
  <2>3. 0 <= BodyBytes(plan) /\ (Direct(plan) => 0 <= plan.cut) BY <1>1 DEF PlanIs
  <2> QED BY <1>3, <2>1, <2>2, <2>3 DEF BodyInv
<1>7. PlaceInv
  <2> DEFINE G == GenLen(plan)
  <2>0. Held = 0 BY <1>6 DEF WireInit, Held
  <2>1. G \in {2, 4} /\ plan.expect \in BOOLEAN /\ plan.body \in Nat BY <1>1 DEF PlanIs
  <2>2. \A c, w : Arrived(c, w) BY <1>6 DEF Arrived, WireInit, BodyInv
  <2>3. CASE Direct(plan)
    <3>1. buf = <<>> /\ head = "final" /\ sent = 2 /\ wire = Final BY <2>3 DEF WireInit
    <3>2. ~ plan.expect /\ G = 2 BY <1>1, <2>3 DEF PlanIs
    <3>3. 0 \in 0 .. plan.body BY <2>1
    <3>4. From(Expected(plan), 0, G + 0) = Final \o Bytes(0) BY <2>1, <3>2, <3>3, CutIs
    <3>5. Final \o Bytes(0) = Final
      <4>1. Bytes(0) = <<>> BY DEF Bytes
      <4>2. Final \in Seq(Parts) BY <2>1, PartsTyped
      <4> QED BY <4>1, <4>2, ConcatEmptySeq
    <3>6. From(Source(plan), 2, 2) = <<>> BY DEF From
    <3>7. Place(2, 2) BY <2>0, <3>1, <3>2, <3>4, <3>5, <3>6 DEF Place
    <3> QED BY <2>2, <3>7 DEF PlaceInv
  <2>4. CASE ~ Direct(plan)
    <3>1. buf = Generated(plan) /\ head = "none" /\ sent = 0 /\ wire = <<>> BY <2>4 DEF WireInit
    <3>2. Generated(plan) = From(Source(plan), 0, G)
      <4> DEFINE g == Generated(plan)
                 s == Source(plan)
      <4>1. g \in Seq(Parts) /\ Len(g) = G BY <2>1, PartsTyped
      <4>2. s \in Seq(Parts) /\ Len(s) = G + plan.body BY <2>1, PartsTyped, SourceLen
      <4>3. Bytes(plan.body) \in Seq(Parts) BY <2>1, PartsTyped
      <4>4. \A i \in 1 .. G : s[i] = g[i]
        <5>1. s = g \o Bytes(plan.body) BY DEF Source
        <5>2. Len(Bytes(plan.body)) = plan.body BY <2>1, PartsTyped
        <5> HIDE DEF g, s
        <5>3. \A i \in 1 .. Len(g) + Len(Bytes(plan.body)) :
                 (g \o Bytes(plan.body))[i] = IF i <= Len(g) THEN g[i] ELSE Bytes(plan.body)[i - Len(g)]
          BY <4>1, <4>3, ConcatProperties
        <5> QED BY <2>1, <4>1, <5>1, <5>2, <5>3
      <4>5. G \in 0 .. Len(s) BY <2>1, <4>2
      <4> HIDE DEF g, s
      <4>6. From(s, 0, G) \in Seq(Parts) /\ Len(From(s, 0, G)) = G BY <4>2, <4>5, FromSeq
      <4>7. \A i \in 1 .. G : From(s, 0, G)[i] = s[i] BY <2>1 DEF From
      <4>8. From(s, 0, G) = g BY <4>1, <4>4, <4>6, <4>7, SeqEqual
      <4> QED BY <4>8 DEF g, s
    <3>3. From(Expected(plan), 0, 0) = <<>> BY DEF From
    <3>4. Place(0, 0) BY <2>0, <2>1, <3>1, <3>2, <3>3 DEF Place
    <3> QED BY <2>2, <3>4 DEF PlaceInv
  <2> QED BY <2>3, <2>4
<1> QED BY <1>5, <1>6, <1>7 DEF WireInv

THEOREM WireInvariant == ASSUME WireAssumption PROVE WireSpec => []WireInv
<1>1. WireInit => WireInv BY WireInitInv
<1>2. WireInv /\ [WireNext]_wireVars => WireInv'
  BY WireTypesStep, BodyStep, PlaceStep DEF WireInv
<1> QED BY <1>1, <1>2, PTL DEF WireSpec

\* A prefix of what is expected, whatever its length.
LEMMA WireIsPrefix ==
  ASSUME PlanIs, NEW w \in Nat, w <= GenLen(plan) + plan.body, wire = From(Expected(plan), 0, w)
  PROVE  InOrder
<1> DEFINE e == Expected(plan)
<1>1. e \in Seq(Parts) /\ Len(e) = GenLen(plan) + plan.body
  <2>1. plan.expect \in BOOLEAN /\ plan.body \in Nat BY DEF PlanIs
  <2> QED BY <2>1, PartsTyped, ExpectedIs
<1>2. w \in 0 .. Len(e) BY <1>1
<1> HIDE DEF e
<1>3. wire \in Seq(Parts) /\ Len(wire) = w BY <1>1, <1>2, FromSeq DEF e
<1>4. SubSeq(wire, 1, Len(wire)) = SubSeq(e, 1, Len(wire))
  <2>1. \A i \in 1 .. w : wire[i] = e[i] BY DEF From, e
  <2>2. SubSeq(wire, 1, w) = [i \in 1 .. w |-> wire[i]] BY <1>3
  <2>3. SubSeq(e, 1, w) = [i \in 1 .. w |-> e[i]] BY <1>1
  <2> QED BY <1>3, <2>1, <2>2, <2>3
<1> QED BY <1>2, <1>3, <1>4 DEF InOrder, IsPrefix, e

LEMMA PlaceBounds ==
  ASSUME WireTypeOK, PlanIs, NEW c \in Nat, NEW w \in Nat, Place(c, w)
  PROVE  w <= GenLen(plan) + plan.body
<1>1. /\ GenLen(plan) \in {2, 4} /\ Held \in Nat /\ Held <= plan.body /\ plan.body \in Nat
      /\ (GenLen(plan) = 4 <=> plan.expect) /\ sent \in 0 .. 2 /\ head \in {"none", "info", "final"}
  BY DEF PlanIs, WireTypeOK, Held
<1>2. c <= GenLen(plan) + plan.body BY <1>1 DEF Place
<1> QED BY <1>1, <1>2 DEF Place

(* Whatever is cut off, stalled, paced or split, the peer reads the 1xx heads, the *)
(* canonical head and the body in this order, each byte once, for any message,     *)
(* schedule and chunking.                                                          *)
THEOREM BytesInOrder == ASSUME WireAssumption PROVE WireSpec => []InOrder
<1>1. WireInv => InOrder
  <2> SUFFICES ASSUME WireInv PROVE InOrder OBVIOUS
  <2>0. WireTypeOK /\ PlanIs BY PlanKnown DEF WireInv, WireTypeOK
  <2>1. PICK c, w \in Nat : Place(c, w) BY DEF WireInv, PlaceInv
  <2>2. w <= GenLen(plan) + plan.body BY <2>0, <2>1, PlaceBounds
  <2>3. wire = From(Expected(plan), 0, w) BY <2>1 DEF Place
  <2> QED BY <2>0, <2>1, <2>2, <2>3, WireIsPrefix
<1> QED BY <1>1, WireInvariant, PTL

(* A body that ends says how much of it the peer has: all of it at the close of a   *)
(* complete message and when a request is reported as flushed, the bytes before the *)
(* cut, and all there is of a short one that is neither paced nor stalled.          *)
THEOREM EndsTellTheTruth == ASSUME WireAssumption PROVE WireSpec => []EndsAreTrue
<1>1. WireInv => EndsAreTrue
  <2> SUFFICES ASSUME WireInv PROVE EndsAreTrue OBVIOUS
  <2>0. WireTypeOK /\ BodyInv /\ PlanIs BY PlanKnown DEF WireInv, WireTypeOK
  <2>1. PICK c, w \in Nat : Place(c, w) /\ Arrived(c, w) BY DEF WireInv, PlaceInv
  <2>2. wire = From(Expected(plan), 0, w) BY <2>1 DEF Place
  <2>3. plan.expect \in BOOLEAN /\ plan.body \in Nat /\ GenLen(plan) \in Nat BY <2>0 DEF PlanIs
  <2>4. w = GenLen(plan) + plan.body => wire = Expected(plan) BY <2>2, <2>3, AllExpected
  <2>5. ended = "cut" => wire = Final \o Bytes(plan.cut)
    <3> SUFFICES ASSUME ended = "cut" PROVE wire = Final \o Bytes(plan.cut) OBVIOUS
    <3>1. Direct(plan) BY <2>0 DEF BodyInv
    <3>2. ~ plan.expect /\ plan.cut \in 0 .. plan.body BY <2>0, <2>3, <3>1 DEF PlanIs
    <3>3. w = GenLen(plan) + plan.cut BY <2>1 DEF Arrived
    <3>4. From(Expected(plan), 0, GenLen(plan) + plan.cut) = Final \o Bytes(plan.cut)
      <4>1. plan.cut \in 0 .. plan.body /\ ~ plan.expect BY <3>2
      <4>2. PICK k \in 0 .. plan.body : k = plan.cut BY <4>1
      <4>3. plan.expect \in BOOLEAN BY <2>3
      <4>4. plan.body \in Nat BY <2>3
      <4>5. From(Expected(plan), 0, GenLen(plan) + k) = Final \o Bytes(k)
        BY <4>1, <4>3, <4>4, CutIs
      <4> QED BY <4>2, <4>5
    <3> QED BY <2>2, <3>3, <3>4
  <2>6. ended = "short" /\ Unpaced(plan) /\ stalled = 0 => wire = Expected(plan)
    <3> SUFFICES ASSUME ended = "short", Unpaced(plan), stalled = 0 PROVE wire = Expected(plan) OBVIOUS
    <3>1. offset = plan.body /\ elapsed > 0 BY <2>0 DEF BodyInv
    <3>2. w = GenLen(plan) + offset BY <2>1, <3>1 DEF Arrived
    <3> QED BY <2>4, <3>1, <3>2
  <2> QED BY <2>1, <2>4, <2>5, <2>6 DEF EndsAreTrue, Arrived
<1> QED BY <1>1, WireInvariant, PTL

-----------------------------------------------------------------------------
(* What the schedule may cost. *)

Pace(p, len) == IF p.throttle = Null THEN 0 ELSE Rate(p, len)
Draw(p) == IF p.jitter = Null THEN 0 ELSE p.jitter.max
Gap(p) == IF p.gaps = Null THEN 0 ELSE p.gaps.blocked

\* There is a chunk to hand out.
Due == More /\ ~ AtCut
Chunk == ChunkBytes(plan, BodyBytes(plan))

\* So much time k chunks and m draws may have taken, what the peer stalled included.
Allowed(k, m) == Pace(plan, offset) + Draw(plan) * m + Gap(plan) * k + stalled

\* k chunks are out, for which there were at most m draws.
Counted(k, m) ==
  /\ k <= Chunks(plan, plan.body)
  /\ Due => offset = k * Chunk
  /\ plan.jitter # Null =>
       IF plan.jitter.each
       THEN /\ m <= IF jittered = offset THEN k + 1 ELSE k
            /\ jittered = offset => Due
       ELSE m <= IF jittered = -1 THEN 1 ELSE 0

\* A body that sleeps beyond what is allowed does so for the gap of the next chunk.
Overslept(a) ==
  /\ plan.gaps # Null /\ Due /\ ~ MustJitter
  /\ wait <= a + Gap(plan) /\ wait % Cycle = 0

Punctual(a) ==
  /\ throttleAt <= a
  /\ elapsed <= a \/ (mode # "flush" /\ wait # Null /\ elapsed <= wait)
  /\ wait # Null => wait <= a \/ (wait = FinishDelay /\ Outrun) \/ Overslept(a)
  /\ wait # Null /\ mode \in {"rest", "poll"} => buf = <<>>

Paced(k, m) == Counted(k, m) /\ Punctual(Allowed(k, m))

TimeInv == \E k, m \in Nat : Paced(k, m)

-----------------------------------------------------------------------------
\* What the proofs need to know of the schedule.
PaceIs ==
  /\ Draw(plan) \in Nat /\ Gap(plan) \in Nat
  /\ plan.jitter # Null => /\ plan.jitter.min \in Nat /\ plan.jitter.each \in BOOLEAN
                           /\ plan.jitter.max = Draw(plan)
  /\ plan.gaps # Null => Cycle \in Nat \ {0} /\ Cycle = plan.gaps.available + Gap(plan)
                         /\ plan.gaps.available \in Nat \ {0}
  /\ \A n \in Nat : Pace(plan, n) \in Nat
  /\ \A a, b \in Nat : Pace(plan, a) + Pace(plan, b) <= Pace(plan, a + b)
  /\ Chunk \in Nat /\ (BodyBytes(plan) > 0 => Chunk > 0)
  /\ Chunks(plan, plan.body) \in Nat
  /\ \A k \in Nat : k * Chunk < BodyBytes(plan) => k + 1 <= Chunks(plan, plan.body)

LEMMA DivAdds ==
  ASSUME NEW x \in Nat, NEW y \in Nat, NEW d \in Nat \ {0}
  PROVE  x \div d \in Nat /\ (x \div d) + (y \div d) <= (x + y) \div d
<1>1. PICK q \in Nat, r \in 0 .. d - 1 : x = d * q + r /\ x \div d = q
  <2>1. x \div d \in Nat /\ x % d \in 0 .. d - 1 /\ x = d * (x \div d) + (x % d) OBVIOUS
  <2> QED BY <2>1
<1>2. PICK t \in Nat, u \in 0 .. d - 1 : y = d * t + u /\ y \div d = t
  <2>1. y \div d \in Nat /\ y % d \in 0 .. d - 1 /\ y = d * (y \div d) + (y % d) OBVIOUS
  <2> QED BY <2>1
<1>3. PICK n \in Nat : n = q + t OBVIOUS
<1>4. d * n <= x + y
  <2>1. d * n = d * q + d * t BY <1>3
  <2> QED BY <1>1, <1>2, <2>1
<1>5. n <= (x + y) \div d
  <2>1. PICK s \in Nat : s = x + y OBVIOUS
  <2>2. d * n <= s BY <1>4, <2>1
  <2>3. n <= s \div d BY <2>2
  <2> QED BY <2>1, <2>3
<1> QED BY <1>1, <1>2, <1>3, <1>5

\* k full chunks that do not make up the body leave room for one more.
LEMMA RoomForOne ==
  ASSUME NEW b \in Nat, NEW c \in Nat \ {0}, NEW k \in Nat, k * c < b
  PROVE  k + 1 <= (b + c - 1) \div c
<1>1. PICK n \in Nat : n = k + 1 OBVIOUS
<1>2. PICK x \in Nat : x = b + c - 1 OBVIOUS
<1>3. c * n <= x BY <1>1, <1>2
<1>4. n <= x \div c BY <1>3
<1> QED BY <1>1, <1>2, <1>4

\* Where a cycle ends the next one begins.
LEMMA CycleEnd ==
  ASSUME NEW e \in Nat, NEW c \in Nat \ {0}
  PROVE  e % c \in 0 .. c - 1 /\ (e + c - (e % c)) % c = 0
<1>1. e % c \in 0 .. c - 1 /\ e \div c \in Nat /\ e = c * (e \div c) + (e % c) OBVIOUS
<1>2. PICK q \in Nat : q = e \div c BY <1>1
<1>3. PICK n \in Nat : n = q + 1 OBVIOUS
<1>4. (c * n) % c = 0 OBVIOUS
<1>5. e + c - (e % c) = c * n BY <1>1, <1>2, <1>3
<1> QED BY <1>1, <1>4, <1>5

LEMMA PaceKnown == ASSUME WireAssumption, plan \in Plans PROVE PaceIs
<1>1. IsPlan(plan) /\ IsSchedule(plan) /\ PlanIs BY PlanKnown DEF WireAssumption, IsPlan
<1>2. /\ Draw(plan) \in Nat /\ Gap(plan) \in Nat
      /\ plan.jitter # Null => /\ plan.jitter.min \in Nat /\ plan.jitter.each \in BOOLEAN
                               /\ plan.jitter.max = Draw(plan)
      /\ plan.gaps # Null => Cycle \in Nat \ {0} /\ Cycle = plan.gaps.available + Gap(plan)
                             /\ plan.gaps.available \in Nat \ {0}
  BY <1>1 DEF IsSchedule, Draw, Gap, Cycle
<1>3. /\ \A n \in Nat : Pace(plan, n) \in Nat
      /\ \A a, b \in Nat : Pace(plan, a) + Pace(plan, b) <= Pace(plan, a + b)
  <2>1. CASE plan.throttle = Null BY <2>1 DEF Pace
  <2>2. CASE plan.throttle # Null
    <3>1. plan.throttle.rate \in Nat \ {0} /\ Second \in Nat
      BY <1>1, <2>2 DEF IsSchedule, WireAssumption
    <3>2. ASSUME NEW a \in Nat, NEW b \in Nat
          PROVE  Rate(plan, a) \in Nat /\ Rate(plan, a) + Rate(plan, b) <= Rate(plan, a + b)
      <4>1. PICK x \in Nat : x = a * Second BY <3>1
      <4>2. PICK y \in Nat : y = b * Second BY <3>1
      <4>3. (a + b) * Second = x + y BY <3>1, <4>1, <4>2
      <4>4. x \div plan.throttle.rate \in Nat
            /\ (x \div plan.throttle.rate) + (y \div plan.throttle.rate)
                 <= (x + y) \div plan.throttle.rate
        BY <3>1, DivAdds
      <4> QED BY <4>1, <4>2, <4>3, <4>4 DEF Rate
    <3> QED BY <2>2, <3>2 DEF Pace
  <2> QED BY <2>1, <2>2
<1> DEFINE whole == ChunkBytes(plan, plan.body)
<1>4. Chunk \in Nat /\ (BodyBytes(plan) > 0 => Chunk > 0)
      /\ whole \in Nat /\ (plan.body > 0 => whole > 0)
  BY <1>1 DEF Chunk, IsPlan, IsSchedule, PlanIs, ChunkBytes, WireAssumption
<1>5. Chunks(plan, plan.body) \in Nat
  <2>1. plan.body \in Nat BY <1>1 DEF PlanIs
  <2>2. CASE plan.body = 0 BY <2>2 DEF Chunks
  <2>3. CASE plan.body # 0
    <3>1. plan.body + whole - 1 \in Nat /\ whole \in Nat \ {0} BY <1>4, <2>1, <2>3
    <3>2. (plan.body + whole - 1) \div whole \in Nat BY <3>1, DivAdds
    <3> QED BY <2>3, <3>2 DEF Chunks
  <2> QED BY <2>2, <2>3
<1>6. ASSUME NEW k \in Nat, k * Chunk < BodyBytes(plan) PROVE k + 1 <= Chunks(plan, plan.body)
  <2>1. plan.body \in Nat /\ BodyBytes(plan) \in Nat /\ BodyBytes(plan) <= plan.body
    BY <1>1 DEF PlanIs
  <2>2. BodyBytes(plan) > 0
    <3>1. k * Chunk \in Nat BY <1>4
    <3> QED BY <1>6, <2>1, <3>1
  <2>3. plan.body # 0 /\ whole \in Nat \ {0} BY <1>4, <2>1, <2>2
  <2>4. k * whole < plan.body
    <3>1. CASE Chunk = whole BY <1>6, <2>1, <3>1, <1>4
    <3>2. CASE Chunk # whole
      <4>1. Chunk = BodyBytes(plan)
        BY <1>1, <2>1, <3>2 DEF Chunk, ChunkBytes, WireAssumption
      <4>2. k = 0
        <5>1. PICK n \in Nat : n = BodyBytes(plan) BY <2>1
        <5>2. k * n < n BY <1>6, <4>1, <5>1
        <5> QED BY <5>2
      <4> QED BY <2>1, <2>2, <2>3, <4>2
    <3> QED BY <3>1, <3>2
  <2>5. k + 1 <= (plan.body + whole - 1) \div whole BY <2>1, <2>3, <2>4, RoomForOne
  <2> QED BY <2>3, <2>5 DEF Chunks
<1> QED BY <1>2, <1>3, <1>4, <1>5, <1>6 DEF PaceIs

-----------------------------------------------------------------------------
LEMMA AllowedIs ==
  ASSUME PaceIs, WireTypeOK, NEW k \in Nat, NEW m \in Nat
  PROVE  Allowed(k, m) \in Nat /\ Allowed(k, m + 1) = Allowed(k, m) + Draw(plan)
<1>1. Pace(plan, offset) \in Nat
  <2>1. offset \in Nat BY DEF WireTypeOK
  <2> QED BY <2>1 DEF PaceIs
<1>2. stalled \in Nat BY DEF WireTypeOK
<1>3. PICK d \in Nat : d = Draw(plan) BY DEF PaceIs
<1>4. PICK g \in Nat : g = Gap(plan) BY DEF PaceIs
<1>5. d * m \in Nat /\ d * (m + 1) = d * m + d /\ g * k \in Nat OBVIOUS
<1>6. PICK x \in Nat : x = d * m BY <1>5
<1>7. PICK y \in Nat : y = g * k BY <1>5
<1>8. PICK z \in Nat : z = Pace(plan, offset) BY <1>1
<1>9. Allowed(k, m) = z + x + y + stalled BY <1>3, <1>4, <1>6, <1>7, <1>8 DEF Allowed
<1>10. Allowed(k, m + 1) = z + (x + d) + y + stalled
  BY <1>3, <1>4, <1>5, <1>6, <1>7, <1>8 DEF Allowed
<1> QED BY <1>2, <1>3, <1>9, <1>10

\* A body whose schedule is not touched: it is not flushed late, and sleeps with nothing buffered.
LEMMA PacedStays ==
  ASSUME NEW k, NEW m, Paced(k, m),
         UNCHANGED <<plan, offset, jittered, throttleAt, wait, elapsed, stalled>>,
         mode' = "flush" => elapsed <= Allowed(k, m),
         wait # Null /\ mode' \in {"rest", "poll"} => buf' = <<>>
  PROVE  Paced(k, m)'
<1>1. Allowed(k, m)' = Allowed(k, m) BY DEF Allowed
<1>2. Due' = Due /\ Outrun' = Outrun BY DEF Due, More, AtCut, Outrun
<1>3. Counted(k, m)' BY <1>2 DEF Paced, Counted, Chunk
<1>4. (MustJitter' <=> MustJitter) /\ (plan.gaps # Null => Cycle' = Cycle)
  BY DEF MustJitter, Cycle
<1>5. wait # Null => wait <= Allowed(k, m) \/ (wait = FinishDelay /\ Outrun) \/ Overslept(Allowed(k, m))
  BY DEF Paced, Punctual
<1>6. ASSUME NEW a, Overslept(a) PROVE Overslept(a)' BY <1>2, <1>4, <1>6 DEF Overslept
<1> QED BY <1>1, <1>2, <1>3, <1>5, <1>6 DEF Paced, Punctual

\* When the body is polled and may go on: in time, or behind the gap it waited for.
LEMMA OnTime ==
  ASSUME PaceIs, WireTypeOK, NEW k \in Nat, NEW m \in Nat, Paced(k, m), MayPoll
  PROVE  \/ elapsed <= Allowed(k, m)
         \/ Outrun
         \/ Due /\ ~ MustJitter /\ ~ Blocked /\ elapsed <= Allowed(k, m) + Gap(plan)
<1> DEFINE a == Allowed(k, m)
<1>1. a \in Nat BY AllowedIs
<1>2. SUFFICES ASSUME ~ elapsed <= a, ~ Outrun
              PROVE  Due /\ ~ MustJitter /\ ~ Blocked /\ elapsed <= a + Gap(plan)
  OBVIOUS
<1>3. wait # Null /\ elapsed <= wait BY <1>2 DEF Paced, Punctual
<1>4. elapsed \in Nat /\ wait \in Nat BY <1>3 DEF WireTypeOK
<1>5. elapsed = wait BY <1>3, <1>4 DEF MayPoll, Awake
<1>6. Overslept(a) BY <1>1, <1>2, <1>3, <1>5 DEF Paced, Punctual
<1>7. ~ Blocked
  <2>1. plan.gaps # Null /\ elapsed % Cycle = 0 BY <1>5, <1>6 DEF Overslept
  <2>2. plan.gaps.available \in Nat \ {0} BY <2>1 DEF PaceIs
  <2>3. ~ 0 >= plan.gaps.available BY <2>2
  <2> QED BY <2>1, <2>3 DEF Blocked
<1> QED BY <1>5, <1>6, <1>7 DEF Overslept

LEMMA GapEndIs ==
  ASSUME PaceIs, WireTypeOK
  PROVE  \/ ~ Blocked /\ GapEnd = elapsed
         \/ /\ Blocked /\ plan.gaps # Null /\ GapEnd \in Nat
            /\ GapEnd <= elapsed + Gap(plan) /\ GapEnd % Cycle = 0
<1>1. CASE ~ Blocked BY <1>1 DEF GapEnd
<1>2. CASE Blocked
  <2>1. elapsed \in Nat /\ Cycle \in Nat \ {0} /\ Gap(plan) \in Nat /\ plan.gaps # Null
        /\ plan.gaps.available \in Nat /\ Cycle = plan.gaps.available + Gap(plan)
        /\ elapsed % Cycle >= plan.gaps.available
    BY <1>2 DEF PaceIs, WireTypeOK, Blocked
  <2>2. GapEnd = elapsed + Cycle - (elapsed % Cycle) BY <1>2 DEF GapEnd
  <2>3. PICK c \in Nat \ {0} : c = Cycle BY <2>1
  <2>4. PICK e \in Nat : e = elapsed BY <2>1
  <2>5. e % c \in 0 .. c - 1 /\ (e + c - (e % c)) % c = 0 BY CycleEnd
  <2>6. PICK r \in 0 .. c - 1 : r = e % c BY <2>5
  <2>7. GapEnd = e + c - r BY <2>2, <2>3, <2>4, <2>6
  <2>8. GapEnd % Cycle = 0 BY <2>3, <2>5, <2>6, <2>7
  <2>9. c <= r + Gap(plan) BY <2>1, <2>3, <2>4, <2>6
  <2> QED BY <1>2, <2>1, <2>4, <2>7, <2>8, <2>9
<1> QED BY <1>1, <1>2

LEMMA PacedSleep ==
  ASSUME PaceIs, PlanIs, WireTypeOK, BodyInv, Sleep, NEW k \in Nat, NEW m \in Nat, Paced(k, m)
  PROVE  TimeInv'
<1>10. PICK a \in Nat : a = Allowed(k, m) BY AllowedIs
<1>0. a \in Nat /\ elapsed \in Nat /\ Draw(plan) \in Nat /\ Gap(plan) \in Nat
  BY DEF WireTypeOK, PaceIs
<1>1. /\ MayPoll /\ Due /\ mode' = "flush"
      /\ UNCHANGED <<plan, offset, throttleAt, elapsed, stalled>>
  BY DEF Sleep, Due, Pend
<1>2. Due' /\ Chunk' = Chunk BY <1>1 DEF Due, More, AtCut, Chunk
<1>3. plan.gaps # Null => Cycle' = Cycle BY <1>1 DEF Cycle
<1>4. Allowed(k, m)' = a /\ Allowed(k, m + 1)' = a + Draw(plan)
  <2>1. Allowed(k, m + 1) = a + Draw(plan) BY <1>10, AllowedIs
  <2> QED BY <1>1, <1>10, <2>1 DEF Allowed
<1>5. ~ Outrun BY <1>0, <1>1 DEF Outrun, Due, More, PlanIs, WireTypeOK
<1>6. throttleAt <= a BY <1>10 DEF Paced, Punctual
<1>7. CASE MustJitter
  <2>1. PICK draw \in plan.jitter.min .. plan.jitter.max :
          jittered' = JitterMark /\ wait' = Later(elapsed + draw, GapEnd)
    BY <1>7 DEF Sleep, Pend
  <2>2. draw \in Nat /\ draw <= Draw(plan)
    <3>1. plan.jitter # Null BY <1>7 DEF MustJitter
    <3>2. plan.jitter.min \in Nat /\ plan.jitter.max = Draw(plan) BY <3>1 DEF PaceIs
    <3> QED BY <1>0, <3>2
  <2>3. elapsed <= a BY <1>1, <1>5, <1>7, <1>10, OnTime
  <2>4. ~ MustJitter' BY <1>1, <2>1 DEF MustJitter, JitterMark
  <2>5. Counted(k, m + 1)'
    <3>1. plan.jitter # Null BY <1>7 DEF MustJitter
    <3>2. CASE plan.jitter.each
      <4>1. jittered # offset /\ jittered' = offset' BY <1>1, <1>7, <2>1, <3>2 DEF MustJitter, JitterMark
      <4>2. m <= k BY <3>1, <3>2, <4>1 DEF Paced, Counted
      <4>3. m + 1 <= k + 1 BY <4>2
      <4> QED BY <1>1, <1>2, <3>2, <4>1, <4>3 DEF Paced, Counted
    <3>3. CASE ~ plan.jitter.each
      <4>1. jittered # -1 /\ jittered' = -1 BY <1>1, <1>7, <2>1, <3>3 DEF MustJitter, JitterMark
      <4>2. m <= 0 BY <3>1, <3>3, <4>1 DEF Paced, Counted
      <4>3. m + 1 <= 1 BY <4>2
      <4> QED BY <1>1, <1>2, <3>3, <4>1, <4>3 DEF Paced, Counted
    <3> QED BY <3>2, <3>3
  <2>6. Allowed(k, m + 1)' = a + Draw(plan) BY <1>4
  <2>7. wait' <= a + Draw(plan) \/ Overslept(a + Draw(plan))'
    <3>1. CASE wait' = elapsed + draw BY <1>0, <2>2, <2>3, <3>1
    <3>2. CASE wait' = GapEnd /\ wait' # elapsed + draw
      <4>1. CASE GapEnd = elapsed BY <1>0, <2>3, <3>2, <4>1
      <4>2. CASE GapEnd # elapsed
        <5>1. plan.gaps # Null /\ GapEnd \in Nat /\ GapEnd <= elapsed + Gap(plan) /\ GapEnd % Cycle = 0
          BY <4>2, GapEndIs
        <5>2. wait' <= a + Draw(plan) + Gap(plan) BY <1>0, <2>3, <3>2, <5>1
        <5> QED BY <1>1, <1>2, <1>3, <2>4, <3>2, <5>1, <5>2 DEF Overslept, Gap
      <4> QED BY <4>1, <4>2
    <3> QED BY <2>1, <3>1, <3>2 DEF Later
  <2>8. throttleAt' <= a + Draw(plan) /\ elapsed' <= a + Draw(plan)
    <3>1. throttleAt \in Nat BY DEF WireTypeOK
    <3> QED BY <1>0, <1>1, <1>6, <2>3, <3>1
  <2>9. Paced(k, m + 1)' BY <1>1, <2>5, <2>6, <2>7, <2>8 DEF Paced, Punctual
  <2> QED BY <2>9 DEF TimeInv
<1>8. CASE ~ MustJitter
  <2>1. GapEnd > elapsed /\ wait' = GapEnd /\ jittered' = jittered BY <1>8 DEF Sleep, Pend
  <2>2. Blocked /\ plan.gaps # Null /\ GapEnd <= elapsed + Gap(plan) /\ GapEnd % Cycle = 0
    BY <1>0, <2>1, GapEndIs
  <2>3. elapsed <= a BY <1>1, <1>5, <1>10, <2>2, OnTime
  <2>4. ~ MustJitter' BY <1>1, <1>8, <2>1 DEF MustJitter
  <2>5. wait' <= a + Gap(plan)
    <3>1. GapEnd \in Nat BY <2>2, GapEndIs
    <3> QED BY <1>0, <2>1, <2>2, <2>3, <3>1
  <2>6. Overslept(a)' BY <1>1, <1>2, <1>3, <2>1, <2>2, <2>4, <2>5 DEF Overslept, Gap
  <2>7. Counted(k, m)' BY <1>1, <1>2, <2>1 DEF Paced, Counted
  <2>8. Allowed(k, m)' = a BY <1>4
  <2>9. Paced(k, m)' BY <1>1, <1>6, <2>3, <2>6, <2>7, <2>8 DEF Paced, Punctual
  <2> QED BY <2>9 DEF TimeInv
<1> QED BY <1>7, <1>8

\* A pending deadline that is allowed.
LEMMA PacedThrottle ==
  ASSUME PaceIs, PlanIs, WireTypeOK, BodyInv, Throttle, NEW k \in Nat, NEW m \in Nat, Paced(k, m)
  PROVE  Paced(k, m)'
<1>0. PICK a \in Nat : a = Allowed(k, m) BY AllowedIs
<1>1. /\ Due /\ mode' = "flush" /\ wait' = throttleAt /\ elapsed < throttleAt /\ Marked
      /\ UNCHANGED <<plan, offset, throttleAt, elapsed, stalled>>
  BY DEF Throttle, Due, Pend
<1>2. Due' /\ Chunk' = Chunk BY <1>1 DEF Due, More, AtCut, Chunk
<1>3. Allowed(k, m)' = a BY <1>0, <1>1 DEF Allowed
<1>4. throttleAt <= a BY <1>0 DEF Paced, Punctual
<1>5. elapsed <= a
  <2>1. a \in Nat /\ elapsed \in Nat /\ throttleAt \in Nat BY DEF WireTypeOK
  <2> QED BY <1>1, <1>4, <2>1
<1>6. Counted(k, m)'
  <2>1. CASE jittered' = jittered BY <1>1, <1>2, <2>1 DEF Paced, Counted
  <2>2. CASE jittered' # jittered
    <3>1. MustJitter /\ jittered' = JitterMark BY <1>1, <2>2 DEF Marked
    <3>2. plan.jitter # Null BY <3>1 DEF MustJitter
    <3>3. CASE plan.jitter.each
      <4>1. jittered # offset /\ jittered' = offset' BY <1>1, <3>1, <3>3 DEF MustJitter, JitterMark
      <4>2. m <= k BY <3>2, <3>3, <4>1 DEF Paced, Counted
      <4>3. m <= k + 1 BY <4>2
      <4> QED BY <1>1, <1>2, <3>3, <4>1, <4>3 DEF Paced, Counted
    <3>4. CASE ~ plan.jitter.each
      <4>1. jittered # -1 /\ jittered' = -1 BY <1>1, <3>1, <3>4 DEF MustJitter, JitterMark
      <4>2. m <= 0 BY <3>2, <3>4, <4>1 DEF Paced, Counted
      <4>3. m <= 1 BY <4>2
      <4> QED BY <1>1, <1>2, <3>4, <4>1, <4>3 DEF Paced, Counted
    <3> QED BY <3>3, <3>4
  <2> QED BY <2>1, <2>2
<1> QED BY <1>1, <1>3, <1>4, <1>5, <1>6 DEF Paced, Punctual

\* One chunk more allows for its gap and its share of the rate.
LEMMA AllowedNext ==
  ASSUME PaceIs, WireTypeOK, NEW k \in Nat, NEW m \in Nat, NEW n \in Nat, offset <= n
  PROVE  Allowed(k, m) + Gap(plan) + Pace(plan, n - offset)
           <= Pace(plan, n) + Draw(plan) * m + Gap(plan) * (k + 1) + stalled
<1>1. offset \in Nat /\ stalled \in Nat BY DEF WireTypeOK
<1>2. PICK d \in Nat : d = n - offset BY <1>1
<1>3. Pace(plan, offset) \in Nat /\ Pace(plan, d) \in Nat /\ Pace(plan, n) \in Nat
      /\ Pace(plan, offset) + Pace(plan, d) <= Pace(plan, n)
  <2>1. offset + d = n BY <1>1, <1>2
  <2>2. Pace(plan, offset) + Pace(plan, d) <= Pace(plan, offset + d) BY <1>1 DEF PaceIs
  <2> QED BY <1>1, <2>1, <2>2 DEF PaceIs
<1>4. PICK g \in Nat : g = Gap(plan) BY DEF PaceIs
<1>5. PICK w \in Nat : w = Draw(plan) BY DEF PaceIs
<1>6. PICK x \in Nat : x = w * m OBVIOUS
<1>7. PICK y \in Nat : y = g * k OBVIOUS
<1>8. g * (k + 1) = y + g BY <1>7
<1>9. Allowed(k, m) = Pace(plan, offset) + x + y + stalled
  BY <1>4, <1>5, <1>6, <1>7 DEF Allowed
<1>10. Pace(plan, offset) + x + y + stalled + g + Pace(plan, d)
         <= Pace(plan, n) + x + (y + g) + stalled
  BY <1>1, <1>3
<1> QED BY <1>2, <1>4, <1>5, <1>6, <1>8, <1>9, <1>10

\* A chunk that is neither the last one nor cut short is a full one.
LEMMA FullChunk ==
  ASSUME PaceIs, PlanIs, WireTypeOK, BodyInv, Due
  PROVE  /\ NextChunk \in Nat /\ offset < NextChunk
         /\ NextChunk < BodyBytes(plan) /\ ~ (Direct(plan) /\ NextChunk >= plan.cut)
              => NextChunk = offset + Chunk
<1>1. offset \in Nat /\ BodyBytes(plan) \in Nat /\ offset < BodyBytes(plan)
  BY DEF WireTypeOK, PlanIs, Due, More
<1>2. Chunk \in Nat /\ Chunk > 0 BY <1>1 DEF PaceIs
<1>3. Direct(plan) => plan.cut \in Nat /\ offset < plan.cut BY <1>1 DEF PlanIs, Due, AtCut
<1>4. PICK e \in Nat : e = offset + Chunk BY <1>1, <1>2
<1>5. NextChunk = LET c == IF e > BodyBytes(plan) THEN BodyBytes(plan) ELSE e
                  IN  IF Direct(plan) /\ c > plan.cut THEN plan.cut ELSE c
  BY <1>4 DEF NextChunk, Chunk, Later
<1> QED BY <1>1, <1>2, <1>3, <1>4, <1>5

LEMMA PacedEmit ==
  ASSUME PaceIs, PlanIs, WireTypeOK, BodyInv, Emit, NEW k \in Nat, NEW m \in Nat, Paced(k, m)
  PROVE  Paced(k + 1, m)'
<1>1. /\ MayPoll /\ Due /\ Marked /\ elapsed >= throttleAt
      /\ offset' = NextChunk /\ wait' = Null
      /\ throttleAt' = IF plan.throttle = Null THEN throttleAt
                       ELSE elapsed + Rate(plan, NextChunk - offset)
      /\ UNCHANGED <<plan, elapsed, stalled>>
  BY DEF Emit, Due
<1>2. PICK a \in Nat : a = Allowed(k, m) BY AllowedIs
<1>3. elapsed \in Nat /\ throttleAt \in Nat /\ offset \in Nat /\ Gap(plan) \in Nat
  BY DEF WireTypeOK, PaceIs
<1>4. elapsed <= a + Gap(plan)
  <2>1. ~ Outrun BY <1>1, <1>3 DEF Outrun, Due, More, PlanIs
  <2> QED BY <1>1, <1>2, <1>3, <2>1, OnTime
<1>5. offset = k * Chunk /\ k + 1 <= Chunks(plan, plan.body)
  <2>1. offset = k * Chunk BY <1>1 DEF Paced, Counted
  <2>2. k * Chunk < BodyBytes(plan) BY <1>1, <2>1 DEF Due, More
  <2> QED BY <2>1, <2>2 DEF PaceIs
<1>6. NextChunk \in Nat /\ offset < NextChunk BY <1>1, FullChunk
<1>7. Due' => offset' = (k + 1) * Chunk
  <2>1. SUFFICES ASSUME Due' PROVE NextChunk = (k + 1) * Chunk BY <1>1
  <2>2. NextChunk < BodyBytes(plan) /\ ~ (Direct(plan) /\ NextChunk >= plan.cut)
    BY <1>1, <2>1 DEF Due, More, AtCut
  <2>3. NextChunk = offset + Chunk BY <1>1, <2>2, FullChunk
  <2>4. PICK c \in Nat : c = Chunk BY DEF PaceIs
  <2> QED BY <1>5, <2>3, <2>4
<1>8. Counted(k + 1, m)'
  <2>1. Chunk' = Chunk /\ Chunks(plan, plan.body)' = Chunks(plan, plan.body)
    BY <1>1 DEF Chunk
  <2>2. CASE plan.jitter = Null BY <1>1, <1>5, <1>7, <2>1, <2>2 DEF Counted
  <2>3. CASE plan.jitter # Null /\ plan.jitter.each
    <3>1. jittered' = offset BY <1>1, <2>3 DEF Marked, MustJitter, JitterMark
    <3>2. jittered' # offset' BY <1>1, <1>3, <1>6, <3>1
    <3>3. m <= k + 1
      <4>1. m <= IF jittered = offset THEN k + 1 ELSE k BY <2>3 DEF Paced, Counted
      <4> QED BY <4>1
    <3> QED BY <1>1, <1>5, <1>7, <2>1, <2>3, <3>2, <3>3 DEF Counted
  <2>4. CASE plan.jitter # Null /\ ~ plan.jitter.each
    <3>1. jittered' = -1 BY <1>1, <2>4 DEF Marked, MustJitter, JitterMark
    <3>2. m <= 1
      <4>1. m <= IF jittered = -1 THEN 1 ELSE 0 BY <2>4 DEF Paced, Counted
      <4> QED BY <4>1
    <3> QED BY <1>1, <1>5, <1>7, <2>1, <2>4, <3>1, <3>2 DEF Counted
  <2> QED BY <2>2, <2>3, <2>4
<1>9. PICK b \in Nat : b = Pace(plan, NextChunk) + Draw(plan) * m + Gap(plan) * (k + 1) + stalled
  <2>1. Allowed(k + 1, m) \in Nat BY AllowedIs
  <2>2. Pace(plan, NextChunk) \in Nat BY <1>6 DEF PaceIs
  <2>3. PICK d \in Nat : d = Draw(plan) BY DEF PaceIs
  <2>4. PICK g \in Nat : g = Gap(plan) BY DEF PaceIs
  <2>5. d * m \in Nat /\ g * (k + 1) \in Nat OBVIOUS
  <2>6. stalled \in Nat BY DEF WireTypeOK
  <2> QED BY <2>2, <2>3, <2>4, <2>5, <2>6
<1>10. Allowed(k + 1, m)' = b BY <1>1, <1>9 DEF Allowed
<1>11. PICK r \in Nat : r = Pace(plan, NextChunk - offset)
  <2>1. NextChunk - offset \in Nat BY <1>3, <1>6
  <2> QED BY <2>1 DEF PaceIs
<1>12. a + Gap(plan) + r <= b BY <1>2, <1>3, <1>6, <1>9, <1>11, AllowedNext
<1>13. elapsed <= b /\ throttleAt <= b /\ elapsed + r <= b BY <1>1, <1>3, <1>4, <1>12
<1>14. throttleAt' <= b
  <2>1. CASE plan.throttle = Null BY <1>1, <1>13, <2>1
  <2>2. CASE plan.throttle # Null BY <1>1, <1>11, <1>13, <2>2 DEF Pace
  <2> QED BY <2>1, <2>2
<1> QED BY <1>1, <1>8, <1>10, <1>13, <1>14 DEF Paced, Punctual

LEMMA PacedTime ==
  ASSUME PaceIs, WireTypeOK, Tick \/ Stall, NEW k \in Nat, NEW m \in Nat, Paced(k, m)
  PROVE  Paced(k, m)'
<1> USE DEF pacing
<1>1. PICK a \in Nat : a = Allowed(k, m) BY AllowedIs
<1>2. UNCHANGED <<plan, offset, wait, throttleAt, jittered, mode, buf>>
  BY DEF Tick, Stall, writer
<1>3. Due' = Due /\ Outrun' = Outrun BY <1>2 DEF Due, More, AtCut, Outrun
<1>4. Counted(k, m)' BY <1>2, <1>3 DEF Paced, Counted, Chunk
<1>5. elapsed \in Nat /\ stalled \in Nat /\ throttleAt \in Nat /\ Gap(plan) \in Nat
      /\ (wait # Null => wait \in Nat)
  BY DEF WireTypeOK, PaceIs
<1>6. (MustJitter' <=> MustJitter) /\ (plan.gaps # Null => Cycle' = Cycle)
  BY <1>2 DEF MustJitter, Cycle
<1>7. PICK b \in Nat : b = a + (stalled' - stalled) /\ a <= b
  BY <1>5 DEF Tick, Stall
<1>8. Allowed(k, m)' = b
  <2>1. PICK d \in Int : d = Pace(plan, offset) + Draw(plan) * m + Gap(plan) * k
    <3>1. PICK z \in Nat : z = Draw(plan) BY DEF PaceIs
    <3>2. PICK g \in Nat : g = Gap(plan) BY DEF PaceIs
    <3>3. Pace(plan, offset) \in Nat
      <4>1. offset \in Nat BY DEF WireTypeOK
      <4> QED BY <4>1 DEF PaceIs
    <3>4. z * m \in Nat /\ g * k \in Nat OBVIOUS
    <3> QED BY <3>1, <3>2, <3>3, <3>4
  <2>2. a = d + stalled BY <1>1, <2>1 DEF Allowed
  <2>3. Allowed(k, m)' = d + stalled' BY <1>2, <2>1 DEF Allowed
  <2>4. stalled' \in Nat BY <1>5 DEF Tick, Stall
  <2> QED BY <1>5, <1>7, <2>2, <2>3, <2>4
<1>9. throttleAt' <= b
  <2>1. throttleAt <= a BY <1>1 DEF Paced, Punctual
  <2> QED BY <1>2, <1>5, <1>7, <2>1
<1>10. elapsed' <= b \/ (mode' # "flush" /\ wait' # Null /\ elapsed' <= wait')
  <2>1. CASE Tick
    <3>1. wait # Null /\ elapsed < wait /\ mode = "rest" /\ elapsed' = elapsed + 1
      BY <1>5, <2>1 DEF Tick, Awake
    <3> QED BY <1>2, <1>5, <3>1
  <2>2. CASE Stall
    <3>1. mode = "flush" /\ elapsed' = elapsed + 1 /\ b = a + 1 BY <1>5, <1>7, <2>2 DEF Stall
    <3>2. elapsed <= a BY <1>1, <3>1 DEF Paced, Punctual
    <3> QED BY <1>5, <3>1, <3>2
  <2> QED BY <2>1, <2>2
<1>11. wait' # Null => wait' <= b \/ (wait' = FinishDelay /\ Outrun') \/ Overslept(b)'
  <2>1. SUFFICES ASSUME wait # Null
                 PROVE  wait <= b \/ (wait = FinishDelay /\ Outrun) \/ Overslept(b)'
    BY <1>2, <1>3
  <2>2. wait <= a \/ (wait = FinishDelay /\ Outrun) \/ Overslept(a)
    BY <1>1, <2>1 DEF Paced, Punctual
  <2>3. CASE wait <= a BY <1>5, <1>7, <2>1, <2>3
  <2>4. CASE Overslept(a)
    <3>1. plan.gaps # Null /\ Due /\ ~ MustJitter /\ wait <= a + Gap(plan) /\ wait % Cycle = 0
      BY <2>4 DEF Overslept
    <3>2. wait <= b + Gap(plan) BY <1>5, <1>7, <2>1, <3>1
    <3> QED BY <1>2, <1>3, <1>6, <3>1, <3>2 DEF Overslept, Gap
  <2> QED BY <2>2, <2>3, <2>4
<1>12. wait' # Null /\ mode' \in {"rest", "poll"} => buf' = <<>>
  BY <1>2 DEF Paced, Punctual
<1> QED BY <1>4, <1>8, <1>9, <1>10, <1>11, <1>12 DEF Paced, Punctual

LEMMA PacedEnd ==
  ASSUME PaceIs, PlanIs, WireTypeOK, BodyInv, EndShort \/ EndEmpty,
         NEW k \in Nat, NEW m \in Nat, Paced(k, m)
  PROVE  Paced(k, m)'
<1>1. PICK a \in Nat : a = Allowed(k, m) BY AllowedIs
<1>2. MayPoll /\ ~ More /\ UNCHANGED <<plan, offset, jittered, throttleAt, elapsed, stalled>>
  BY DEF EndShort, EndEmpty
<1>3. elapsed \in Nat /\ offset \in Nat BY DEF WireTypeOK
<1>4. CASE EndEmpty
  <2>1. mode' = "flush" /\ offset = plan.claimed /\ wait' = wait BY <1>4 DEF EndEmpty
  <2>2. ~ Outrun /\ ~ Due BY <1>2, <2>1 DEF Outrun, Due, PlanIs
  <2>3. elapsed <= a BY <1>1, <1>2, <2>2, OnTime
  <2> QED BY <1>1, <1>2, <2>1, <2>3, PacedStays
<1>5. CASE EndShort
  <2>1. Outrun BY <1>2, <1>3, <1>5 DEF EndShort, Outrun, More, PlanIs, BodyInv
  <2>2. CASE elapsed < FinishDelay
    <3>1. wait' = FinishDelay /\ mode' = "flush" BY <1>5, <2>2 DEF EndShort, Pend
    <3>2. elapsed <= a BY <1>1, <1>3, <2>2 DEF FinishDelay
    <3>3. Due' = Due /\ Outrun' = Outrun BY <1>2 DEF Due, More, AtCut, Outrun
    <3>4. Counted(k, m)' BY <1>2, <3>3 DEF Paced, Counted, Chunk
    <3>5. Allowed(k, m)' = a BY <1>1, <1>2 DEF Allowed
    <3> QED BY <1>1, <1>2, <2>1, <3>1, <3>2, <3>3, <3>4, <3>5 DEF Paced, Punctual
  <2>3. CASE ~ elapsed < FinishDelay
    <3>1. wait' = wait /\ mode' = "closed" BY <1>5, <2>3 DEF EndShort
    <3> QED BY <1>1, <1>2, <3>1, PacedStays
  <2> QED BY <2>2, <2>3
<1> QED BY <1>4, <1>5

LEMMA TimeStep ==
  ASSUME WireAssumption, WireInv, TimeInv, [WireNext]_wireVars
  PROVE  TimeInv'
<1> USE DEF pacing, writer
<1>0. WireTypeOK /\ BodyInv /\ PlanIs /\ PaceIs BY PlanKnown, PaceKnown DEF WireInv, WireTypeOK
<1>1. PICK k, m \in Nat : Paced(k, m) BY DEF TimeInv
<1>2. CASE Cancelled BY <1>1, <1>2, PacedStays DEF Cancelled, TimeInv
<1>3. CASE Sleep BY <1>0, <1>1, <1>3, PacedSleep
<1>4. CASE Throttle BY <1>0, <1>1, <1>4, PacedThrottle DEF TimeInv
<1>5. CASE Emit
  <2>1. k + 1 \in Nat OBVIOUS
  <2> QED BY <1>0, <1>1, <1>5, <2>1, PacedEmit DEF TimeInv
<1>6. CASE EndShort \/ EndEmpty BY <1>0, <1>1, <1>6, PacedEnd DEF TimeInv
<1>7. CASE CutOff BY <1>1, <1>7, PacedStays DEF CutOff, TimeInv
<1>8. CASE Full
  <2>1. mode = "poll" /\ buf # <<>> BY <1>8 DEF Full, Polled
  <2>2. elapsed <= Allowed(k, m) BY <1>1, <2>1 DEF Paced, Punctual
  <2> QED BY <1>1, <1>8, <2>2, PacedStays DEF Full, TimeInv
<1>9. ASSUME mode \in {"flush", "tail"}, mode' = mode,
             UNCHANGED <<plan, offset, jittered, throttleAt, wait, elapsed, stalled>>
      PROVE  TimeInv'
  <2>1. mode' = "flush" => elapsed <= Allowed(k, m) BY <1>1, <1>9 DEF Paced, Punctual
  <2>2. mode' \notin {"rest", "poll"} BY <1>9
  <2>3. Paced(k, m)' BY <1>1, <1>9, <2>1, <2>2, PacedStays
  <2> QED BY <2>3 DEF TimeInv
<1>10. CASE WriteHead BY <1>9, <1>10 DEF WriteHead
<1>11. CASE SkipHead BY <1>9, <1>11 DEF SkipHead
<1>12. CASE WriteByte BY <1>9, <1>12 DEF WriteByte
<1>13. CASE Flush
  <2>1. mode' # "flush" /\ (mode' \in {"rest", "poll"} => buf' = <<>>) BY <1>13 DEF Flush
  <2> QED BY <1>1, <1>13, <2>1, PacedStays DEF Flush, TimeInv
<1>14. CASE Close BY <1>1, <1>14, PacedStays DEF Close, TimeInv
<1>15. ASSUME mode = "rest", mode' \in {"rest", "poll"}, buf' = buf,
              UNCHANGED <<plan, offset, jittered, throttleAt, wait, elapsed, stalled>>
       PROVE  TimeInv'
  <2>1. wait # Null => buf' = <<>> BY <1>1, <1>15 DEF Paced, Punctual
  <2>2. Paced(k, m)' BY <1>1, <1>15, <2>1, PacedStays
  <2> QED BY <2>2 DEF TimeInv
<1>16. CASE IdleFlush BY <1>15, <1>16 DEF IdleFlush
<1>17. CASE Wake BY <1>15, <1>17 DEF Wake
<1>18. CASE Tick \/ Stall BY <1>0, <1>1, <1>18, PacedTime DEF TimeInv
<1>19. ASSUME UNCHANGED <<plan, offset, jittered, throttleAt, wait, elapsed, stalled, mode, buf>>
       PROVE  TimeInv'
  <2>1. mode' = "flush" => elapsed <= Allowed(k, m) BY <1>1, <1>19 DEF Paced, Punctual
  <2>2. wait # Null /\ mode' \in {"rest", "poll"} => buf' = <<>>
    BY <1>1, <1>19 DEF Paced, Punctual
  <2>3. Paced(k, m)' BY <1>1, <1>19, <2>1, <2>2, PacedStays
  <2> QED BY <2>3 DEF TimeInv
<1>20. CASE Cancel BY <1>19, <1>20 DEF Cancel
<1>21. CASE UNCHANGED wireVars BY <1>19, <1>21 DEF wireVars
<1> QED BY <1>2, <1>3, <1>4, <1>5, <1>6, <1>7, <1>8, <1>10, <1>11, <1>12, <1>13, <1>14, <1>16,
           <1>17, <1>18, <1>20, <1>21 DEF WireNext

LEMMA TimeInitInv == ASSUME WireAssumption, WireInit PROVE TimeInv
<1>1. PaceIs /\ PlanIs
  <2>1. plan \in Plans BY DEF WireInit
  <2> QED BY <2>1, PlanKnown, PaceKnown
<1>2. offset = 0 /\ elapsed = 0 /\ stalled = 0 /\ wait = Null /\ throttleAt = 0 /\ jittered = -2
  BY DEF WireInit
<1>3. Counted(0, 0)
  <2>1. 0 <= Chunks(plan, plan.body) /\ 0 = 0 * Chunk BY <1>1 DEF PaceIs
  <2> QED BY <1>2, <2>1 DEF Counted
<1>4. 0 <= Allowed(0, 0)
  <2>1. Pace(plan, 0) \in Nat BY <1>1 DEF PaceIs
  <2>2. Draw(plan) * 0 = 0 /\ Gap(plan) * 0 = 0
    <3>1. Draw(plan) \in Nat /\ Gap(plan) \in Nat BY <1>1 DEF PaceIs
    <3> QED BY <3>1
  <2> QED BY <1>2, <2>1, <2>2 DEF Allowed
<1>5. Paced(0, 0) BY <1>2, <1>3, <1>4 DEF Paced, Punctual
<1> QED BY <1>5 DEF TimeInv

LEMMA TimeInvariant == ASSUME WireAssumption PROVE WireSpec => []TimeInv
<1>1. WireInit => TimeInv BY TimeInitInv
<1>2. WireInv /\ TimeInv /\ [WireNext]_wireVars => TimeInv' BY TimeStep
<1> QED BY <1>1, <1>2, WireInvariant, PTL DEF WireSpec

\* As many chunks and draws as the estimate counts.
LEMMA AllowedIsEstimated ==
  ASSUME PaceIs, PlanIs, WireTypeOK, NEW k \in Nat, NEW m \in Nat, Counted(k, m)
  PROVE  /\ Estimate(plan) \in Nat
         /\ Allowed(k, m) <= Estimate(plan) + stalled
         /\ Due => Allowed(k, m) + Gap(plan) <= Estimate(plan) + stalled
<1> DEFINE N == Chunks(plan, plan.body)
<1>1. N \in Nat /\ k <= N BY DEF PaceIs, Counted
<1>2. Due => k + 1 <= N
  <2>1. SUFFICES ASSUME Due PROVE k + 1 <= N OBVIOUS
  <2>2. k * Chunk < BodyBytes(plan) BY <2>1 DEF Counted, Due, More
  <2> QED BY <2>2 DEF PaceIs
<1>3. PICK g \in Nat : g = Gap(plan) BY DEF PaceIs
<1>4. PICK d \in Nat : d = Draw(plan) BY DEF PaceIs
<1>5. PICK draws \in Nat : draws = IF plan.jitter = Null THEN 0 ELSE IF plan.jitter.each THEN N ELSE 1
  BY <1>1
<1>6. d * m <= d * draws /\ d * m \in Nat /\ d * draws \in Nat
  <2>1. CASE plan.jitter = Null
    <3>1. d = 0 BY <1>4, <2>1 DEF Draw
    <3> QED BY <3>1
  <2>2. CASE plan.jitter # Null
    <3>1. m <= draws
      <4>1. plan.jitter.each \in BOOLEAN BY <2>2 DEF PaceIs
      <4>2. CASE plan.jitter.each
        <5>1. m <= IF jittered = offset THEN k + 1 ELSE k BY <2>2, <4>2 DEF Counted
        <5>2. jittered = offset => k + 1 <= N BY <1>2, <2>2, <4>2 DEF Counted
        <5>3. m <= N BY <1>1, <5>1, <5>2
        <5> QED BY <1>5, <2>2, <4>2, <5>3
      <4>3. CASE ~ plan.jitter.each
        <5>1. m <= IF jittered = -1 THEN 1 ELSE 0 BY <2>2, <4>3 DEF Counted
        <5>2. m <= 1 BY <5>1
        <5> QED BY <1>5, <2>2, <4>3, <5>2
      <4> QED BY <4>2, <4>3
    <3> QED BY <3>1
  <2> QED BY <2>1, <2>2
<1>7. g * k <= g * N /\ g * k \in Nat /\ g * N \in Nat BY <1>1
<1>8. Due => g * k + g <= g * N
  <2>1. SUFFICES ASSUME Due PROVE g * k + g <= g * N OBVIOUS
  <2>2. PICK j \in Nat : j = k + 1 OBVIOUS
  <2>3. g * j = g * k + g BY <2>2
  <2>4. g * j <= g * N BY <1>1, <1>2, <2>1, <2>2
  <2> QED BY <2>3, <2>4
<1>9. Pace(plan, offset) \in Nat /\ Pace(plan, plan.body) \in Nat
      /\ Pace(plan, offset) <= Pace(plan, plan.body)
  <2>1. offset \in Nat /\ plan.body \in Nat /\ offset <= plan.body BY DEF WireTypeOK, PlanIs
  <2>2. PICK r \in Nat : r = plan.body - offset BY <2>1
  <2>3. offset + r = plan.body BY <2>1, <2>2
  <2>4. Pace(plan, offset) \in Nat /\ Pace(plan, r) \in Nat /\ Pace(plan, plan.body) \in Nat
        /\ Pace(plan, offset) + Pace(plan, r) <= Pace(plan, offset + r)
    BY <2>1, <2>2 DEF PaceIs
  <2> QED BY <2>3, <2>4
<1>10. Estimate(plan) = Pace(plan, plan.body) + d * draws + g * N
  <2>1. d * draws = IF plan.jitter = Null THEN 0
                    ELSE plan.jitter.max * (IF plan.jitter.each THEN N ELSE 1)
    <3>1. CASE plan.jitter = Null
      <4>1. d = 0 BY <1>4, <3>1 DEF Draw
      <4> QED BY <3>1, <4>1
    <3>2. CASE plan.jitter # Null BY <1>4, <1>5, <3>2 DEF Draw
    <3> QED BY <3>1, <3>2
  <2>2. g * N = IF plan.gaps = Null THEN 0 ELSE plan.gaps.blocked * N
    <3>1. CASE plan.gaps = Null
      <4>1. g = 0 BY <1>3, <3>1 DEF Gap
      <4> QED BY <1>1, <3>1, <4>1
    <3>2. CASE plan.gaps # Null BY <1>3, <3>2 DEF Gap
    <3> QED BY <3>1, <3>2
  <2> QED BY <2>1, <2>2 DEF Estimate, Pace
<1>11. Allowed(k, m) = Pace(plan, offset) + d * m + g * k + stalled BY <1>3, <1>4 DEF Allowed
<1>12. stalled \in Nat BY DEF WireTypeOK
<1>13. PICK x, X \in Nat : x = d * m /\ X = d * draws /\ x <= X BY <1>6
<1>14. PICK y, Y \in Nat : y = g * k /\ Y = g * N /\ y <= Y BY <1>7
<1>15. Due => y + g <= Y BY <1>8, <1>14
<1>16. Estimate(plan) = Pace(plan, plan.body) + X + Y BY <1>10, <1>13, <1>14
<1>17. Allowed(k, m) = Pace(plan, offset) + x + y + stalled BY <1>11, <1>13, <1>14
<1> HIDE DEF N
<1> QED BY <1>3, <1>9, <1>12, <1>13, <1>14, <1>15, <1>16, <1>17

(* The write timeout of a request is extended by no less than its schedule costs,   *)
(* for any jitter, rate, gaps, chunk size and length, a peer that stalls meanwhile  *)
(* and a body that is cut or runs short.                                            *)
THEOREM EstimateHolds == ASSUME WireAssumption PROVE WireSpec => []EstimateCovers
<1>1. WireInv /\ TimeInv => EstimateCovers
  <2> SUFFICES ASSUME WireInv, TimeInv PROVE EstimateCovers OBVIOUS
  <2>1. WireTypeOK /\ PlanIs /\ PaceIs BY PlanKnown, PaceKnown DEF WireInv, WireTypeOK
  <2>2. PICK k, m \in Nat : Paced(k, m) BY DEF TimeInv
  <2>3. PICK a \in Nat : a = Allowed(k, m) BY <2>1, AllowedIs
  <2>4. a <= Estimate(plan) + stalled /\ (Due => a + Gap(plan) <= Estimate(plan) + stalled)
    BY <2>1, <2>2, <2>3, AllowedIsEstimated DEF Paced
  <2>5. elapsed <= a \/ (wait # Null /\ elapsed <= wait) BY <2>2, <2>3 DEF Paced, Punctual
  <2>6. wait # Null => wait <= a \/ (wait = FinishDelay /\ Outrun) \/ Overslept(a)
    BY <2>2, <2>3 DEF Paced, Punctual
  <2>7. elapsed \in Nat /\ stalled \in Nat /\ Gap(plan) \in Nat /\ (wait # Null => wait \in Nat)
    BY <2>1 DEF WireTypeOK, PaceIs
  <2>8. PICK e \in Nat : e = Estimate(plan) BY <2>1, <2>2, AllowedIsEstimated DEF Paced
  <2>9. SUFFICES elapsed <= e + stalled \/ (Outrun /\ elapsed <= e + stalled + FinishDelay)
    BY <2>7, <2>8 DEF EstimateCovers, FinishDelay, Outrun
  <2>10. CASE elapsed <= a BY <2>4, <2>7, <2>8, <2>10
  <2>11. CASE wait # Null /\ elapsed <= wait
    <3>1. CASE wait <= a BY <2>4, <2>7, <2>8, <2>11, <3>1
    <3>2. CASE wait = FinishDelay /\ Outrun BY <2>7, <2>8, <2>11, <3>2 DEF FinishDelay
    <3>3. CASE Overslept(a)
      <4>1. Due /\ wait <= a + Gap(plan) BY <3>3 DEF Overslept
      <4> QED BY <2>4, <2>7, <2>8, <2>11, <4>1
    <3> QED BY <2>6, <2>11, <3>1, <3>2, <3>3
  <2> QED BY <2>5, <2>10, <2>11
<1> QED BY <1>1, TimeInvariant, WireInvariant, PTL

=================================================================================
