----------------------------- MODULE Certificates -----------------------------
(***************************************************************************)
(* The certificate materials: CertificateServiceAdapter over the SQLite    *)
(* store and the login keychain.  The root, the proxy's leaf, the shared   *)
(* PKCS12 identity and the upstream CA are kept as envelopes sealed with   *)
(* one master key, and are rewritten together under one revision.          *)
(*                                                                         *)
(* One process runs one certificate command at a time (material_lock and   *)
(* mutation_gate); nothing prevents a second process on the same database  *)
(* and keychain, so a process here is an instance of the program, and the  *)
(* steps of a command are its accesses to the database and the keychain.   *)
(* Each instance has a page (certificates-view.tsx) that shows what the    *)
(* store held when it was last read, and commands are given from there.    *)
(* A certificate is its addresses (SANs) and the revision it came with;    *)
(* whether a start accepts what is stored is in Startup and Trust.         *)
(***************************************************************************)
EXTENDS Integers, FiniteSets, Optional

CONSTANTS Procs,      (* instances of the program                           *)
          Addresses,  (* DNS names and IPs a leaf can be issued for         *)
          MaxRevision,(* bound: commits of the certificate table            *)
          MaxLosses   (* bound: times the keychain loses the master key     *)

ASSUME NullAssumption ==
  /\ Null \notin Procs \X Nat
  /\ Null \notin [sans : SUBSET Addresses, born : Nat, key : (Procs \X Nat) \cup {Null}, rev : Nat]
ASSUME BoundAssumption == MaxRevision \in Nat /\ MaxLosses \in Nat

VARIABLES db,         (* certificate_state.revision and certificate_material *)
          keychain,   (* the master key, or Null                             *)
          losses,     (* times the key was lost; makes a later key another   *)
          page,       (* what the page of a process shows: a past db         *)
          pc,         (* the next access of the process's command            *)
          job         (* its arguments, and the materials it will write      *)

vars == <<db, keychain, losses, page, pc, job>>

KindSet == {"root", "leaf", "pkcs12", "upstream"}
Keys == Procs \X (0 .. MaxLosses)
Sans == SUBSET Addresses
Revisions == 0 .. MaxRevision
\* born: the revision a certificate was made or imported at, which tells it from others.
Materials == [sans : Sans, born : Revisions, key : Keys \cup {Null}, rev : Revisions]
Stores == [rev : Revisions, mats : [KindSet -> Materials \cup {Null}]]

\* The commands that replace root and leaf, and those that import one material.
Issuing == {"generate", "reissue", "reset"}
Commands == Issuing \cup {"pkcs12", "upstream"}

NoMaterials == [k \in KindSet |-> Null]
Empty == [rev |-> 0, mats |-> NoMaterials]
NoJob == [kind |-> "generate", sans |-> {}, seen |-> Empty, rev |-> 0,
          mats |-> NoMaterials, key |-> Null]

TypeOK ==
  /\ db \in Stores
  /\ keychain \in Keys \cup {Null}
  /\ losses \in 0 .. MaxLosses
  /\ page \in [Procs -> Stores]
  /\ pc \in [Procs -> {"idle", "load", "create", "seal", "add", "commit", "show"}]
  /\ job \in [Procs -> [kind : Commands, sans : Sans, seen : Stores, rev : Revisions,
                        mats : [KindSet -> Materials \cup {Null}], key : Keys \cup {Null}]]

Init ==
  /\ db = Empty
  /\ keychain = Null
  /\ losses = 0
  /\ page = [p \in Procs |-> Empty]
  /\ pc = [p \in Procs |-> "idle"]
  /\ job = [p \in Procs |-> NoJob]

-----------------------------------------------------------------------------
(* What a page shows, and when. *)

Present(mats) == {k \in KindSet : mats[k] # Null}

\* open(): an envelope only opens under the key it was sealed with.
Readable(mats) == \A k \in Present(mats) : keychain # Null /\ mats[k].key = keychain

\* Opening an envelope without a master key first creates the key.
NeedsKey(mats) == Present(mats) # {} /\ keychain = Null

CanInitialize(mats) == mats["root"] = Null /\ mats["leaf"] = Null

Goto(p, to) == pc' = [pc EXCEPT ![p] = to]

Finish(p) == Goto(p, "idle") /\ job' = [job EXCEPT ![p] = NoJob]

\* certificate_overview: before a command, or between the click and the moment the
\* command gets material_lock.  An overview that fails leaves the page as it was.
Refresh(p) ==
  /\ \/ /\ pc[p] \in {"idle", "load"} /\ Readable(db.mats) /\ page[p] # db
        /\ page' = [page EXCEPT ![p] = db] /\ UNCHANGED pc
     \/ pc[p] = "idle" /\ NeedsKey(db.mats) /\ Goto(p, "create") /\ UNCHANGED page
  /\ UNCHANGED <<db, keychain, losses, job>>

\* A command is given from a page that may be out of date.  Initialisation is offered
\* on a page without root and leaf; a reissue or a reset carries the revision shown.
\* (certificates-view.tsx:141-161 and 250-312.)
Begin(p, kind, sans) ==
  /\ pc[p] = "idle"
  /\ db.rev < MaxRevision
  /\ kind \in {"generate", "reissue"} <=> sans # {}
  /\ kind = "generate" => CanInitialize(page[p].mats)
  /\ job' = [job EXCEPT ![p] = [NoJob EXCEPT !.kind = kind, !.sans = sans, !.seen = page[p]]]
  /\ Goto(p, "load")
  /\ UNCHANGED <<db, keychain, losses, page>>

\* A material before it is sealed.
Content(sans, born) == [sans |-> sans, born |-> born, key |-> Null, rev |-> 0]

\* generate_locked and the imports: the materials after the command.  The root is
\* always the one the product embeds.
Changed(j, snap) ==
  CASE j.kind \in {"generate", "reissue"} ->
         [snap.mats EXCEPT !["root"] = Content({}, 0), !["leaf"] = Content(j.sans, snap.rev)]
    [] j.kind = "reset" ->
         [snap.mats EXCEPT !["root"] = Content({}, 0),
                           !["leaf"] = Content(snap.mats["leaf"].sans, snap.rev)]
    [] OTHER -> [snap.mats EXCEPT ![j.kind] = Content({}, snap.rev)]

\* (Fault: the revision the user saw is not asked for.)
AcceptsFault(j, snap) ==
  /\ j.kind = "generate" => CanInitialize(snap.mats)
  /\ j.kind = "reset" => snap.mats["leaf"] # Null

\* generate refuses to overwrite; reissue and reset want the revision the user
\* saw; reset takes the addresses from the old leaf, so it needs one.
Accepts(j, snap) ==
  /\ j.kind = "generate" => CanInitialize(snap.mats)
  /\ j.kind \in {"reissue", "reset"} => j.seen.rev = snap.rev
  /\ j.kind = "reset" => snap.mats["leaf"] # Null

\* load_snapshot: revision and envelopes in one transaction, then each is opened.
Load(p) ==
  /\ pc[p] = "load"
  /\ \/ NeedsKey(db.mats) /\ Goto(p, "create") /\ UNCHANGED job
     \/ /\ Readable(db.mats) /\ Accepts(job[p], db)
        /\ job' = [job EXCEPT ![p].rev = db.rev, ![p].mats = Changed(job[p], db)]
        /\ Goto(p, "seal")
     \/ /\ Readable(db.mats) => ~ Accepts(job[p], db)
        /\ Finish(p)
  /\ UNCHANGED <<db, keychain, losses, page>>

\* master_key: the candidate of a process that found no key.  If another process
\* was first, the candidate is dropped and the key read again.
Candidate(p) == <<p, losses>>
\* (Fault: a process keeps its own candidate although another was first.)
WinnerFault(p) == Candidate(p)
Winner(p) == IF keychain = Null THEN Candidate(p) ELSE keychain

\* The envelopes were sealed with another key: the command fails all the same.
CreateForRead(p) ==
  /\ pc[p] = "create"
  /\ keychain' = IF keychain = Null THEN Candidate(p) ELSE keychain
  /\ Finish(p)
  /\ UNCHANGED <<db, losses, page>>

\* record: every material is sealed anew with the master key.
Seal(p) ==
  /\ pc[p] = "seal"
  /\ IF keychain = Null
     THEN Goto(p, "add") /\ UNCHANGED job
     ELSE job' = [job EXCEPT ![p].key = keychain] /\ Goto(p, "commit")
  /\ UNCHANGED <<db, keychain, losses, page>>

AddKey(p) ==
  /\ pc[p] = "add"
  /\ keychain' = IF keychain = Null THEN Candidate(p) ELSE keychain
  /\ job' = [job EXCEPT ![p].key = Winner(p)]
  /\ Goto(p, "commit")
  /\ UNCHANGED <<db, losses, page>>

\* compare_and_swap_certificate_materials: every loaded kind goes to the next
\* revision in one immediate transaction, unless somebody else committed first.
SwapsFault(expected) == TRUE
Swaps(expected) == db.rev = expected

Stamped(j) ==
  [k \in KindSet |-> IF j.mats[k] = Null THEN db.mats[k]
                     ELSE [j.mats[k] EXCEPT !.key = j.key, !.rev = db.rev + 1]]

Commit(p) ==
  /\ pc[p] = "commit"
  /\ Swaps(job[p].rev) /\ db.rev < MaxRevision
  /\ db' = [rev |-> db.rev + 1, mats |-> Stamped(job[p])]
  /\ Goto(p, "show") /\ job' = [job EXCEPT ![p] = NoJob]
  /\ UNCHANGED <<keychain, losses, page>>

\* The overview that ends a command: it may create a key, it may fail although the
\* command took effect, and only its message is shown; the page is read again.
Show(p) ==
  /\ pc[p] = "show"
  /\ IF NeedsKey(db.mats) THEN Goto(p, "create") /\ UNCHANGED job ELSE Finish(p)
  /\ UNCHANGED <<db, keychain, losses, page>>

\* The keychain, the database or the cryptography fails: nothing more is written.
Fails(p) ==
  /\ pc[p] # "idle"
  /\ Finish(p)
  /\ UNCHANGED <<db, keychain, losses, page>>

\* The user or the system removes the master key from the keychain.
LoseKey ==
  /\ losses < MaxLosses /\ keychain # Null
  /\ losses' = losses + 1 /\ keychain' = Null
  /\ UNCHANGED <<db, page, pc, job>>

Next ==
  \/ \E p \in Procs :
       \/ \E kind \in Commands, sans \in Sans : Begin(p, kind, sans)
       \/ Refresh(p) \/ Load(p) \/ CreateForRead(p) \/ Seal(p) \/ AddKey(p) \/ Commit(p)
       \/ Show(p) \/ Fails(p)
  \/ LoseKey

Spec == Init /\ [][Next]_vars

-----------------------------------------------------------------------------
(* Properties. *)

\* Two processes that seal at the same time agree on one master key: as long as
\* the keychain keeps it, every stored envelope opens (keychain.rs:3-4).
OneKey == losses = 0 => Readable(db.mats)

\* The materials are one snapshot: each carries the revision of the collection.
OneRevision == \A k \in Present(db.mats) : db.mats[k].rev = db.rev

\* Both: whoever writes at the same time, the stored materials are one set.
OneSet == OneKey /\ OneRevision

\* A command changes the kinds it is about and nothing else: it never brings back
\* what another process has replaced since it loaded its snapshot.
Kept(m, n) == (m = Null) = (n = Null) /\ (m # Null => m.sans = n.sans /\ m.born = n.born)

About(kind) == IF kind \in {"pkcs12", "upstream"} THEN {kind} ELSE {"root", "leaf"}

Commits(p) == pc[p] = "commit" /\ pc'[p] = "show"

NothingReverted ==
  [][\A p \in Procs : Commits(p) =>
        \A k \in KindSet \ About(job[p].kind) : Kept(db.mats[k], db'.mats[k])]_vars

\* Root and leaf are only replaced by a user who saw them, however old the page, whatever
\* other instances do and however often a command is given again whose answer was lost:
\* initialisation replaces none, a reissue those on the page, and a reset keeps the
\* addresses the page shows (verify_revision, CERTIFICATE_ALREADY_EXISTS).
ReplacesWhatWasShown ==
  [][\A p \in Procs : Commits(p) /\ job[p].kind \in Issuing =>
        /\ \A k \in {"root", "leaf"} : Kept(job[p].seen.mats[k], db.mats[k])
        /\ job[p].kind = "reset" =>
             db'.mats["leaf"].sans = job[p].seen.mats["leaf"].sans]_vars
=============================================================================
