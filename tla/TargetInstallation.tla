------------------------- MODULE TargetInstallation -------------------------
(***************************************************************************)
(* The one identity of an installation and the ledger of its targets       *)
(* (installation_state.rs, installation.rs), as the daemons of several     *)
(* targets establish their databases under it (establish_durable in        *)
(* runtime_builder.rs, reopen_bound in database.rs).                       *)
(*                                                                         *)
(* All targets share one state root.  It holds the installation record,    *)
(* one directory with one database per target and whatever a replacement   *)
(* of the record left behind.  A process may die between any two of the    *)
(* durable steps, and what is under the root may be lost from outside.     *)
(***************************************************************************)
EXTENDS Naturals, FiniteSets

CONSTANTS
    Targets,   \* runtime namespaces of one state root
    MaxDraws,  \* identities drawn at random, so all different
    Absent     \* no database

ASSUME DrawsAssumption == MaxDraws \in Nat /\ Absent \notin Nat

VARIABLES
    at,        \* how far the daemon of each target has come
    lock,      \* who is inside an installation transaction
    record,    \* the installation record; its identity is 0 while there is none
    held,      \* the copy of the record a starting daemon works on
    spoiled,   \* whether the record is there and cannot be read
    stray,     \* whether an abandoned staging file of the record is there
    database,  \* each target's database, by the identity it carries
    folders,   \* targets whose directory exists
    drawn,     \* identities drawn so far
    served     \* the identity each target was last up under; history

disk == <<record, spoiled, stray, database, folders>>
installationVars == <<at, lock, disk, held, drawn, served>>

-----------------------------------------------------------------------------
Inside == {"locked", "writing", "renaming", "creating", "identifying",
           "opened"}
Steps  == Inside \cup {"down", "up"}

Registrations == {"none", "initializing", "registered"}
Records == [id : 0..drawn, targets : [Targets -> Registrations]]

(* A database that is there but carries no identity yet.                   *)
Bare == 0

NoRecord == [id |-> 0, targets |-> [t \in Targets |-> "none"]]

InstallationTypeOK ==
    /\ at \in [Targets -> Steps]
    /\ lock \subseteq Targets
    /\ drawn \in 0..MaxDraws
    /\ record \in Records /\ held \in [Targets -> Records]
    /\ stray \in BOOLEAN /\ spoiled \in BOOLEAN
    /\ database \in [Targets -> {Absent} \cup 0..drawn]
    /\ folders \subseteq Targets
    /\ served \in [Targets -> 0..drawn]
    /\ \A t \in Targets : at[t] \in Inside \ {"locked"} => held[t].id > 0

InstallationInit ==
    /\ at = [t \in Targets |-> "down"] /\ lock = {}
    /\ record = NoRecord /\ held = [t \in Targets |-> NoRecord]
    /\ stray = FALSE /\ spoiled = FALSE /\ folders = {}
    /\ database = [t \in Targets |-> Absent]
    /\ drawn = 0 /\ served = [t \in Targets |-> 0]

At(t, s)   == at[t] = s
Goto(t, s) == at' = [at EXCEPT ![t] = s]
Hold(t, r) == held' = [held EXCEPT ![t] = r]

-----------------------------------------------------------------------------
(* What the domain says a daemon may do with what it finds.                *)

classify_target(registration, present, matches) ==
    CASE registration = "none" -> IF present THEN "refuse" ELSE "stage"
      [] registration = "initializing" ->
           IF present /\ ~matches THEN "refuse" ELSE "resume"
      [] OTHER -> IF present /\ matches THEN "proceed" ELSE "refuse"

classify_startup(there, readable, occupied, registration, present, matches) ==
    IF ~there THEN IF occupied THEN "refuse" ELSE "create"
    ELSE IF ~readable THEN "refuse"
    ELSE classify_target(registration, present, matches)

-----------------------------------------------------------------------------
(* What establish_durable does. *)

\* Slip: a transaction opens the lock file without locking it.
LocksShared(t) ==
    /\ At(t, "down")
    /\ lock' = lock \cup {t} /\ Goto(t, "locked")
    /\ UNCHANGED <<disk, held, drawn, served>>

(* InstallationState::transaction waits for the lock.                      *)
Lock(t) ==
    /\ At(t, "down") /\ lock = {}
    /\ lock' = lock \cup {t} /\ Goto(t, "locked")
    /\ UNCHANGED <<disk, held, drawn, served>>

\* Slip: a missing record is taken for a first start.
OccupiedNever == FALSE

\* Slip: only a record and the databases count.
OccupiedByDatabases == record.id # 0 \/ \E t \in Targets : database[t] # Absent

(* Anything in the state root other than a lock counts, also a record that *)
(* cannot be read and the directory of a database that is gone.            *)
state_root_occupied ==
    record.id # 0 \/ stray \/ folders # {} \/ \E t \in Targets : At(t, "renaming")

Present(t) == database[t] # Absent

validate_database_registration(t, r) ==
    /\ ~(r.targets[t] = "none" /\ Present(t))
    /\ ~(r.targets[t] = "registered" /\ ~Present(t))

(* reopen_bound compares the identity the database carries.                *)
Audited(t, r) == Present(t) => database[t] = r.id

(* stage refuses a registered target.                                      *)
Stageable(t, r) == r.targets[t] # "registered"

Staged(t, r) == [r EXCEPT !.targets[t] = "initializing"]

(* The lock is freed with the process or when the start is refused.        *)
Leave(t) ==
    /\ Goto(t, "down") /\ lock' = lock \ {t} /\ Hold(t, NoRecord)
    /\ UNCHANGED <<disk, drawn, served>>

Admit(t, r) ==
    IF /\ validate_database_registration(t, r) /\ Audited(t, r)
       /\ Present(t) \/ Stageable(t, r)
      THEN IF Present(t)
             THEN Goto(t, "opened") /\ Hold(t, r)
             ELSE Goto(t, "writing") /\ Hold(t, Staged(t, r))
      ELSE Goto(t, "down") /\ Hold(t, NoRecord)

Read(t) ==
    /\ At(t, "locked") /\ record.id # 0 /\ ~spoiled
    /\ Admit(t, record)
    /\ lock' = IF at'[t] = "down" THEN lock \ {t} ELSE lock
    /\ UNCHANGED <<disk, drawn, served>>

(* A root with nothing in it gets its identity, in memory for now.         *)
Draw(t) ==
    /\ At(t, "locked") /\ record.id = 0 /\ ~state_root_occupied
    /\ drawn < MaxDraws /\ drawn' = drawn + 1
    /\ Admit(t, [NoRecord EXCEPT !.id = drawn + 1])
    /\ lock' = IF at'[t] = "down" THEN lock \ {t} ELSE lock
    /\ UNCHANGED <<disk, served>>

RefuseMissing(t) ==
    /\ At(t, "locked") /\ record.id = 0 /\ state_root_occupied
    /\ Leave(t)

(* read_locked refuses what is no plain file, is open to others, too long, *)
(* malformed or of another format; installation_record passes it on.       *)
RefuseUnreadable(t) ==
    /\ At(t, "locked") /\ record.id # 0 /\ spoiled
    /\ Leave(t)

(* replace: the record beside the published one, then over it.             *)
Write(t) ==
    /\ At(t, "writing") /\ Goto(t, "renaming")
    /\ UNCHANGED <<lock, disk, held, drawn, served>>

(* The target's resources are open and its registration is on disk.        *)
Serve(t) == served' = [served EXCEPT ![t] = held[t].id]

Rename(t) ==
    /\ At(t, "renaming")
    /\ record' = held[t] /\ spoiled' = FALSE
    /\ IF held[t].targets[t] = "registered"
         THEN Goto(t, "up") /\ lock' = lock \ {t} /\ Serve(t)
         ELSE Goto(t, "creating") /\ UNCHANGED <<lock, served>>
    /\ UNCHANGED <<stray, database, folders, held, drawn>>

(* OperationDatabase::open makes the file and its schema.                  *)
Create(t) ==
    /\ At(t, "creating") /\ Goto(t, "identifying")
    /\ folders' = folders \cup {t}
    /\ database' = [database EXCEPT ![t] = Bare]
    /\ UNCHANGED <<lock, record, spoiled, stray, held, drawn, served>>

Identify(t) ==
    /\ At(t, "identifying") /\ Goto(t, "opened")
    /\ database' = [database EXCEPT ![t] = held[t].id]
    /\ UNCHANGED <<lock, record, spoiled, stray, folders, held, drawn, served>>

(* With the target's resources open an unregistered target is registered.  *)
Establish(t) ==
    /\ At(t, "opened")
    /\ IF held[t].targets[t] = "registered"
         THEN Goto(t, "up") /\ lock' = lock \ {t} /\ Serve(t) /\ UNCHANGED held
         ELSE /\ Goto(t, "writing") /\ UNCHANGED <<lock, served>>
              /\ Hold(t, [held[t] EXCEPT !.targets[t] = "registered"])
    /\ UNCHANGED <<disk, drawn>>

(* A step that is refused, a stop, or the death of the process.  Nothing   *)
(* removes the staging file of a replacement that did not come to its      *)
(* rename.                                                                 *)
Depart(t) ==
    /\ at[t] # "down"
    /\ Goto(t, "down") /\ lock' = lock \ {t} /\ Hold(t, NoRecord)
    /\ stray' = (stray \/ At(t, "renaming"))
    /\ UNCHANGED <<record, spoiled, database, folders, drawn, served>>

(* The record, or the database of a target that is down, is lost.          *)
LoseRecord ==
    /\ record.id # 0 /\ lock = {}
    /\ record' = NoRecord /\ spoiled' = FALSE
    /\ UNCHANGED <<at, lock, held, stray, database, folders, drawn, served>>

(* Its file is damaged or opened to others, or put right again.            *)
TouchRecord ==
    /\ record.id # 0
    /\ spoiled' = ~spoiled
    /\ UNCHANGED <<at, lock, held, record, stray, database, folders, drawn, served>>

LoseDatabase(t) ==
    /\ At(t, "down") /\ Present(t)
    /\ database' = [database EXCEPT ![t] = Absent]
    /\ UNCHANGED <<at, lock, held, record, spoiled, stray, folders, drawn, served>>

InstallationNext ==
    \/ \E t \in Targets :
         \/ Lock(t)
         \/ Read(t) \/ Draw(t) \/ RefuseMissing(t) \/ RefuseUnreadable(t)
         \/ Write(t) \/ Rename(t) \/ Create(t) \/ Identify(t)
         \/ Establish(t) \/ Depart(t) \/ LoseDatabase(t)
    \/ LoseRecord \/ TouchRecord

InstallationSpec == InstallationInit /\ [][InstallationNext]_installationVars

-----------------------------------------------------------------------------
(* Remote subscriptions are derived from the identity, so a root never     *)
(* comes to hold two: every database that carries one, the record, and     *)
(* every daemon that is up agree, whichever daemons raced through their    *)
(* first start, wherever they died, and although the record can be lost.   *)
OneIdentity ==
    Cardinality({i \in 1..drawn : \/ record.id = i
                                  \/ \E t \in Targets : database[t] = i
                                  \/ \E t \in Targets : At(t, "up") /\ held[t].id = i})
      <= 1

(* A database nobody's ledger knows is refused forever, so while there is  *)
(* a record it lists the target of every database: no crash comes between  *)
(* them in the wrong order, and no replacement by another target's daemon  *)
(* works from a copy that is older than the entry.                         *)
LedgerKnowsDatabases ==
    record.id # 0 =>
      \A t \in Targets : Present(t) => record.targets[t] # "none"

(* What a target was up under is never replaced: no later start makes it   *)
(* an empty database, gives the root another identity or takes another     *)
(* database for its own, also when the record and every database were lost *)
(* in the meantime and nothing is left to compare with                     *)
(* (installation_record, validate_database_registration, reopen_bound).    *)
ServedIsNeverReplaced ==
    \A t \in Targets : served[t] # 0 =>
      /\ ~At(t, "creating")
      /\ record.id \in {0, served[t]}
      /\ database[t] \in {Absent, served[t]}

(* What a start decides is what classify_startup, which the start does not *)
(* call, says of the state it meets: whether it goes on, whether it draws  *)
(* an identity, and whether it opens a database or makes one.              *)
Decide(t) == Read(t) \/ Draw(t) \/ RefuseMissing(t) \/ RefuseUnreadable(t)

Verdict(t) == classify_startup(record.id # 0, ~spoiled, state_root_occupied,
                               record.targets[t], Present(t), database[t] = record.id)

StartFollowsPolicy ==
    [][\A t \in Targets : Decide(t) =>
         /\ at'[t] = "down" <=> Verdict(t) = "refuse"
         /\ drawn' # drawn <=> Verdict(t) = "create"
         /\ at'[t] = "opened" => Verdict(t) \in {"resume", "proceed"}
         /\ at'[t] = "writing" => Verdict(t) \in {"create", "stage", "resume"}
      ]_installationVars

(* What installation.rs says of a replacement: the record is the old one   *)
(* or the new one.  A root without record and without any target is then   *)
(* a root to start in.                                                     *)
FirstStartIsRepeatable ==
    (lock = {} /\ record.id = 0 /\ folders = {}) => ~state_root_occupied
=============================================================================
