------------------------- MODULE ArtifactPublication -------------------------
(***************************************************************************)
(* How the artifacts of a successful job become readable, and how they are *)
(* taken away again.  Four durable places must agree although no single    *)
(* transaction spans them: the operation row, the capacity account         *)
(* (artifact_blob, artifact_reservation), the publication holds            *)
(* (artifact_publication) and the content directory.                       *)
(*                                                                         *)
(* A producer (artifact_completion.rs) reserves room, stages the bytes     *)
(* under a private name, retains a hold, publishes the stage under its     *)
(* digest and settles the row.  Producers share one thread, so they        *)
(* interleave only while a remote transfer is awaited; a crash may come    *)
(* between any two steps.  Startup (runtime_builder.rs) reconciles what    *)
(* the crash left, and maintenance (maintenance.rs) removes ended rows and *)
(* journals their content for deletion at the next start.                  *)
(***************************************************************************)
EXTENDS Naturals, FiniteSets, FiniteSetsExt

CONSTANTS
    Ops,        \* operations of one target whose job succeeded remotely
    Digests,    \* content digests
    NoDigest,   \* the slot is empty for this operation
    Content,    \* Content[o][s]: the digest operation o puts in slot s
    Length,     \* Length[d]: byte length of the content with digest d
    Limit,      \* committed_plus_reserved_artifact_bytes
    MaxHolds,   \* twice retained_operation_rows
    MaxReviewed \* bound: manifests held for review at once

(* "remote" is the downloaded artifact, "local" the externalized result. *)
Slots == {"remote", "local"}

ASSUME ContentAssumption ==
    /\ IsFiniteSet(Ops) /\ NoDigest \notin Digests
    /\ Content \in [Ops -> [Slots -> Digests \cup {NoDigest}]]
    /\ \A o \in Ops : \E s \in Slots : Content[o][s] # NoDigest
    /\ Length \in [Digests -> Nat \ {0}]
ASSUME BoundAssumption ==
    Limit \in Nat /\ MaxHolds \in Nat /\ MaxReviewed \in Nat

VARIABLES
    phase,        \* the daemon: down, one of the startup stages, or running
    row,          \* the operation's row
    pc,           \* how far the operation's producer has come
    reserved,     \* artifact_reservation: bytes held for each slot
    lost,         \* bytes of reservations whose release failed
    stage,        \* each slot's private file in the content directory
    blobs,        \* artifact_blob: the digests the account charges
    holds,        \* artifact_publication: <<operation, slot>>
    published,    \* the slots whose publish call returned success
    files,        \* digest names present in the content directory
    synced,       \* digest names a directory synchronization has covered
    associations, \* artifact_association: <<operation, slot>>
    reviewed,     \* manifests a preview has shown since the daemon started
    journal,      \* unfinished receipts with their cleanup work
    todo,         \* receipts this start has still to visit
    refusal       \* why the last start was refused

durable  == <<row, blobs, holds, files, synced, associations>>
producer == <<pc, reserved, lost, stage, published>>
upkeep   == <<reviewed, journal, todo>>
vars     == <<phase, row, pc, reserved, lost, stage, blobs, holds, published,
              files, synced, associations, reviewed, journal, todo, refusal>>

-----------------------------------------------------------------------------
Phases  == {"down", "opened", "swept", "cleaned", "running"}
Places  == {"idle", "transferring", "held", "staged", "publishing"}
Manifests == [ops : SUBSET Ops, open : BOOLEAN]
Receipts  == [ops : SUBSET Ops, digests : SUBSET Digests]

TypeOK ==
    /\ phase \in Phases
    /\ row \in [Ops -> {"open", "succeeded", "failed", "removed"}]
    /\ pc \in [Ops -> Places]
    /\ reserved \in [Ops -> [Slots -> Nat]]
    /\ lost \in Nat
    /\ stage \in [Ops -> [Slots -> {"none", "private", "linked", "unlinked"}]]
    /\ blobs \subseteq Digests
    /\ holds \subseteq Ops \X Slots
    /\ published \in [Ops -> SUBSET Slots]
    /\ files \subseteq Digests
    /\ synced \subseteq Digests
    /\ associations \subseteq Ops \X Slots
    /\ reviewed \subseteq Manifests
    /\ journal \subseteq Receipts
    /\ todo \subseteq Receipts
    /\ refusal \in {"none", "stage", "owner"}

Filled(o)  == {s \in Slots : Content[o][s] # NoDigest}
DigestsOf(pairs) == {Content[p[1]][p[2]] : p \in pairs}

NoStage    == [s \in Slots |-> "none"]
Unreserved == [s \in Slots |-> 0]

Init ==
    /\ phase = "running"
    /\ row = [o \in Ops |-> "open"]
    /\ pc = [o \in Ops |-> "idle"]
    /\ reserved = [o \in Ops |-> Unreserved]
    /\ lost = 0
    /\ stage = [o \in Ops |-> NoStage]
    /\ blobs = {} /\ holds = {} /\ files = {} /\ synced = {}
    /\ published = [o \in Ops |-> {}]
    /\ associations = {}
    /\ reviewed = {} /\ journal = {} /\ todo = {}
    /\ refusal = "none"

-----------------------------------------------------------------------------
(* The capacity account. *)

Total(bytes, S) == MapThenSumSet(LAMBDA x : bytes[x], S)

Committed == Total(Length, blobs)
Reserved  == lost + Total([p \in Ops \X Slots |-> reserved[p[1]][p[2]]], Ops \X Slots)

(* The length of what an operation puts in each slot it fills.             *)
Lengths(o) == [s \in Filled(o) |-> Length[Content[o][s]]]

\* Slip: reservations of other producers are left out of what is held.
ReservesPastOthers(o, slots) ==
    LET fresh == {s \in slots : Content[o][s] \notin blobs}
    IN  /\ Committed + Total(Lengths(o), fresh) <= Limit
        /\ reserved' = [reserved EXCEPT ![o] =
                 [s \in Slots |-> IF s \in fresh THEN Lengths(o)[s] ELSE 0]]

(* reserve_artifact for each of the slots in turn: committed content asks  *)
(* for nothing, anything else must fit beside all that is held.            *)
ReserveArtifacts(o, slots) ==
    LET fresh == {s \in slots : Content[o][s] \notin blobs}
    IN  /\ Committed + Reserved + Total(Lengths(o), fresh) <= Limit
        /\ reserved' = [reserved EXCEPT ![o] =
                 [s \in Slots |-> IF s \in fresh THEN Lengths(o)[s] ELSE 0]]

(* retain_publication: the blob row, the hold and the release of the       *)
(* reservation commit together.                                            *)
RetainPublication(o, s) ==
    /\ Cardinality(holds) < MaxHolds
    /\ Content[o][s] \in blobs \/ reserved[o][s] = Length[Content[o][s]]
    /\ blobs' = blobs \cup {Content[o][s]}
    /\ holds' = holds \cup {<<o, s>>}
    /\ reserved' = [reserved EXCEPT ![o][s] = 0]

(* recover_publication: the hold of an earlier attempt is used again and   *)
(* what was reserved for this one is dropped.                              *)
RecoverPublication(o, s) ==
    /\ <<o, s>> \in holds
    /\ reserved' = [reserved EXCEPT ![o][s] = 0]
    /\ UNCHANGED <<blobs, holds>>

HoldContent(o, s) ==
    \/ RecoverPublication(o, s)
    \/ <<o, s>> \notin holds /\ RetainPublication(o, s)

-----------------------------------------------------------------------------
(* The producer of one operation. *)

(* A task keeps the thread until it awaits; only the transfer is awaited. *)
ThreadIsFree ==
    phase = "running" /\ \A o \in Ops : pc[o] \in {"idle", "transferring"}

(* The result names a remote artifact: room for both slots is reserved     *)
(* before the transfer is begun into a private stage.                      *)
BeginTransfer(o) ==
    /\ ThreadIsFree /\ row[o] = "open" /\ pc[o] = "idle"
    /\ "remote" \in Filled(o)
    /\ ReserveArtifacts(o, Filled(o))
    /\ stage' = [stage EXCEPT ![o]["remote"] = "private"]
    /\ pc' = [pc EXCEPT ![o] = "transferring"]
    /\ UNCHANGED <<phase, durable, lost, published, upkeep, refusal>>

(* The result is only too long to travel inline: no await is on its way. *)
BeginLocal(o) ==
    /\ ThreadIsFree /\ row[o] = "open" /\ pc[o] = "idle"
    /\ Filled(o) = {"local"}
    /\ ReserveArtifacts(o, {"local"})
    /\ stage' = [stage EXCEPT ![o]["local"] = "private"]
    /\ pc' = [pc EXCEPT ![o] = "staged"]
    /\ UNCHANGED <<phase, durable, lost, published, upkeep, refusal>>

TransferArrives(o) ==
    /\ ThreadIsFree /\ pc[o] = "transferring"
    /\ HoldContent(o, "remote")
    /\ pc' = [pc EXCEPT ![o] =
                 IF "local" \in Filled(o) THEN "held" ELSE "publishing"]
    /\ UNCHANGED <<phase, row, lost, stage, published, files, synced,
                   associations, upkeep, refusal>>

StageLocal(o) ==
    /\ phase = "running" /\ pc[o] = "held"
    /\ stage' = [stage EXCEPT ![o]["local"] = "private"]
    /\ pc' = [pc EXCEPT ![o] = "staged"]
    /\ UNCHANGED <<phase, durable, reserved, lost, published, upkeep, refusal>>

HoldLocal(o) ==
    /\ phase = "running" /\ pc[o] = "staged"
    /\ HoldContent(o, "local")
    /\ pc' = [pc EXCEPT ![o] = "publishing"]
    /\ UNCHANGED <<phase, row, lost, stage, published, files, synced,
                   associations, upkeep, refusal>>

(* Stages are published in the order they were made. *)
Turn(o, s) ==
    /\ phase = "running" /\ pc[o] = "publishing"
    /\ s \in Filled(o) \ published[o]
    /\ s = "local" => "remote" \notin Filled(o) \ published[o]

(* publish finds the digest name taken: the file there is verified, the    *)
(* stage removed, and the call succeeds.                                   *)
PublishArrival(o, s) ==
    /\ Turn(o, s) /\ stage[o][s] = "private" /\ Content[o][s] \in files
    /\ stage' = [stage EXCEPT ![o][s] = "none"]
    /\ published' = [published EXCEPT ![o] = @ \cup {s}]
    /\ UNCHANGED <<phase, durable, pc, reserved, lost, upkeep, refusal>>

LinkStage(o, s) ==
    /\ Turn(o, s) /\ stage[o][s] = "private" /\ Content[o][s] \notin files
    /\ stage' = [stage EXCEPT ![o][s] = "linked"]
    /\ files' = files \cup {Content[o][s]}
    /\ UNCHANGED <<phase, row, pc, reserved, lost, blobs, holds, published,
                   synced, associations, upkeep, refusal>>

UnlinkStage(o, s) ==
    /\ Turn(o, s) /\ stage[o][s] = "linked"
    /\ stage' = [stage EXCEPT ![o][s] = "unlinked"]
    /\ UNCHANGED <<phase, durable, pc, reserved, lost, published, upkeep,
                   refusal>>

SynchronizeDirectory(o, s) ==
    /\ Turn(o, s) /\ stage[o][s] = "unlinked"
    /\ stage' = [stage EXCEPT ![o][s] = "none"]
    /\ published' = [published EXCEPT ![o] = @ \cup {s}]
    /\ synced' = files
    /\ UNCHANGED <<phase, row, pc, reserved, lost, blobs, holds, files,
                   associations, upkeep, refusal>>

(* settle_success_for_publications: associations, the row and the end of   *)
(* every hold, in one transaction.                                         *)
Settle(o) ==
    /\ phase = "running" /\ pc[o] = "publishing" /\ published[o] = Filled(o)
    /\ LET mine == {o} \X Filled(o)
       IN  /\ mine \subseteq holds
           /\ holds' = holds \ mine
           /\ associations' = associations \cup mine
           /\ blobs' = blobs \cup DigestsOf(mine)
    /\ row' = [row EXCEPT ![o] = "succeeded"]
    /\ pc' = [pc EXCEPT ![o] = "idle"]
    /\ published' = [published EXCEPT ![o] = {}]
    /\ UNCHANGED <<phase, reserved, lost, stage, files, synced, upkeep, refusal>>

(* Any refusal, an unavailable artifact or a dropped future: the stages    *)
(* and reservations of the attempt go with it (the release of a            *)
(* reservation may itself fail), the holds stay.                           *)
Release(o) ==
    /\ reserved' = [reserved EXCEPT ![o] = Unreserved]
    /\ lost' \in {lost, lost + reserved[o]["remote"] + reserved[o]["local"]}
    /\ stage' = [stage EXCEPT ![o] = NoStage]
    /\ published' = [published EXCEPT ![o] = {}]
    /\ pc' = [pc EXCEPT ![o] = "idle"]

(* The answer that ends a transfer is handled when the thread is free. *)
HasThread(o) == pc[o] = "transferring" => ThreadIsFree

Abandon(o) ==
    /\ phase = "running" /\ pc[o] # "idle" /\ HasThread(o)
    /\ Release(o)
    /\ UNCHANGED <<phase, durable, upkeep, refusal>>

(* The row ends without a result: the author reports the artifact gone, or *)
(* another rule ends the row between two attempts.                         *)
Fail(o) ==
    /\ ThreadIsFree /\ row[o] = "open"
    /\ row' = [row EXCEPT ![o] = "failed"]
    /\ Release(o)
    /\ UNCHANGED <<phase, blobs, holds, files, synced, associations, upkeep,
                   refusal>>

-----------------------------------------------------------------------------
(* Maintenance. *)

Ended == {o \in Ops : row[o] \in {"succeeded", "failed"}}

(* preview_with over today's rows.  A cutoff in the past can gain no row   *)
(* any more; an open one takes in whatever has ended by now.               *)
Rederive(manifest) == IF manifest.open THEN Ended ELSE manifest.ops \cap Ended

Preview(manifest) ==
    /\ ThreadIsFree
    /\ manifest.ops # {} /\ manifest.ops \subseteq Ended
    /\ Rederive(manifest) = manifest.ops
    /\ Cardinality(reviewed) < MaxReviewed
    /\ reviewed' = reviewed \cup {manifest}
    /\ UNCHANGED <<phase, durable, producer, journal, todo, refusal>>

\* Slip: rows are removed with no record of the content they leave.
AppliesWithoutJournal(manifest) ==
    /\ ThreadIsFree
    /\ manifest \in reviewed
    /\ Rederive(manifest) = manifest.ops
    /\ LET gone == {a \in associations : a[1] \in manifest.ops}
       IN  /\ journal' = journal \cup {[ops |-> manifest.ops, digests |-> {}]}
           /\ associations' = associations \ gone
    /\ row' = [o \in Ops |-> IF o \in manifest.ops THEN "removed" ELSE row[o]]
    /\ reviewed' = reviewed \ {manifest}
    /\ UNCHANGED <<phase, producer, blobs, holds, files, synced, todo, refusal>>

(* answer_maintenance_apply: the reviewed manifest must still describe the *)
(* rows; rows and associations go, their content is journaled under the    *)
(* receipt.  Holds are neither read nor removed.                           *)
Apply(manifest) ==
    /\ ThreadIsFree
    /\ manifest \in reviewed
    /\ Rederive(manifest) = manifest.ops
    /\ LET gone == {a \in associations : a[1] \in manifest.ops}
       IN  /\ journal' = journal \cup
                 {[ops |-> manifest.ops, digests |-> DigestsOf(gone)]}
           /\ associations' = associations \ gone
    /\ row' = [o \in Ops |-> IF o \in manifest.ops THEN "removed" ELSE row[o]]
    /\ reviewed' = reviewed \ {manifest}
    /\ UNCHANGED <<phase, producer, blobs, holds, files, synced, todo, refusal>>

-----------------------------------------------------------------------------
(* Crash and startup. *)

(* The files and the rows stay; everything in memory is gone. *)
Crash ==
    /\ phase # "down"
    /\ phase' = "down"
    /\ pc' = [o \in Ops |-> "idle"]
    /\ published' = [o \in Ops |-> {}]
    /\ stage' = [o \in Ops |-> [s \in Slots |->
                   IF stage[o][s] = "unlinked" THEN "none" ELSE stage[o][s]]]
    /\ reviewed' = {} /\ todo' = {}
    /\ UNCHANGED <<durable, reserved, lost, journal, refusal>>

(* Opening the database releases every reservation. *)
OpenDatabase ==
    /\ phase = "down"
    /\ phase' = "opened"
    /\ reserved' = [o \in Ops |-> Unreserved]
    /\ lost' = 0
    /\ UNCHANGED <<durable, pc, stage, published, upkeep, refusal>>

StagesLinked == {o \in Ops : \E s \in Slots : stage[o][s] = "linked"}

(* recover_abandoned_stages synchronizes the directory when it removed any. *)
RecoverStages ==
    /\ phase = "opened" /\ StagesLinked = {}
    /\ phase' = "swept"
    /\ stage' = [o \in Ops |-> NoStage]
    /\ synced' = IF \A o \in Ops : stage[o] = NoStage THEN synced ELSE files
    /\ todo' = journal
    /\ UNCHANGED <<row, blobs, holds, files, associations, pc, reserved, lost,
                   published, reviewed, journal, refusal>>

(* A stage with a second name is not private; the daemon does not start. *)
RefuseStages ==
    /\ phase = "opened" /\ StagesLinked # {}
    /\ phase' = "down"
    /\ refusal' = "stage"
    /\ \E swept \in SUBSET (Ops \ StagesLinked) :
          stage' = [o \in Ops |-> IF o \in swept THEN NoStage ELSE stage[o]]
    /\ UNCHANGED <<durable, pc, reserved, lost, published, upkeep>>

\* Slip: only pending publications count as references.
CountsOnlyHolds(digests) == digests \ DigestsOf(holds)

(* The journaled digests that no association and no hold refers to. *)
Unreferenced(digests) == digests \ (DigestsOf(holds) \cup DigestsOf(associations))

(* complete_cleanup_with_store: what nothing refers to is deleted, what an *)
(* association shares is left to its other owner, what only a hold         *)
(* protects stays journaled.                                               *)
CleanReceipt(receipt) ==
    LET gone == Unreferenced(receipt.digests)
        left == receipt.digests \ (gone \cup DigestsOf(associations))
    IN  /\ files' = files \ gone
        /\ synced' = IF gone = {} THEN synced ELSE files \ gone
        /\ blobs' = blobs \ gone
        /\ journal' = (journal \ {receipt}) \cup
             (IF left = {} THEN {} ELSE {[receipt EXCEPT !.digests = left]})

CompleteCleanup(receipt) ==
    /\ phase = "swept" /\ receipt \in todo
    /\ CleanReceipt(receipt)
    /\ todo' = todo \ {receipt}
    /\ UNCHANGED <<phase, row, holds, associations, producer, reviewed, refusal>>

(* Files are deleted inside the transaction that forgets them; when the    *)
(* process ends or the commit fails, only the deletions remain.            *)
InterruptCleanup(receipt) ==
    /\ phase = "swept" /\ receipt \in todo
    /\ \E gone \in SUBSET Unreferenced(receipt.digests) \ {{}} :
          /\ files' = files \ gone
          /\ synced' \in {synced \ gone, files \ gone}
    /\ phase' = "down"
    /\ todo' = {}
    /\ UNCHANGED <<row, blobs, holds, associations, producer, reviewed,
                   journal, refusal>>

FinishCleanup ==
    /\ phase = "swept" /\ todo = {}
    /\ phase' = "cleaned"
    /\ UNCHANGED <<durable, producer, upkeep, refusal>>

Unowned == {h \in holds : row[h[1]] = "removed"}

(* bind_publications: every hold must belong to a retained row. *)
BindPublications ==
    /\ phase = "cleaned"
    /\ \/ Unowned = {} /\ phase' = "running" /\ refusal' = "none"
       \/ Unowned # {} /\ phase' = "down" /\ refusal' = "owner"
    /\ UNCHANGED <<durable, producer, upkeep>>

-----------------------------------------------------------------------------
Produce(o) ==
    \/ BeginTransfer(o) \/ BeginLocal(o)
    \/ TransferArrives(o) \/ StageLocal(o) \/ HoldLocal(o)
    \/ \E s \in Slots : \/ PublishArrival(o, s) \/ LinkStage(o, s)
                        \/ UnlinkStage(o, s) \/ SynchronizeDirectory(o, s)
    \/ Settle(o) \/ Abandon(o) \/ Fail(o)

Start ==
    \/ OpenDatabase \/ RecoverStages \/ RefuseStages
    \/ \E receipt \in todo : CompleteCleanup(receipt) \/ InterruptCleanup(receipt)
    \/ FinishCleanup \/ BindPublications

Next ==
    \/ \E o \in Ops : Produce(o)
    \/ \E manifest \in Manifests : Preview(manifest) \/ Apply(manifest)
    \/ Crash
    \/ Start

Spec == Init /\ [][Next]_vars

-----------------------------------------------------------------------------
(* The bytes the account has promised never exceed the namespace's limit,  *)
(* whatever producers overlap, abandon their transfer or crash.            *)
CapacityIsBounded == Committed + Reserved <= Limit

(* An artifact an association names can be read: its bytes are charged and *)
(* its file is there, through concurrent producers of the same content,    *)
(* maintenance of another owner, and crashes in publication or cleanup.    *)
SettledArtifactIsReadable ==
    DigestsOf(associations) \subseteq blobs \cap files

(* No byte is charged that nobody can give back, and no file is kept that  *)
(* nobody is charged for: charged content has an association, a hold or    *)
(* journaled cleanup work, and every digest name is charged.               *)
ContentIsOwned ==
    /\ files \subseteq blobs
    /\ blobs \subseteq DigestsOf(associations) \cup DigestsOf(holds)
                       \cup UNION {receipt.digests : receipt \in journal}

-----------------------------------------------------------------------------
(* "A process crash ... may leave a stage for startup reconciliation"      *)
(* (ArtifactStore::install): no crash leaves a stage that startup refuses. *)
LeftStageIsReconciled == refusal # "stage"

(* "A publication hold alone is temporary" (complete_cleanup_with_store):  *)
(* its producer publishes an association or releases it, so a hold never   *)
(* survives the row of its producer.                                       *)
HoldHasAProducer == Unowned = {}

(* "Every other failure means durability is unknown and must be reported   *)
(* rather than silently converted into success" (synchronize_directory):   *)
(* no association is acknowledged over a name that was never synchronized. *)
AcknowledgedNameIsDurable == DigestsOf(associations) \subseteq synced

=============================================================================
