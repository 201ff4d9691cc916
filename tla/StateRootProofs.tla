--------------------------- MODULE StateRootProofs ---------------------------
(***************************************************************************)
(* Proofs about what a state root keeps: the artifacts of its operations    *)
(* and the record of its installation.                                      *)
(*                                                                         *)
(* Publication, for any number of operations, any content they share, any   *)
(* limit and any maintenance: what an association names is charged and on   *)
(* disk, nothing is charged or kept that nobody owns, and what is charged   *)
(* and reserved stays within the limit.  The inductive invariants are       *)
(* PublicationInv and, for the limit, CapacityInv.                          *)
(*                                                                         *)
(* The installation, for any number of targets and of identities drawn: one *)
(* identity per state root, a ledger that lists every database, and the     *)
(* policy's verdict at every start.  The inductive invariant is             *)
(* InstallationInv.                                                         *)
(***************************************************************************)
EXTENDS ArtifactPublication, TargetInstallation, FiniteSetTheorems, WellFoundedInduction, TLAPS

-----------------------------------------------------------------------------
(* The artifacts (ArtifactPublication).                                    *)

Pair(o, s) == <<o, s>>

(* Only content that exists is held or associated.                         *)
PairsAreFilled ==
    \A o \in Ops, s \in Slots :
        Pair(o, s) \in holds \cup associations => s \in Filled(o)

(* Whatever is held is charged: cleanup, which leaves held content alone,  *)
(* never takes the charge from under a producer.                           *)
HeldIsCharged == DigestsOf(holds) \subseteq blobs

(* How far a producer has come says which slots it has and holds.          *)
ProducerHolds ==
    \A o \in Ops :
        /\ pc[o] = "transferring" => "remote" \in Filled(o)
        /\ pc[o] \in {"held", "staged"} =>
             /\ "local" \in Filled(o)
             /\ "remote" \in Filled(o) => Pair(o, "remote") \in holds
        /\ pc[o] = "publishing" => \A s \in Filled(o) : Pair(o, s) \in holds

(* A slot counts as published, and a stage as linked, only while its file  *)
(* is there.  A crash ends the first; startup refuses the second before it *)
(* cleans anything up.                                                     *)
PublishedIsThere ==
    \A o \in Ops, s \in Slots :
        \/ s \in published[o]
        \/ phase = "running" /\ stage[o][s] \in {"linked", "unlinked"}
      => Content[o][s] \in files

(* Files go only while no producer is at work and no stage is left.        *)
NobodyAtWork ==
    /\ phase # "running" => \A o \in Ops : pc[o] = "idle" /\ published[o] = {}
    /\ phase \in {"swept", "cleaned"} => \A o \in Ops : stage[o] = NoStage

PublicationInv ==
    /\ TypeOK /\ PairsAreFilled /\ HeldIsCharged /\ ProducerHolds
    /\ PublishedIsThere /\ NobodyAtWork
    /\ SettledArtifactIsReadable /\ ContentIsOwned

-----------------------------------------------------------------------------
(* What DigestsOf collects.                                                *)
LEMMA DigestMember ==
    ASSUME NEW P \in SUBSET (Ops \X Slots), NEW d
    PROVE  d \in DigestsOf(P)
             <=> \E o \in Ops, s \in Slots : Pair(o, s) \in P /\ d = Content[o][s]
<1>1. ASSUME NEW p \in P, d = Content[p[1]][p[2]]
      PROVE  \E o \in Ops, s \in Slots : Pair(o, s) \in P /\ d = Content[o][s]
  <2>1. p = Pair(p[1], p[2]) /\ p[1] \in Ops /\ p[2] \in Slots BY DEF Pair
  <2> QED BY <1>1, <2>1
<1>2. ASSUME NEW o \in Ops, NEW s \in Slots, Pair(o, s) \in P, d = Content[o][s]
      PROVE  d \in DigestsOf(P)
  <2>1. Pair(o, s)[1] = o /\ Pair(o, s)[2] = s BY DEF Pair
  <2> QED BY <1>2, <2>1 DEF DigestsOf
<1> QED BY <1>1, <1>2 DEF DigestsOf

(* A filled slot has a digest with a length.                               *)
LEMMA FilledHasDigest ==
    ASSUME NEW o \in Ops, NEW s \in Filled(o)
    PROVE  s \in Slots /\ Content[o][s] \in Digests /\ Length[Content[o][s]] \in Nat
BY ContentAssumption DEF Filled

(* An empty reservation and an empty stage have their types.               *)
LEMMA Empties ==
    /\ Unreserved \in [Slots -> Nat]
    /\ NoStage \in [Slots -> {"none", "private", "linked", "unlinked"}]
    /\ \A s \in Slots : NoStage[s] = "none"
BY DEF Unreserved, NoStage

(* What a step owes to the content: it is enough to look at single pairs.  *)
Settled ==
    PairsAreFilled /\ HeldIsCharged /\ SettledArtifactIsReadable /\ ContentIsOwned

(* A step that leaves the account, the holds, the directory, the           *)
(* associations and the journal alone keeps what relates them.             *)
LEMMA ContentKept ==
    ASSUME PublicationInv, UNCHANGED <<blobs, holds, files, associations, journal>>
    PROVE  Settled'
BY DEF PublicationInv, Settled, PairsAreFilled, HeldIsCharged, SettledArtifactIsReadable,
       ContentIsOwned, DigestsOf, Pair, Filled

(* The initial state satisfies the invariant.                              *)
LEMMA PublicationInit == Init => PublicationInv
<1> SUFFICES ASSUME Init PROVE PublicationInv OBVIOUS
<1>1. TypeOK BY Empties DEF Init, TypeOK, Phases, Places
<1>2. PairsAreFilled /\ ProducerHolds /\ NobodyAtWork
  BY DEF Init, PairsAreFilled, ProducerHolds, NobodyAtWork
<1>3. HeldIsCharged /\ SettledArtifactIsReadable /\ ContentIsOwned
  BY DEF Init, HeldIsCharged, SettledArtifactIsReadable, ContentIsOwned, DigestsOf
<1>4. PublishedIsThere BY Empties DEF Init, PublishedIsThere
<1> QED BY <1>1, <1>2, <1>3, <1>4 DEF PublicationInv

-----------------------------------------------------------------------------
(* The steps of a producer that touch no content. *)

(* A reservation is a length or nothing (reserve_artifact).                *)
LEMMA ReservationType ==
    ASSUME TypeOK, NEW o \in Ops, NEW slots \in SUBSET Filled(o), ReserveArtifacts(o, slots)
    PROVE  reserved' \in [Ops -> [Slots -> Nat]]
<1> DEFINE fresh == {s \in slots : Content[o][s] \notin blobs}
           new == [s \in Slots |-> IF s \in fresh THEN Lengths(o)[s] ELSE 0]
<1>1. new \in [Slots -> Nat] BY FilledHasDigest DEF Lengths
<1>2. reserved' = [reserved EXCEPT ![o] = new] BY DEF ReserveArtifacts
<1> HIDE DEF new
<1> QED BY <1>1, <1>2 DEF TypeOK

(* A stage that is begun is private, and makes no file.                    *)
LEMMA BeginPreserves ==
    ASSUME PublicationInv, NEW o \in Ops, BeginTransfer(o) \/ BeginLocal(o)
    PROVE  PublicationInv'
<1> USE DEF PublicationInv
<1>1. reserved' \in [Ops -> [Slots -> Nat]]
  BY ReservationType DEF BeginTransfer, BeginLocal, Filled
<1>2. /\ UNCHANGED <<phase, durable, lost, published, upkeep, refusal>> /\ phase = "running"
      /\ \/ /\ pc' = [pc EXCEPT ![o] = "transferring"] /\ "remote" \in Filled(o)
            /\ stage' = [stage EXCEPT ![o]["remote"] = "private"]
         \/ /\ pc' = [pc EXCEPT ![o] = "staged"] /\ Filled(o) = {"local"}
            /\ stage' = [stage EXCEPT ![o]["local"] = "private"]
  BY DEF BeginTransfer, BeginLocal, ThreadIsFree
<1>8. PICK t \in Slots : stage' = [stage EXCEPT ![o][t] = "private"]
  BY <1>2 DEF Slots
<1>9. /\ stage' \in [Ops -> [Slots -> {"none", "private", "linked", "unlinked"}]]
      /\ \A u \in Ops, s \in Slots : stage'[u][s] \in {stage[u][s], "private"}
  BY <1>8 DEF TypeOK
<1>10. pc' \in [Ops -> Places] BY <1>2 DEF TypeOK, Places
<1>3. TypeOK' BY <1>1, <1>2, <1>9, <1>10 DEF TypeOK, durable, upkeep
<1>4. Settled' BY <1>2, ContentKept DEF durable, upkeep
<1>5. ProducerHolds' BY <1>2 DEF ProducerHolds, TypeOK, durable, Filled
<1>6. PublishedIsThere' BY <1>2, <1>9 DEF PublishedIsThere, durable
<1>7. NobodyAtWork' BY <1>2 DEF NobodyAtWork
<1> QED BY <1>3, <1>4, <1>5, <1>6, <1>7 DEF Settled

(* The externalized result is staged once the remote artifact is held.     *)
LEMMA StageLocalPreserves ==
    ASSUME PublicationInv, NEW o \in Ops, StageLocal(o)
    PROVE  PublicationInv'
<1> USE DEF PublicationInv, StageLocal
<1>1. TypeOK' BY DEF TypeOK, durable, upkeep, Places, Slots
<1>2. Settled' BY ContentKept DEF durable, upkeep
<1>3. ProducerHolds' BY DEF ProducerHolds, TypeOK, durable, Filled
<1>4. PublishedIsThere' BY DEF PublishedIsThere, TypeOK, durable, Slots
<1>5. NobodyAtWork' BY DEF NobodyAtWork
<1> QED BY <1>1, <1>2, <1>3, <1>4, <1>5 DEF Settled

(* Finding the name taken, the stage goes and the file stays.              *)
LEMMA ArrivalPreserves ==
    ASSUME PublicationInv, NEW o \in Ops, NEW s \in Slots, PublishArrival(o, s)
    PROVE  PublicationInv'
<1> USE DEF PublicationInv, PublishArrival, Turn
<1>1. TypeOK' BY DEF TypeOK, durable, upkeep
<1>2. Settled' BY ContentKept DEF durable, upkeep
<1>3. ProducerHolds' BY DEF ProducerHolds, TypeOK, durable, Filled
<1>4. PublishedIsThere' BY DEF PublishedIsThere, TypeOK, durable
<1>5. NobodyAtWork' BY DEF NobodyAtWork
<1> QED BY <1>1, <1>2, <1>3, <1>4, <1>5 DEF Settled

(* The private name goes; the digest name was there before it.             *)
LEMMA UnlinkPreserves ==
    ASSUME PublicationInv, NEW o \in Ops, NEW s \in Slots, UnlinkStage(o, s)
    PROVE  PublicationInv'
<1> USE DEF PublicationInv, UnlinkStage, Turn
<1>1. TypeOK' BY DEF TypeOK, durable, upkeep
<1>2. Settled' BY ContentKept DEF durable, upkeep
<1>3. ProducerHolds' BY DEF ProducerHolds, TypeOK, durable, Filled
<1>4. PublishedIsThere' BY DEF PublishedIsThere, TypeOK, durable
<1>5. NobodyAtWork' BY DEF NobodyAtWork
<1> QED BY <1>1, <1>2, <1>3, <1>4, <1>5 DEF Settled

(* The directory is synchronized and the publication has succeeded.        *)
LEMMA SynchronizePreserves ==
    ASSUME PublicationInv, NEW o \in Ops, NEW s \in Slots, SynchronizeDirectory(o, s)
    PROVE  PublicationInv'
<1> USE DEF PublicationInv, SynchronizeDirectory, Turn
<1>1. TypeOK' BY DEF TypeOK, upkeep
<1>2. Settled' BY ContentKept DEF upkeep
<1>3. ProducerHolds' BY DEF ProducerHolds, TypeOK, Filled
<1>4. PublishedIsThere' BY DEF PublishedIsThere, TypeOK
<1>5. NobodyAtWork' BY DEF NobodyAtWork
<1> QED BY <1>1, <1>2, <1>3, <1>4, <1>5 DEF Settled

(* An attempt that ends without a result drops its stages, its             *)
(* reservations and its record of what it published, and keeps its holds.  *)
LEMMA ReleasePreserves ==
    ASSUME PublicationInv, NEW o \in Ops, Release(o), phase = "running",
           row' \in [Ops -> {"open", "succeeded", "failed", "removed"}],
           UNCHANGED <<phase, blobs, holds, files, synced, associations, upkeep, refusal>>
    PROVE  PublicationInv'
<1> USE DEF PublicationInv, Release
<1>1. TypeOK'
  <2>1. "remote" \in Slots /\ "local" \in Slots BY DEF Slots
  <2>2. lost + reserved[o]["remote"] + reserved[o]["local"] \in Nat BY <2>1 DEF TypeOK
  <2> QED BY <2>2, Empties DEF TypeOK, upkeep, Places
<1>2. Settled' BY ContentKept DEF upkeep
<1>3. ProducerHolds' BY DEF ProducerHolds, TypeOK, Filled
<1>4. PublishedIsThere' BY Empties DEF PublishedIsThere, TypeOK
<1>5. NobodyAtWork' BY DEF NobodyAtWork
<1> QED BY <1>1, <1>2, <1>3, <1>4, <1>5 DEF Settled

-----------------------------------------------------------------------------
(* The steps that hold, publish and settle content. *)

(* DigestsOf distributes over unions and is what it should be on one pair. *)
LEMMA DigestsUnion ==
    ASSUME NEW P, NEW Q
    PROVE  DigestsOf(P \cup Q) = DigestsOf(P) \cup DigestsOf(Q)
BY DEF DigestsOf

(* One pair stands for one digest.                                         *)
LEMMA DigestsOfOne ==
    ASSUME NEW o, NEW s
    PROVE  DigestsOf({Pair(o, s)}) = {Content[o][s]}
<1>1. Pair(o, s)[1] = o /\ Pair(o, s)[2] = s BY DEF Pair
<1> QED BY <1>1 DEF DigestsOf

(* A hold is taken with the charge for its content in one transaction, or  *)
(* was taken so by an earlier attempt (retain_publication,                 *)
(* recover_publication).                                                   *)
LEMMA HoldKeeps ==
    ASSUME PublicationInv, NEW o \in Ops, NEW s \in Filled(o), HoldContent(o, s),
           UNCHANGED <<files, associations, journal>>
    PROVE  /\ Settled' /\ Pair(o, s) \in holds' /\ holds \subseteq holds'
           /\ blobs' \subseteq Digests /\ holds' \subseteq Ops \X Slots
           /\ reserved' \in [Ops -> [Slots -> Nat]]
<1> USE DEF PublicationInv
<1>1. s \in Slots /\ Content[o][s] \in Digests BY FilledHasDigest
<1>2. reserved' = [reserved EXCEPT ![o][s] = 0]
  BY DEF HoldContent, RetainPublication, RecoverPublication
<1>3. reserved' \in [Ops -> [Slots -> Nat]] BY <1>1, <1>2 DEF TypeOK
<1>4. CASE UNCHANGED <<blobs, holds>> /\ <<o, s>> \in holds
  <2>1. Settled' BY <1>4, ContentKept
  <2> QED BY <1>3, <1>4, <2>1 DEF TypeOK, Pair
<1>5. CASE /\ blobs' = blobs \cup {Content[o][s]}
           /\ holds' = holds \cup {<<o, s>>}
  <2>1. DigestsOf(holds)' = DigestsOf(holds) \cup {Content[o][s]}
    <3>1. DigestsOf(holds \cup {Pair(o, s)}) = DigestsOf(holds) \cup {Content[o][s]}
      <4>1. DigestsOf(holds \cup {Pair(o, s)}) = DigestsOf(holds) \cup DigestsOf({Pair(o, s)})
        BY DigestsUnion
      <4>2. DigestsOf({Pair(o, s)}) = {Content[o][s]} BY DigestsOfOne
      <4> QED BY <4>1, <4>2
    <3>2. DigestsOf(holds)' = DigestsOf(holds') BY DEF DigestsOf
    <3> QED BY <1>5, <3>1, <3>2 DEF Pair
  <2>2. DigestsOf(associations)' = DigestsOf(associations) BY DEF DigestsOf
  <2>3. HeldIsCharged' /\ SettledArtifactIsReadable'
    BY <1>5, <2>1, <2>2 DEF HeldIsCharged, SettledArtifactIsReadable
  <2>4. ContentIsOwned' BY <1>5, <2>1, <2>2 DEF ContentIsOwned
  <2>5. PairsAreFilled' BY <1>5 DEF PairsAreFilled, Pair, Filled
  <2> QED BY <1>1, <1>3, <1>5, <2>3, <2>4, <2>5 DEF Settled, TypeOK, Pair
<1> QED BY <1>4, <1>5 DEF HoldContent, RetainPublication, RecoverPublication

(* The bytes have arrived and are held.                                    *)
LEMMA TransferPreserves ==
    ASSUME PublicationInv, NEW o \in Ops, TransferArrives(o)
    PROVE  PublicationInv'
<1> USE DEF PublicationInv, TransferArrives
<1>1. "remote" \in Filled(o) BY DEF ProducerHolds
<1>2. /\ Settled' /\ Pair(o, "remote") \in holds' /\ holds \subseteq holds'
      /\ blobs' \subseteq Digests /\ holds' \subseteq Ops \X Slots
      /\ reserved' \in [Ops -> [Slots -> Nat]]
  BY <1>1, HoldKeeps DEF upkeep
<1>3. TypeOK' BY <1>2 DEF TypeOK, upkeep, Places
<1>4. ProducerHolds'
  <2>1. Filled(o) \subseteq {"remote", "local"} BY DEF Filled, Slots
  <2>2. /\ pc'[o] = IF "local" \in Filled(o) THEN "held" ELSE "publishing"
        /\ \A u \in Ops \ {o} : pc'[u] = pc[u]
    BY DEF TypeOK
  <2>3. \A u \in Ops : Filled(u)' = Filled(u) BY DEF Filled
  <2> QED BY <1>1, <1>2, <2>1, <2>2, <2>3 DEF ProducerHolds
<1>5. PublishedIsThere' BY DEF PublishedIsThere
<1>6. NobodyAtWork' BY DEF NobodyAtWork, ThreadIsFree
<1> QED BY <1>2, <1>3, <1>4, <1>5, <1>6 DEF Settled

(* The externalized result is held: every slot of the operation is.        *)
LEMMA HoldLocalPreserves ==
    ASSUME PublicationInv, NEW o \in Ops, HoldLocal(o)
    PROVE  PublicationInv'
<1> USE DEF PublicationInv, HoldLocal
<1>1. "local" \in Filled(o) BY DEF ProducerHolds
<1>2. /\ Settled' /\ Pair(o, "local") \in holds' /\ holds \subseteq holds'
      /\ blobs' \subseteq Digests /\ holds' \subseteq Ops \X Slots
      /\ reserved' \in [Ops -> [Slots -> Nat]]
  BY <1>1, HoldKeeps DEF upkeep
<1>3. TypeOK' BY <1>2 DEF TypeOK, upkeep, Places
<1>4. ProducerHolds'
  <2>1. Filled(o) \subseteq {"remote", "local"} BY DEF Filled, Slots
  <2> QED BY <1>1, <1>2, <2>1 DEF ProducerHolds, TypeOK, Filled
<1>5. PublishedIsThere' BY DEF PublishedIsThere
<1>6. NobodyAtWork' BY DEF NobodyAtWork
<1> QED BY <1>2, <1>3, <1>4, <1>5, <1>6 DEF Settled

(* The digest name appears; its content is held, and so charged.           *)
LEMMA LinkPreserves ==
    ASSUME PublicationInv, NEW o \in Ops, NEW s \in Slots, LinkStage(o, s)
    PROVE  PublicationInv'
<1> USE DEF PublicationInv, LinkStage, Turn
<1>1. Content[o][s] \in blobs /\ Content[o][s] \in Digests
  <2>1. Pair(o, s) \in holds BY DEF ProducerHolds
  <2>2. Content[o][s] \in DigestsOf(holds) BY <2>1, DigestMember DEF TypeOK
  <2> QED BY <2>2 DEF HeldIsCharged, TypeOK
<1>2. TypeOK' BY <1>1 DEF TypeOK, upkeep
<1>3. Settled'
  <2>1. DigestsOf(associations)' = DigestsOf(associations) /\ DigestsOf(holds)' = DigestsOf(holds)
    BY DEF DigestsOf
  <2>2. PairsAreFilled' BY DEF PairsAreFilled, Pair, Filled
  <2>3. HeldIsCharged' /\ SettledArtifactIsReadable'
    BY <2>1 DEF HeldIsCharged, SettledArtifactIsReadable
  <2>4. ContentIsOwned' BY <1>1, <2>1 DEF ContentIsOwned, upkeep
  <2> QED BY <2>2, <2>3, <2>4 DEF Settled
<1>4. ProducerHolds' BY DEF ProducerHolds, TypeOK, Filled
<1>5. PublishedIsThere' BY DEF PublishedIsThere, TypeOK
<1>6. NobodyAtWork' BY DEF NobodyAtWork
<1> QED BY <1>2, <1>3, <1>4, <1>5, <1>6 DEF Settled

(* Everything the settlement associates was published by this attempt, so  *)
(* its file is there, and held until this transaction, so it is charged.   *)
LEMMA SettlePreserves ==
    ASSUME PublicationInv, NEW o \in Ops, Settle(o)
    PROVE  PublicationInv'
<1> USE DEF PublicationInv, Settle
<1> DEFINE mine == {o} \X Filled(o)
<1>1. /\ mine \subseteq Ops \X Slots /\ mine \subseteq holds
      /\ \A s \in Filled(o) : Pair(o, s) \in mine
      /\ \A u \in Ops, s \in Slots : Pair(u, s) \in mine => u = o /\ s \in Filled(o)
  BY DEF Filled, Pair
<1>2. /\ holds' = holds \ mine /\ associations' = associations \cup mine
      /\ blobs' = blobs \cup DigestsOf(mine)
  OBVIOUS
<1>3. DigestsOf(mine) \subseteq files
  <2>1. \A s \in Filled(o) : s \in Slots /\ Content[o][s] \in files
    BY FilledHasDigest DEF PublishedIsThere
  <2> QED BY <1>1, <2>1, DigestMember
<1>4. /\ DigestsOf(mine) \subseteq blobs
      /\ DigestsOf(holds) = DigestsOf(holds \ mine) \cup DigestsOf(mine)
  <2>1. holds = (holds \ mine) \cup mine BY <1>1
  <2>2. DigestsOf(holds) = DigestsOf(holds \ mine) \cup DigestsOf(mine) BY <2>1, DigestsUnion
  <2> QED BY <2>2 DEF HeldIsCharged
<1> HIDE DEF mine
<1>5. /\ DigestsOf(holds)' = DigestsOf(holds \ mine)
      /\ DigestsOf(associations)' = DigestsOf(associations) \cup DigestsOf(mine)
  <2>1. DigestsOf(holds)' = DigestsOf(holds') /\ DigestsOf(associations)' = DigestsOf(associations')
    BY DEF DigestsOf
  <2> QED BY <1>2, <2>1, DigestsUnion
<1>6. blobs' = blobs /\ files' = files /\ journal' = journal BY <1>2, <1>4 DEF upkeep
<1>7. TypeOK'
  <2>1. holds' \subseteq Ops \X Slots /\ associations' \subseteq Ops \X Slots
    BY <1>1, <1>2 DEF TypeOK
  <2> QED BY <1>6, <2>1 DEF TypeOK, upkeep, Places
<1>8. PairsAreFilled' BY <1>1, <1>2 DEF PairsAreFilled, Filled
<1>9. HeldIsCharged' /\ SettledArtifactIsReadable' /\ ContentIsOwned'
  BY <1>3, <1>4, <1>5, <1>6 DEF HeldIsCharged, SettledArtifactIsReadable, ContentIsOwned
<1>10. ProducerHolds'
  <2>1. \A u \in Ops \ {o}, s \in Slots : Pair(u, s) \in holds => Pair(u, s) \in holds'
    BY <1>1, <1>2
  <2>2. pc' = [pc EXCEPT ![o] = "idle"] OBVIOUS
  <2>3. "remote" \in Slots /\ \A u \in Ops : Filled(u) \subseteq Slots BY DEF Filled, Slots
  <2> QED BY <2>1, <2>2, <2>3 DEF ProducerHolds, TypeOK, Filled
<1>11. PublishedIsThere' BY DEF PublishedIsThere, TypeOK
<1>12. NobodyAtWork' BY DEF NobodyAtWork
<1> QED BY <1>7, <1>8, <1>9, <1>10, <1>11, <1>12

-----------------------------------------------------------------------------
(* Maintenance. *)

(* A preview only remembers a manifest.                                    *)
LEMMA PreviewPreserves ==
    ASSUME PublicationInv, NEW manifest \in Manifests, Preview(manifest)
    PROVE  PublicationInv'
<1> USE DEF PublicationInv, Preview
<1>1. TypeOK' BY DEF TypeOK, durable, producer
<1>2. Settled' BY ContentKept DEF durable
<1>3. ProducerHolds' /\ PublishedIsThere' /\ NobodyAtWork'
  BY DEF ProducerHolds, PublishedIsThere, NobodyAtWork, durable, producer, Filled
<1> QED BY <1>1, <1>2, <1>3 DEF Settled

(* Associations go only into the journal: the content of a removed row has *)
(* an owner until it is cleaned up.                                        *)
LEMMA ApplyPreserves ==
    ASSUME PublicationInv, NEW manifest \in Manifests, Apply(manifest)
    PROVE  PublicationInv'
<1> USE DEF PublicationInv, Apply
<1> DEFINE gone == {a \in associations : a[1] \in manifest.ops}
           receipt == [ops |-> manifest.ops, digests |-> DigestsOf(gone)]
<1>1. gone \subseteq associations /\ associations' = associations \ gone OBVIOUS
<1>2. journal' = journal \cup {receipt} OBVIOUS
<1>3. receipt \in Receipts /\ receipt.digests = DigestsOf(gone)
  <2>1. \A u \in Ops, s \in Slots : Pair(u, s) \in gone => Content[u][s] \in Digests
    BY FilledHasDigest DEF PairsAreFilled
  <2>3. gone \in SUBSET (Ops \X Slots) BY DEF TypeOK
  <2> HIDE DEF gone
  <2>2. DigestsOf(gone) \subseteq Digests BY <2>1, <2>3, DigestMember
  <2> QED BY <2>2 DEF Receipts, Manifests
<1> HIDE DEF gone, receipt
<1>4. /\ DigestsOf(holds)' = DigestsOf(holds)
      /\ DigestsOf(associations) = DigestsOf(associations)' \cup DigestsOf(gone)
  <2>1. DigestsOf(associations)' = DigestsOf(associations') BY DEF DigestsOf
  <2>2. associations = associations' \cup gone BY <1>1
  <2>3. DigestsOf(associations' \cup gone) = DigestsOf(associations') \cup DigestsOf(gone)
    BY DigestsUnion
  <2> QED BY <2>1, <2>2, <2>3 DEF DigestsOf
<1>5. TypeOK' BY <1>1, <1>2, <1>3 DEF TypeOK, producer
<1>6. PairsAreFilled' BY <1>1 DEF PairsAreFilled, Filled
<1>7. HeldIsCharged' /\ SettledArtifactIsReadable'
  BY <1>4 DEF HeldIsCharged, SettledArtifactIsReadable
<1>8. ContentIsOwned'
  <2>1. receipt \in journal' /\ journal \subseteq journal' BY <1>2
  <2>2. DigestsOf(gone) \subseteq UNION {r.digests : r \in journal'} BY <1>3, <2>1
  <2>3. UNION {r.digests : r \in journal} \subseteq UNION {r.digests : r \in journal'}
    BY <2>1
  <2> QED BY <1>4, <2>2, <2>3 DEF ContentIsOwned
<1>9. ProducerHolds' /\ PublishedIsThere' /\ NobodyAtWork'
  BY DEF ProducerHolds, PublishedIsThere, NobodyAtWork, producer, Filled
<1> QED BY <1>5, <1>6, <1>7, <1>8, <1>9

-----------------------------------------------------------------------------
(* Crash and startup. *)

(* A crash ends every attempt; the files and the rows stay.                *)
LEMMA CrashPreserves == PublicationInv /\ Crash => PublicationInv'
<1> SUFFICES ASSUME PublicationInv, Crash PROVE PublicationInv' OBVIOUS
<1> USE DEF PublicationInv, Crash
<1>1. TypeOK'
  <2>1. stage' \in [Ops -> [Slots -> {"none", "private", "linked", "unlinked"}]]
    BY DEF TypeOK
  <2> QED BY <2>1 DEF TypeOK, durable, Phases, Places
<1>2. Settled' BY ContentKept DEF durable
<1>3. ProducerHolds' /\ PublishedIsThere' /\ NobodyAtWork'
  BY DEF ProducerHolds, PublishedIsThere, NobodyAtWork
<1> QED BY <1>1, <1>2, <1>3 DEF Settled

(* Opening the database touches only the reservations.                     *)
LEMMA OpenPreserves == PublicationInv /\ OpenDatabase => PublicationInv'
<1> SUFFICES ASSUME PublicationInv, OpenDatabase PROVE PublicationInv' OBVIOUS
<1> USE DEF PublicationInv, OpenDatabase
<1>1. TypeOK' BY Empties DEF TypeOK, durable, upkeep, Phases
<1>2. Settled' BY ContentKept DEF durable, upkeep
<1>3. ProducerHolds' /\ PublishedIsThere' /\ NobodyAtWork'
  BY DEF ProducerHolds, PublishedIsThere, NobodyAtWork, durable, Filled
<1> QED BY <1>1, <1>2, <1>3 DEF Settled

(* Left stages are swept, so that cleanup begins with none.                *)
LEMMA RecoverStagesPreserves == PublicationInv /\ RecoverStages => PublicationInv'
<1> SUFFICES ASSUME PublicationInv, RecoverStages PROVE PublicationInv' OBVIOUS
<1> USE DEF PublicationInv, RecoverStages
<1>1. TypeOK' BY Empties DEF TypeOK, Phases
<1>2. Settled' BY ContentKept
<1>3. ProducerHolds' /\ PublishedIsThere' /\ NobodyAtWork'
  BY DEF ProducerHolds, PublishedIsThere, NobodyAtWork, Filled
<1> QED BY <1>1, <1>2, <1>3 DEF Settled

(* A refused start may have swept some of them.                            *)
LEMMA RefuseStagesPreserves == PublicationInv /\ RefuseStages => PublicationInv'
<1> SUFFICES ASSUME PublicationInv, RefuseStages PROVE PublicationInv' OBVIOUS
<1> USE DEF PublicationInv, RefuseStages
<1>1. TypeOK'
  <2>1. stage' \in [Ops -> [Slots -> {"none", "private", "linked", "unlinked"}]]
    BY Empties DEF TypeOK
  <2> QED BY <2>1 DEF TypeOK, durable, upkeep, Phases
<1>2. Settled' BY ContentKept DEF durable, upkeep
<1>3. ProducerHolds' /\ PublishedIsThere' /\ NobodyAtWork'
  BY DEF ProducerHolds, PublishedIsThere, NobodyAtWork, durable, Filled
<1> QED BY <1>1, <1>2, <1>3 DEF Settled

(* The last two stages of a start change nothing but its stage.            *)
LEMMA FinishPreserves ==
    PublicationInv /\ (FinishCleanup \/ BindPublications) => PublicationInv'
<1> SUFFICES ASSUME PublicationInv, FinishCleanup \/ BindPublications PROVE PublicationInv'
  OBVIOUS
<1> USE DEF PublicationInv, FinishCleanup, BindPublications
<1>1. TypeOK' BY DEF TypeOK, durable, producer, upkeep, Phases
<1>2. Settled' BY ContentKept DEF durable, upkeep
<1>3. ProducerHolds' BY DEF ProducerHolds, durable, producer, Filled
<1>4. PublishedIsThere'
  BY Empties DEF PublishedIsThere, NobodyAtWork, durable, producer
<1>5. NobodyAtWork' BY DEF NobodyAtWork, producer
<1> QED BY <1>1, <1>2, <1>3, <1>4, <1>5 DEF Settled

(* Cleanup takes away only what no hold and no association names, and      *)
(* whatever it leaves charged is associated or stays journaled.  No        *)
(* producer is at work, so no file a producer counts on goes.              *)
LEMMA CleanupPreserves ==
    ASSUME PublicationInv, NEW receipt \in todo, CompleteCleanup(receipt)
    PROVE  PublicationInv'
<1> USE DEF PublicationInv, CompleteCleanup, CleanReceipt
<1> DEFINE gone == Unreferenced(receipt.digests)
           left == receipt.digests \ (gone \cup DigestsOf(associations))
           kept == [receipt EXCEPT !.digests = left]
<1>1. /\ files' = files \ gone /\ blobs' = blobs \ gone
      /\ synced' = IF gone = {} THEN synced ELSE files \ gone
      /\ journal' = (journal \ {receipt}) \cup (IF left = {} THEN {} ELSE {kept})
  OBVIOUS
<1>2. /\ gone \cap DigestsOf(holds) = {} /\ gone \cap DigestsOf(associations) = {}
      /\ receipt.digests \subseteq gone \cup left \cup DigestsOf(associations)
  BY DEF Unreferenced
<1>3. receipt \in Receipts /\ kept \in Receipts /\ kept.digests = left
  BY DEF TypeOK, Receipts
<1> HIDE DEF gone, left, kept
<1>4. DigestsOf(holds)' = DigestsOf(holds) /\ DigestsOf(associations)' = DigestsOf(associations)
  BY DEF DigestsOf
<1>5. TypeOK' BY <1>1, <1>3 DEF TypeOK, producer
<1>6. PairsAreFilled' BY DEF PairsAreFilled, Filled
<1>7. HeldIsCharged' /\ SettledArtifactIsReadable'
  BY <1>1, <1>2, <1>4 DEF HeldIsCharged, SettledArtifactIsReadable
<1>8. ContentIsOwned'
  <2>1. left \subseteq UNION {r.digests : r \in journal'}
    <3>1. CASE left = {} BY <3>1
    <3>2. CASE left # {}
      <4>1. kept \in journal' BY <1>1, <3>2
      <4> QED BY <1>3, <4>1
    <3> QED BY <3>1, <3>2
  <2>2. \A r \in journal : r # receipt => r \in journal' BY <1>1
  <2>3. ASSUME NEW d \in blobs', d \notin DigestsOf(associations), d \notin DigestsOf(holds)
        PROVE  d \in UNION {r.digests : r \in journal'}
    <3>1. d \in blobs /\ d \notin gone BY <1>1
    <3>2. PICK r \in journal : d \in r.digests BY <2>3, <3>1 DEF ContentIsOwned
    <3>3. CASE r = receipt BY <1>2, <2>1, <2>3, <3>1, <3>2, <3>3
    <3>4. CASE r # receipt BY <2>2, <3>2, <3>4
    <3> QED BY <3>3, <3>4
  <2>4. files' \subseteq blobs' BY <1>1 DEF ContentIsOwned
  <2> QED BY <1>4, <2>3, <2>4 DEF ContentIsOwned
<1>9. ProducerHolds' BY DEF ProducerHolds, producer, Filled
<1>10. PublishedIsThere' /\ NobodyAtWork'
  BY DEF PublishedIsThere, NobodyAtWork, producer
<1> QED BY <1>5, <1>6, <1>7, <1>8, <1>9, <1>10

(* When the commit of a cleanup fails, files are gone that are still       *)
(* charged and journaled; nothing refers to them.                          *)
LEMMA InterruptPreserves ==
    ASSUME PublicationInv, NEW receipt \in todo, InterruptCleanup(receipt)
    PROVE  PublicationInv'
<1> USE DEF PublicationInv, InterruptCleanup
<1>1. PICK gone \in SUBSET Unreferenced(receipt.digests) :
        files' = files \ gone /\ synced' \in {synced \ gone, files \ gone}
  OBVIOUS
<1>2. gone \cap DigestsOf(associations) = {} BY DEF Unreferenced
<1>3. DigestsOf(holds)' = DigestsOf(holds) /\ DigestsOf(associations)' = DigestsOf(associations)
  BY DEF DigestsOf
<1>4. TypeOK' BY <1>1 DEF TypeOK, producer, Phases
<1>5. PairsAreFilled' BY DEF PairsAreFilled, Filled
<1>6. HeldIsCharged' /\ SettledArtifactIsReadable' /\ ContentIsOwned'
  BY <1>1, <1>2, <1>3 DEF HeldIsCharged, SettledArtifactIsReadable, ContentIsOwned
<1>7. ProducerHolds' BY DEF ProducerHolds, producer, Filled
<1>8. PublishedIsThere' /\ NobodyAtWork'
  BY DEF PublishedIsThere, NobodyAtWork, producer
<1> QED BY <1>4, <1>5, <1>6, <1>7, <1>8

-----------------------------------------------------------------------------
(* Every step keeps the invariant, action by action.                       *)
LEMMA PublicationStep == PublicationInv /\ [Next]_vars => PublicationInv'
<1> SUFFICES ASSUME PublicationInv, [Next]_vars PROVE PublicationInv' OBVIOUS
<1>1. ASSUME NEW o \in Ops, Produce(o) PROVE PublicationInv'
  <2>1. CASE Abandon(o)
    <3>1. /\ Release(o) /\ phase = "running" /\ row' = row
          /\ UNCHANGED <<phase, blobs, holds, files, synced, associations, upkeep, refusal>>
      BY <2>1 DEF Abandon, durable, upkeep
    <3>2. row \in [Ops -> {"open", "succeeded", "failed", "removed"}]
      BY DEF PublicationInv, TypeOK
    <3> QED BY <3>1, <3>2, ReleasePreserves
  <2>2. CASE Fail(o)
    <3>1. /\ Release(o) /\ phase = "running"
          /\ UNCHANGED <<phase, blobs, holds, files, synced, associations, upkeep, refusal>>
      BY <2>2 DEF Fail, ThreadIsFree, upkeep
    <3>2. row' \in [Ops -> {"open", "succeeded", "failed", "removed"}]
      BY <2>2 DEF Fail, PublicationInv, TypeOK
    <3> QED BY <3>1, <3>2, ReleasePreserves
  <2> QED
    BY <1>1, <2>1, <2>2, BeginPreserves, TransferPreserves, StageLocalPreserves,
       HoldLocalPreserves, ArrivalPreserves, LinkPreserves, UnlinkPreserves,
       SynchronizePreserves, SettlePreserves DEF Produce
<1>2. ASSUME NEW manifest \in Manifests, Preview(manifest) \/ Apply(manifest)
      PROVE  PublicationInv'
  BY <1>2, PreviewPreserves, ApplyPreserves
<1>3. CASE Start
  BY <1>3, OpenPreserves, RecoverStagesPreserves, RefuseStagesPreserves, CleanupPreserves,
     InterruptPreserves, FinishPreserves DEF Start
<1>4. CASE UNCHANGED vars
  <2>1. TypeOK' BY <1>4 DEF PublicationInv, TypeOK, vars
  <2>2. Settled' BY <1>4, ContentKept DEF vars
  <2>3. ProducerHolds' /\ PublishedIsThere' /\ NobodyAtWork'
    BY <1>4 DEF PublicationInv, ProducerHolds, PublishedIsThere, NobodyAtWork, vars, Filled
  <2> QED BY <2>1, <2>2, <2>3 DEF PublicationInv, Settled
<1> QED BY <1>1, <1>2, <1>3, <1>4, CrashPreserves DEF Next

(* The invariant holds in every reachable state.                           *)
LEMMA PublicationInvariant == Spec => []PublicationInv
BY PublicationInit, PublicationStep, PTL DEF Spec

(* The durable places, the producers and the journal keep their types.     *)
THEOREM PublicationTypeCorrect == Spec => []TypeOK
<1>1. PublicationInv => TypeOK BY DEF PublicationInv
<1> QED BY <1>1, PublicationInvariant, PTL

(* An artifact that an association names can be read, through concurrent   *)
(* producers of the same content, maintenance of another owner, and        *)
(* crashes in publication or cleanup (settle_success_for_publications,     *)
(* complete_cleanup_with_store).                                           *)
THEOREM PublicationSettledArtifactIsReadable == Spec => []SettledArtifactIsReadable
<1>1. PublicationInv => SettledArtifactIsReadable BY DEF PublicationInv
<1> QED BY <1>1, PublicationInvariant, PTL

(* Charged content always has an owner, and every digest name is charged   *)
(* (retain_publication, answer_maintenance_apply,                          *)
(* complete_cleanup_with_store).                                           *)
THEOREM PublicationContentIsOwned == Spec => []ContentIsOwned
<1>1. PublicationInv => ContentIsOwned BY DEF PublicationInv
<1> QED BY <1>1, PublicationInvariant, PTL

-----------------------------------------------------------------------------
(***************************************************************************)
(* Sums.  Total is a fold of the library, that is, a choice among the      *)
(* functions that satisfy its recursion.  One exists for a finite set: it  *)
(* is glued together from those of the smaller sets.  Each induction here  *)
(* is over the finite subsets of a set, by a smallest counterexample.      *)
(***************************************************************************)
Any(s) == CHOOSE x \in s : TRUE

(* One round of the recursion, and what the fold chooses.                  *)
Sum(g, f, s) == IF s = {} THEN 0 ELSE f[Any(s)] + g[s \ {Any(s)}]
Round(g, f, S) == [s \in SUBSET S |-> Sum(g, f, s)]
Solves(g, f, S) == g = Round(g, f, S)
Chosen(f, S) == CHOOSE g : Solves(g, f, S)

(* Numbers on a finite set.                                                *)
IsWeight(f, S) == IsFiniteSet(S) /\ \A x \in S : f[x] \in Nat

(* A set of finite sets has a smallest one.                                *)
LEMMA SmallestSet ==
    ASSUME NEW S, NEW Bad \in SUBSET SUBSET S, IsFiniteSet(S), Bad # {}
    PROVE  \E U \in Bad : IsFiniteSet(U) /\ \A V \in Bad : V \subseteq U => V = U
<1>1. IsWellFoundedOn(StrictSubsetOrdering(S), FiniteSubsetsOf(S))
  BY FS_StrictSubsetOrderingWellFounded
<1>2. \A U \in Bad : U \in FiniteSubsetsOf(S) /\ IsFiniteSet(U)
  BY FS_Subset DEF FiniteSubsetsOf
<1>3. PICK U \in Bad : \A V \in Bad : <<V, U>> \notin StrictSubsetOrdering(S)
  BY <1>1, <1>2, WFMin
<1>4. ASSUME NEW V \in Bad, V \subseteq U PROVE V = U
  BY <1>2, <1>3, <1>4 DEF StrictSubsetOrdering
<1> QED BY <1>2, <1>3, <1>4

(* The fold written out.                                                   *)
LEMMA TotalIsChosen ==
    ASSUME NEW f, NEW S
    PROVE  Total(f, S) = Chosen(f, S)[S]
BY Zenon DEF Total, MapThenSumSet, MapThenFoldSet, Chosen, Solves, Round, Sum, Any

(* What one round says of each subset.                                     *)
LEMMA RoundAt ==
    ASSUME NEW f, NEW S, NEW g, Solves(g, f, S), NEW s \in SUBSET S
    PROVE  g[s] = Sum(g, f, s)
<1>1. Round(g, f, S)[s] = Sum(g, f, s) BY DEF Round
<1> QED BY <1>1 DEF Solves

(* What the fold picks from a set is in it.                                *)
LEMMA AnyIsMember == ASSUME NEW s, s # {} PROVE Any(s) \in s
BY DEF Any

(* Two solutions agree where both are defined, and take natural values.    *)
LEMMA RoundsAgree ==
    ASSUME NEW f, NEW S, IsWeight(f, S), NEW T \in SUBSET S, NEW U \in SUBSET S,
           NEW g, Solves(g, f, T), NEW h, Solves(h, f, U)
    PROVE  \A s \in SUBSET S : s \subseteq T /\ s \subseteq U => g[s] = h[s] /\ g[s] \in Nat
<1> DEFINE Bad == {s \in SUBSET S : /\ s \subseteq T /\ s \subseteq U
                                    /\ ~(g[s] = h[s] /\ g[s] \in Nat)}
<1> SUFFICES ASSUME Bad # {} PROVE FALSE OBVIOUS
<1>1. PICK s \in Bad : \A v \in Bad : v \subseteq s => v = s
  <2>1. Bad \in SUBSET SUBSET S OBVIOUS
  <2> HIDE DEF Bad
  <2> QED BY <2>1, SmallestSet DEF IsWeight
<1>2. /\ g[s] = IF s = {} THEN 0 ELSE f[Any(s)] + g[s \ {Any(s)}]
      /\ h[s] = IF s = {} THEN 0 ELSE f[Any(s)] + h[s \ {Any(s)}]
  <2>1. s \in SUBSET T /\ s \in SUBSET U OBVIOUS
  <2> HIDE DEF Bad
  <2>2. g[s] = Sum(g, f, s) BY <2>1, RoundAt
  <2>3. h[s] = Sum(h, f, s) BY <2>1, RoundAt
  <2> QED BY <2>2, <2>3 DEF Sum
<1>3. s # {} BY <1>2
<1>4. Any(s) \in s BY <1>3, AnyIsMember
<1>5. s \ {Any(s)} \notin Bad BY <1>1, <1>4
<1>6. g[s \ {Any(s)}] = h[s \ {Any(s)}] /\ g[s \ {Any(s)}] \in Nat BY <1>5
<1>7. f[Any(s)] \in Nat BY <1>4 DEF IsWeight
<1> QED BY <1>2, <1>3, <1>6, <1>7

(* There is a solution on every finite set, so the fold chooses one.       *)
LEMMA ChosenSolves ==
    ASSUME NEW f, NEW S, IsWeight(f, S), NEW T \in SUBSET S
    PROVE  Solves(Chosen(f, T), f, T)
<1> DEFINE Solvable(V) == \E g : Solves(g, f, V)
           Bad == {V \in SUBSET S : ~Solvable(V)}
<1> SUFFICES Bad = {} BY DEF Chosen
<1> SUFFICES ASSUME Bad # {} PROVE FALSE OBVIOUS
<1>1. PICK V \in Bad : \A W \in Bad : W \subseteq V => W = V
  <2>1. Bad \in SUBSET SUBSET S OBVIOUS
  <2> HIDE DEF Bad
  <2> QED BY <2>1, SmallestSet DEF IsWeight
<1>2. \A W \in SUBSET V : W # V => Solves(Chosen(f, W), f, W)
  <2>1. \A W \in SUBSET V : W # V => Solvable(W) BY <1>1
  <2> QED BY <2>1 DEF Chosen
<1> DEFINE v(s) == Chosen(f, s)[s]
           G == [s \in SUBSET V |-> IF s = {} THEN 0
                                    ELSE f[Any(s)] + v(s \ {Any(s)})]
<1>3. ASSUME NEW s \in SUBSET V, s # V PROVE G[s] = v(s)
  <2>1. Solves(Chosen(f, s), f, s) BY <1>2, <1>3
  <2>2. v(s) = IF s = {} THEN 0 ELSE f[Any(s)] + Chosen(f, s)[s \ {Any(s)}]
    <3> HIDE DEF G
    <3>1. s \in SUBSET s OBVIOUS
    <3>2. Chosen(f, s)[s] = Sum(Chosen(f, s), f, s) BY <2>1, <3>1, RoundAt
    <3> QED BY <3>2 DEF Sum
  <2>3. CASE s = {} BY <2>2, <2>3
  <2>4. CASE s # {}
    <3> DEFINE r == s \ {Any(s)}
    <3>1. Any(s) \in s BY <2>4, AnyIsMember
    <3>2. r \in SUBSET V /\ r # V /\ r \in SUBSET s BY <3>1
    <3>3. Solves(Chosen(f, r), f, r) BY <1>2, <3>2
    <3>4. Chosen(f, s)[r] = Chosen(f, r)[r]
      <4>1. s \in SUBSET S /\ r \in SUBSET S BY <1>1, <3>2
      <4> HIDE DEF r, G
      <4> QED BY <2>1, <3>2, <3>3, <4>1, RoundsAgree
    <3> QED BY <2>2, <2>4, <3>4
  <2> QED BY <2>3, <2>4
<1>4. Solves(G, f, V)
  <2>1. ASSUME NEW s \in SUBSET V, s # {} PROVE v(s \ {Any(s)}) = G[s \ {Any(s)}]
    <3>1. Any(s) \in s BY <2>1, AnyIsMember
    <3>2. s \ {Any(s)} \in SUBSET V /\ s \ {Any(s)} # V BY <3>1
    <3> HIDE DEF G, v
    <3> QED BY <1>3, <3>2
  <2> DEFINE left(s) == IF s = {} THEN 0 ELSE f[Any(s)] + v(s \ {Any(s)})
             right(s) == IF s = {} THEN 0 ELSE f[Any(s)] + G[s \ {Any(s)}]
  <2>2. \A s \in SUBSET V : left(s) = right(s)
    <3> HIDE DEF G, v
    <3> QED BY <2>1
  <2>3. G = [s \in SUBSET V |-> left(s)] OBVIOUS
  <2>4. Round(G, f, V) = [s \in SUBSET V |-> right(s)] BY DEF Round, Sum
  <2> HIDE DEF G, left, right
  <2> QED BY <2>2, <2>3, <2>4 DEF Solves
<1> HIDE DEF G
<1> QED BY <1>1, <1>4

(* The recursion the fold was written for.                                 *)
LEMMA TotalStep ==
    ASSUME NEW f, NEW S, IsWeight(f, S)
    PROVE  /\ Total(f, S) \in Nat
           /\ S = {} => Total(f, S) = 0
           /\ S # {} => Total(f, S) = f[Any(S)] + Total(f, S \ {Any(S)})
<1>1. Solves(Chosen(f, S), f, S) BY ChosenSolves
<1>2. Total(f, S) = IF S = {} THEN 0 ELSE f[Any(S)] + Chosen(f, S)[S \ {Any(S)}]
  <2>1. S \in SUBSET S OBVIOUS
  <2>2. Chosen(f, S)[S] = Sum(Chosen(f, S), f, S) BY <1>1, <2>1, RoundAt
  <2> QED BY <2>2, TotalIsChosen DEF Sum
<1>3. Total(f, S) \in Nat
  <2>1. S \in SUBSET S OBVIOUS
  <2>2. Chosen(f, S)[S] \in Nat BY <1>1, <2>1, RoundsAgree
  <2> QED BY <2>2, TotalIsChosen
<1>4. ASSUME S # {} PROVE Chosen(f, S)[S \ {Any(S)}] = Total(f, S \ {Any(S)})
  <2> DEFINE r == S \ {Any(S)}
  <2>1. r \in SUBSET S OBVIOUS
  <2> HIDE DEF r
  <2>2. Solves(Chosen(f, r), f, r) BY <2>1, ChosenSolves
  <2>3. Chosen(f, S)[r] = Chosen(f, r)[r]
    <3>1. S \in SUBSET S /\ r \subseteq S /\ r \subseteq r BY <2>1
    <3> QED BY <1>1, <2>1, <2>2, <3>1, RoundsAgree
  <2>4. Chosen(f, S)[r] = Total(f, r) BY <2>3, TotalIsChosen
  <2> QED BY <2>4 DEF r
<1> QED BY <1>2, <1>3, <1>4

(* A weight is one on every subset.                                        *)
LEMMA WeightOfSubset ==
    ASSUME NEW f, NEW S, IsWeight(f, S), NEW T \in SUBSET S PROVE IsWeight(f, T)
BY FS_Subset DEF IsWeight

(* Any member can be taken out first: the order does not matter.           *)
LEMMA TotalRemove ==
    ASSUME NEW f, NEW S, IsWeight(f, S), NEW x \in S
    PROVE  /\ Total(f, S) = f[x] + Total(f, S \ {x})
           /\ Total(f, S \ {x}) \in Nat /\ f[x] \in Nat
<1> DEFINE Splits(s) == \A y \in s : Total(f, s) = f[y] + Total(f, s \ {y})
           Bad == {s \in SUBSET S : ~Splits(s)}
<1>1. SUFFICES Bad = {}
  <2>1. Splits(S) BY <1>1
  <2>2. S \ {x} \in SUBSET S OBVIOUS
  <2>3. Total(f, S \ {x}) \in Nat BY <2>2, WeightOfSubset, TotalStep
  <2> QED BY <2>1, <2>3 DEF IsWeight
<1> SUFFICES ASSUME Bad # {} PROVE FALSE OBVIOUS
<1>2. PICK s \in Bad : \A v \in Bad : v \subseteq s => v = s
  <2>1. Bad \in SUBSET SUBSET S OBVIOUS
  <2> HIDE DEF Bad
  <2> QED BY <2>1, SmallestSet DEF IsWeight
<1>3. PICK y \in s : Total(f, s) # f[y] + Total(f, s \ {y}) BY <1>2
<1> DEFINE a == Any(s)
           both == s \ {a, y}
<1>4. a \in s /\ a \in S /\ y \in S BY <1>2, <1>3, AnyIsMember
<1> HIDE DEF Splits
<1>5. Total(f, s) = f[a] + Total(f, s \ {a})
  BY <1>2, <1>3, WeightOfSubset, TotalStep
<1>6. a # y BY <1>3, <1>5
<1>7. /\ s \ {a} \in SUBSET S /\ Splits(s \ {a})
      /\ s \ {y} \in SUBSET S /\ Splits(s \ {y})
  BY <1>2, <1>3, <1>4
<1>8. Total(f, s \ {a}) = f[y] + Total(f, both) /\ Total(f, s \ {y}) = f[a] + Total(f, both)
  <2>1. y \in s \ {a} /\ a \in s \ {y} BY <1>3, <1>4, <1>6
  <2>2. (s \ {a}) \ {y} = both /\ (s \ {y}) \ {a} = both OBVIOUS
  <2> HIDE DEF both, a
  <2> QED BY <1>7, <2>1, <2>2 DEF Splits
<1>9. f[a] \in Nat /\ f[y] \in Nat /\ Total(f, both) \in Nat
  <2>1. both \in SUBSET S BY <1>2
  <2> QED BY <1>4, <2>1, WeightOfSubset, TotalStep DEF IsWeight
<1> HIDE DEF both, a
<1> QED BY <1>3, <1>5, <1>8, <1>9

(* A sum depends only on its weights.                                      *)
LEMMA TotalAgrees ==
    ASSUME NEW f, NEW h, NEW S, IsWeight(f, S), \A x \in S : f[x] = h[x]
    PROVE  Total(f, S) = Total(h, S)
<1> DEFINE Bad == {s \in SUBSET S : Total(f, s) # Total(h, s)}
<1>1. SUFFICES Bad = {} BY <1>1
<1> SUFFICES ASSUME Bad # {} PROVE FALSE OBVIOUS
<1>2. PICK s \in Bad : \A v \in Bad : v \subseteq s => v = s
  <2>1. Bad \in SUBSET SUBSET S OBVIOUS
  <2> HIDE DEF Bad
  <2> QED BY <2>1, SmallestSet DEF IsWeight
<1>3. IsWeight(f, s) /\ IsWeight(h, s) BY <1>2, FS_Subset DEF IsWeight
<1>4. s # {} BY <1>2, <1>3, TotalStep
<1>5. PICK y \in s : TRUE BY <1>4
<1>6. Total(f, s) = f[y] + Total(f, s \ {y}) /\ Total(h, s) = h[y] + Total(h, s \ {y})
  BY <1>3, TotalRemove
<1>7. s \ {y} \in SUBSET S /\ s \ {y} \notin Bad BY <1>2, <1>5
<1> QED BY <1>2, <1>6, <1>7

(* What a sum is with one member more.                                     *)
LEMMA TotalAdd ==
    ASSUME NEW f, NEW S, IsFiniteSet(S), NEW x, x \notin S, IsWeight(f, S \cup {x})
    PROVE  Total(f, S \cup {x}) = f[x] + Total(f, S)
<1>1. (S \cup {x}) \ {x} = S OBVIOUS
<1>2. x \in S \cup {x} OBVIOUS
<1> QED BY <1>1, <1>2, TotalRemove

(* A larger set has no smaller sum.                                        *)
LEMMA TotalMonotone ==
    ASSUME NEW f, NEW S, IsWeight(f, S), NEW T \in SUBSET S
    PROVE  Total(f, T) <= Total(f, S)
<1> DEFINE Bad == {U \in SUBSET S : T \subseteq U /\ ~(Total(f, T) <= Total(f, U))}
<1>1. SUFFICES Bad = {} BY <1>1
<1> SUFFICES ASSUME Bad # {} PROVE FALSE OBVIOUS
<1>2. PICK U \in Bad : \A V \in Bad : V \subseteq U => V = U
  <2>1. Bad \in SUBSET SUBSET S OBVIOUS
  <2> HIDE DEF Bad
  <2> QED BY <2>1, SmallestSet DEF IsWeight
<1>3. IsWeight(f, U) /\ IsWeight(f, T) BY <1>2, WeightOfSubset
<1>4. Total(f, U) \in Nat /\ Total(f, T) \in Nat BY <1>3, TotalStep
<1>5. PICK y \in U : y \notin T BY <1>2, <1>4
<1>6. /\ Total(f, U) = f[y] + Total(f, U \ {y})
      /\ Total(f, U \ {y}) \in Nat /\ f[y] \in Nat
  BY <1>3, TotalRemove
<1>7. U \ {y} \in SUBSET S /\ T \subseteq U \ {y} /\ U \ {y} \notin Bad BY <1>2, <1>5
<1> QED BY <1>2, <1>4, <1>6, <1>7

(* Nothing sums to nothing.                                                *)
LEMMA TotalOfZeros ==
    ASSUME NEW f, NEW S, IsFiniteSet(S), \A x \in S : f[x] = 0
    PROVE  Total(f, S) = 0
<1> DEFINE Bad == {s \in SUBSET S : Total(f, s) # 0}
<1>1. SUFFICES Bad = {} BY <1>1
<1> SUFFICES ASSUME Bad # {} PROVE FALSE OBVIOUS
<1>2. PICK s \in Bad : \A v \in Bad : v \subseteq s => v = s
  <2>1. Bad \in SUBSET SUBSET S OBVIOUS
  <2> HIDE DEF Bad
  <2> QED BY <2>1, SmallestSet
<1>3. IsWeight(f, s) BY <1>2, FS_Subset DEF IsWeight
<1>4. s # {} BY <1>2, <1>3, TotalStep
<1>5. PICK y \in s : TRUE BY <1>4
<1>6. Total(f, s) = f[y] + Total(f, s \ {y}) BY <1>3, TotalRemove
<1>7. s \ {y} \in SUBSET S /\ s \ {y} \notin Bad BY <1>2, <1>5
<1> QED BY <1>2, <1>6, <1>7

-----------------------------------------------------------------------------
(* The capacity account. *)

(* Only an attempt under way has room reserved, for content it fills; what *)
(* a crash leaves goes when the database is opened.                        *)
ReservationIsInFlight ==
    phase # "down" =>
      \A o \in Ops, s \in Slots : reserved[o][s] # 0 =>
        /\ s \in Filled(o)
        /\ pc[o] = "transferring" \/ (pc[o] \in {"held", "staged"} /\ s = "local")

CapacityInv ==
    PublicationInv /\ IsFiniteSet(blobs) /\ ReservationIsInFlight /\ CapacityIsBounded

(* The account as one sum.                                                 *)
Room(r) == [p \in Ops \X Slots |-> r[p[1]][p[2]]]
Account(b, r, l) == Total(Length, b) + (l + Total(Room(r), Ops \X Slots))

Reservations == [Ops -> [Slots -> Nat]]

(* The limit is about the account, in this state and in the next.          *)
LEMMA AccountIs ==
    /\ CapacityIsBounded <=> Account(blobs, reserved, lost) <= Limit
    /\ CapacityIsBounded' <=> Account(blobs', reserved', lost') <= Limit
    /\ Committed + Reserved = Account(blobs, reserved, lost)
<1>1. Committed + Reserved = Account(blobs, reserved, lost)
  BY DEF Committed, Reserved, Account, Room
<1>2. (Committed + Reserved)' = Account(blobs', reserved', lost')
  BY DEF Committed, Reserved, Account, Room
<1> QED BY <1>1, <1>2 DEF CapacityIsBounded

(* The operations and their slots are finitely many, and bytes are numbers.*)
LEMMA RoomIsWeight ==
    ASSUME NEW r \in Reservations
    PROVE  IsWeight(Room(r), Ops \X Slots)
<1>1. IsFiniteSet(Slots)
  <2>1. Slots = {"remote"} \cup {"local"} BY DEF Slots
  <2>2. IsFiniteSet({"remote"}) /\ IsFiniteSet({"local"}) BY FS_Singleton
  <2> QED BY <2>1, <2>2, FS_Union
<1>2. IsFiniteSet(Ops \X Slots) BY <1>1, ContentAssumption, FS_Product
<1>3. \A p \in Ops \X Slots : Room(r)[p] \in Nat BY DEF Room, Reservations
<1> QED BY <1>2, <1>3 DEF IsWeight

(* So are the lengths of finitely many contents.                           *)
LEMMA LengthIsWeight ==
    ASSUME NEW b \in SUBSET Digests, IsFiniteSet(b)
    PROVE  IsWeight(Length, b)
BY ContentAssumption DEF IsWeight

(* The sums of an account are numbers.                                     *)
LEMMA AccountTypes ==
    ASSUME NEW b \in SUBSET Digests, IsFiniteSet(b), NEW r \in Reservations
    PROVE  Total(Length, b) \in Nat /\ Total(Room(r), Ops \X Slots) \in Nat
BY LengthIsWeight, RoomIsWeight, TotalStep

(* What one operation has reserved, and what the others have.              *)
Others(o) == ((Ops \X Slots) \ {Pair(o, "remote")}) \ {Pair(o, "local")}

(* The sum of all reservations, with those of one operation taken out.     *)
LEMMA RoomOfOne ==
    ASSUME NEW r \in Reservations, NEW o \in Ops
    PROVE  /\ Total(Room(r), Ops \X Slots)
                = r[o]["remote"] + (r[o]["local"] + Total(Room(r), Others(o)))
           /\ Total(Room(r), Others(o)) \in Nat
           /\ r[o]["remote"] \in Nat /\ r[o]["local"] \in Nat
<1> DEFINE P == Ops \X Slots
           first == P \ {Pair(o, "remote")}
<1>1. Pair(o, "remote") \in P /\ Pair(o, "local") \in P /\ Pair(o, "local") \in first
  BY DEF Pair, Slots
<1>2. Room(r)[Pair(o, "remote")] = r[o]["remote"] /\ Room(r)[Pair(o, "local")] = r[o]["local"]
  BY <1>1 DEF Room, Pair
<1>3. IsWeight(Room(r), P) /\ IsWeight(Room(r), first) BY RoomIsWeight, WeightOfSubset
<1> HIDE DEF P, first
<1>4. Total(Room(r), P) = Room(r)[Pair(o, "remote")] + Total(Room(r), first)
  BY <1>1, <1>3, TotalRemove DEF first
<1>5. /\ Total(Room(r), first) = Room(r)[Pair(o, "local")] + Total(Room(r), Others(o))
      /\ Total(Room(r), Others(o)) \in Nat
  BY <1>1, <1>3, TotalRemove DEF first, P, Others
<1>6. r[o]["remote"] \in Nat /\ r[o]["local"] \in Nat BY DEF Reservations, Slots
<1> QED BY <1>2, <1>4, <1>5, <1>6 DEF P

(* A change to one operation's reservations changes the sum by as much.    *)
LEMMA RoomChanges ==
    ASSUME NEW r \in Reservations, NEW q \in Reservations, NEW o \in Ops,
           \A u \in Ops \ {o} : q[u] = r[u]
    PROVE  Total(Room(q), Ops \X Slots) + (r[o]["remote"] + r[o]["local"])
             = Total(Room(r), Ops \X Slots) + (q[o]["remote"] + q[o]["local"])
<1>1. Total(Room(r), Others(o)) = Total(Room(q), Others(o))
  <2>1. IsWeight(Room(r), Others(o))
    <3>1. Others(o) \in SUBSET (Ops \X Slots) BY DEF Others
    <3> QED BY <3>1, RoomIsWeight, WeightOfSubset
  <2>2. \A p \in Others(o) : Room(r)[p] = Room(q)[p]
    <3> SUFFICES ASSUME NEW p \in Others(o) PROVE Room(r)[p] = Room(q)[p] OBVIOUS
    <3>1. /\ p \in Ops \X Slots /\ p[1] \in Ops /\ p[2] \in {"remote", "local"}
          /\ p = Pair(p[1], p[2])
      BY DEF Others, Pair, Slots
    <3>2. p[1] # o BY <3>1 DEF Others
    <3> QED BY <3>1, <3>2 DEF Room
  <2> QED BY <2>1, <2>2, TotalAgrees
<1>2. /\ Total(Room(r), Ops \X Slots)
           = r[o]["remote"] + (r[o]["local"] + Total(Room(r), Others(o)))
      /\ Total(Room(r), Others(o)) \in Nat
      /\ r[o]["remote"] \in Nat /\ r[o]["local"] \in Nat
  BY RoomOfOne
<1>3. /\ Total(Room(q), Ops \X Slots)
           = q[o]["remote"] + (q[o]["local"] + Total(Room(q), Others(o)))
      /\ q[o]["remote"] \in Nat /\ q[o]["local"] \in Nat
  BY RoomOfOne
<1> QED BY <1>1, <1>2, <1>3

(* What is asked for is what is then reserved.                             *)
LEMMA WantedIsReserved ==
    ASSUME NEW o \in Ops, NEW fresh \in SUBSET Filled(o)
    PROVE  Total(Lengths(o), fresh)
             = (IF "remote" \in fresh THEN Lengths(o)["remote"] ELSE 0)
               + (IF "local" \in fresh THEN Lengths(o)["local"] ELSE 0)
<1>1. fresh \subseteq {"remote", "local"} BY DEF Filled, Slots
<1>2. IsWeight(Lengths(o), fresh)
  <2>1. \A s \in fresh : Lengths(o)[s] \in Nat BY FilledHasDigest DEF Lengths
  <2>2. IsFiniteSet({"remote", "local"})
    <3>1. IsFiniteSet({"remote"}) /\ IsFiniteSet({"local"}) BY FS_Singleton
    <3>2. {"remote", "local"} = {"remote"} \cup {"local"} OBVIOUS
    <3> QED BY <3>1, <3>2, FS_Union
  <2> QED BY <1>1, <2>1, <2>2, FS_Subset DEF IsWeight
<1> DEFINE w == Lengths(o)
<1>3. Total(w, {}) = 0
  <2>1. {} \in SUBSET fresh OBVIOUS
  <2> QED BY <1>2, <2>1, WeightOfSubset, TotalStep
<1> HIDE DEF w
<1>4. \A x \in fresh : /\ Total(w, fresh) = w[x] + Total(w, fresh \ {x})
                       /\ Total(w, fresh \ {x}) \in Nat /\ w[x] \in Nat
  BY <1>2, TotalRemove DEF w
<1>5. CASE "remote" \notin fresh /\ "local" \notin fresh
  <2>1. fresh = {} BY <1>1, <1>5
  <2> QED BY <1>3, <1>5, <2>1 DEF w
<1>6. CASE "remote" \in fresh /\ "local" \notin fresh
  <2>1. fresh \ {"remote"} = {} BY <1>1, <1>6
  <2> QED BY <1>3, <1>4, <1>6, <2>1 DEF w
<1>7. CASE "remote" \notin fresh /\ "local" \in fresh
  <2>1. fresh \ {"local"} = {} BY <1>1, <1>7
  <2> QED BY <1>3, <1>4, <1>7, <2>1 DEF w
<1>8. CASE "remote" \in fresh /\ "local" \in fresh
  <2> DEFINE rest == fresh \ {"remote"}
  <2>1. rest \in SUBSET fresh /\ "local" \in rest /\ rest \ {"local"} = {} BY <1>1, <1>8
  <2> HIDE DEF rest
  <2>2. IsWeight(w, rest) BY <1>2, <2>1, WeightOfSubset DEF w
  <2>3. Total(w, rest) = w["local"] + Total(w, rest \ {"local"}) /\ w["local"] \in Nat
    BY <2>1, <2>2, TotalRemove
  <2>4. Total(w, fresh) = w["remote"] + Total(w, rest) /\ w["remote"] \in Nat
    BY <1>4, <1>8 DEF rest
  <2>6. Total(w, rest \ {"local"}) = 0 BY <1>3, <2>1, Zenon
  <2>5. Total(w, fresh) = w["remote"] + w["local"] BY <2>3, <2>4, <2>6
  <2> QED BY <1>8, <2>5 DEF w
<1> QED BY <1>5, <1>6, <1>7, <1>8

(* What a step owes to the account beside PublicationInv.                  *)
AccountKept == IsFiniteSet(blobs) /\ ReservationIsInFlight /\ CapacityIsBounded

(* Nothing is charged, reserved or lost by this step.                      *)
LEMMA AccountUnchanged ==
    ASSUME CapacityInv, UNCHANGED <<blobs, reserved, lost>>
    PROVE  IsFiniteSet(blobs)' /\ CapacityIsBounded'
<1>1. Account(blobs', reserved', lost') = Account(blobs, reserved, lost) OBVIOUS
<1> QED BY <1>1, AccountIs DEF CapacityInv

(* The account of a state that satisfies the invariant is within its limit,*)
(* and its parts are numbers.                                              *)
LEMMA AccountNow ==
    ASSUME CapacityInv
    PROVE  /\ reserved \in Reservations /\ blobs \in SUBSET Digests /\ IsFiniteSet(blobs)
           /\ Total(Length, blobs) \in Nat /\ Total(Room(reserved), Ops \X Slots) \in Nat
           /\ lost \in Nat /\ Limit \in Nat
           /\ Total(Length, blobs) + (lost + Total(Room(reserved), Ops \X Slots)) <= Limit
<1>1. reserved \in Reservations /\ blobs \in SUBSET Digests /\ IsFiniteSet(blobs) /\ lost \in Nat
  BY DEF CapacityInv, PublicationInv, TypeOK, Reservations
<1>2. Total(Length, blobs) + (lost + Total(Room(reserved), Ops \X Slots)) <= Limit
  BY AccountIs DEF CapacityInv, Account
<1> QED BY <1>1, <1>2, AccountTypes, BoundAssumption

(* Room is reserved only beside all that is held (reserve_artifact).       *)
LEMMA ReserveKeepsAccount ==
    ASSUME CapacityInv, NEW o \in Ops, NEW slots \in SUBSET Filled(o),
           ReserveArtifacts(o, slots), phase = "running", pc[o] = "idle",
           UNCHANGED <<blobs, lost>>
    PROVE  /\ CapacityIsBounded' /\ IsFiniteSet(blobs)'
           /\ \A u \in Ops \ {o} : reserved'[u] = reserved[u]
           /\ \A s \in Slots : reserved'[o][s] # 0 => s \in slots
<1> DEFINE fresh == {s \in slots : Content[o][s] \notin blobs}
           new == [s \in Slots |-> IF s \in fresh THEN Lengths(o)[s] ELSE 0]
           wanted == Total(Lengths(o), fresh)
           room == Total(Room(reserved), Ops \X Slots)
<1>1. reserved' = [reserved EXCEPT ![o] = new] /\ Committed + Reserved + wanted <= Limit
  BY DEF ReserveArtifacts
<1>2. reserved \in Reservations /\ reserved' \in Reservations
  BY ReservationType DEF CapacityInv, PublicationInv, TypeOK, Reservations
<1>3. reserved'[o] = new /\ \A u \in Ops \ {o} : reserved'[u] = reserved[u]
  BY <1>1, <1>2 DEF Reservations
<1>4. reserved[o]["remote"] = 0 /\ reserved[o]["local"] = 0
  BY DEF CapacityInv, ReservationIsInFlight, Slots
<1>5. wanted = new["remote"] + new["local"]
  <2>1. fresh \in SUBSET Filled(o) OBVIOUS
  <2>2. "remote" \in Slots /\ "local" \in Slots BY DEF Slots
  <2>3. /\ new["remote"] = IF "remote" \in fresh THEN Lengths(o)["remote"] ELSE 0
        /\ new["local"] = IF "local" \in fresh THEN Lengths(o)["local"] ELSE 0
    BY <2>2
  <2> HIDE DEF fresh, new
  <2> QED BY <2>1, <2>3, WantedIsReserved
<1>6. \A s \in Slots : new[s] # 0 => s \in slots OBVIOUS
<1>7. new["remote"] \in Nat /\ new["local"] \in Nat BY <1>2, <1>3 DEF Reservations, Slots
<1> HIDE DEF fresh, new
<1>8. Total(Room(reserved'), Ops \X Slots) + (reserved[o]["remote"] + reserved[o]["local"])
        = room + (reserved'[o]["remote"] + reserved'[o]["local"])
  BY <1>2, <1>3, RoomChanges
<1>9. Total(Room(reserved'), Ops \X Slots) \in Nat /\ room \in Nat
  BY <1>2, RoomIsWeight, TotalStep
<1>10. /\ Total(Length, blobs) \in Nat /\ lost \in Nat /\ Limit \in Nat
       /\ Total(Length, blobs) + (lost + room) + wanted <= Limit
  BY <1>1, AccountNow, AccountIs DEF Account
<1>11. Total(Room(reserved'), Ops \X Slots) = room + wanted
  <2> HIDE DEF wanted, room
  <2> QED BY <1>3, <1>4, <1>5, <1>7, <1>8, <1>9
<1>12. Total(Length, blobs) + (lost + (room + wanted)) <= Limit
  <2> HIDE DEF wanted, room
  <2>1. wanted \in Nat BY <1>5, <1>7
  <2> QED BY <1>9, <1>10, <2>1
<1>13. CapacityIsBounded' BY <1>11, <1>12, AccountIs DEF Account
<1> QED BY <1>3, <1>6, <1>13 DEF CapacityInv

(* An attempt begins with all the room it wants reserved.                  *)
LEMMA BeginKeepsAccount ==
    ASSUME CapacityInv, NEW o \in Ops, BeginTransfer(o) \/ BeginLocal(o)
    PROVE  AccountKept'
<1>1. PICK slots \in SUBSET Filled(o) :
        /\ ReserveArtifacts(o, slots)
        /\ \/ pc' = [pc EXCEPT ![o] = "transferring"]
           \/ pc' = [pc EXCEPT ![o] = "staged"] /\ slots = {"local"}
  <2>1. CASE BeginTransfer(o) BY <2>1 DEF BeginTransfer
  <2>2. CASE BeginLocal(o) BY <2>2 DEF BeginLocal
  <2> QED BY <2>1, <2>2
<1>2. phase = "running" /\ pc[o] = "idle" /\ UNCHANGED <<phase, blobs, lost>>
  BY DEF BeginTransfer, BeginLocal, ThreadIsFree, durable
<1>3. /\ CapacityIsBounded' /\ IsFiniteSet(blobs)'
      /\ \A u \in Ops \ {o} : reserved'[u] = reserved[u]
      /\ \A s \in Slots : reserved'[o][s] # 0 => s \in slots
  BY <1>1, <1>2, ReserveKeepsAccount
<1>4. ReservationIsInFlight'
  <2>1. pc \in [Ops -> Places] BY DEF CapacityInv, PublicationInv, TypeOK
  <2>2. \A u \in Ops : Filled(u)' = Filled(u) BY DEF Filled
  <2> QED BY <1>1, <1>2, <1>3, <2>1, <2>2 DEF ReservationIsInFlight, CapacityInv
<1> QED BY <1>3, <1>4 DEF AccountKept

(* A hold moves the reserved bytes of its content to the charge, or drops  *)
(* them where the content is charged already.                              *)
LEMMA HoldKeepsAccount ==
    ASSUME CapacityInv, NEW o \in Ops, NEW s \in Filled(o), HoldContent(o, s), lost' = lost
    PROVE  /\ CapacityIsBounded' /\ IsFiniteSet(blobs)'
           /\ reserved'[o][s] = 0
           /\ \A u \in Ops, t \in Slots : <<u, t>> # <<o, s>> => reserved'[u][t] = reserved[u][t]
<1> DEFINE room == Total(Room(reserved), Ops \X Slots)
           room2 == Total(Room(reserved'), Ops \X Slots)
<1>1. s \in Slots /\ s \in {"remote", "local"} /\ Content[o][s] \in Digests
  BY FilledHasDigest DEF Slots
<1>2. reserved' = [reserved EXCEPT ![o][s] = 0]
  BY DEF HoldContent, RetainPublication, RecoverPublication
<1>3. /\ reserved \in Reservations /\ blobs \in SUBSET Digests /\ IsFiniteSet(blobs)
      /\ Total(Length, blobs) \in Nat /\ room \in Nat /\ lost \in Nat /\ Limit \in Nat
      /\ Total(Length, blobs) + (lost + room) <= Limit
  BY AccountNow
<1>4. /\ reserved' \in Reservations /\ reserved'[o][s] = 0
      /\ \A u \in Ops, t \in Slots : <<u, t>> # <<o, s>> => reserved'[u][t] = reserved[u][t]
      /\ \A u \in Ops \ {o} : reserved'[u] = reserved[u]
  BY <1>1, <1>2, <1>3 DEF Reservations
<1>5. reserved[o][s] \in Nat BY <1>1, <1>3 DEF Reservations
<1>6. room2 \in Nat BY <1>4, RoomIsWeight, TotalStep
<1>7. room2 + reserved[o][s] = room
  <2>1. room2 + (reserved[o]["remote"] + reserved[o]["local"])
          = room + (reserved'[o]["remote"] + reserved'[o]["local"])
    BY <1>3, <1>4, RoomChanges
  <2>2. reserved[o]["remote"] \in Nat /\ reserved[o]["local"] \in Nat
    BY <1>3 DEF Reservations, Slots
  <2> HIDE DEF room, room2
  <2>3. CASE s = "remote"
    <3>1. reserved'[o]["remote"] = 0 /\ reserved'[o]["local"] = reserved[o]["local"]
      BY <1>4, <2>3 DEF Slots
    <3> QED BY <1>3, <1>6, <2>1, <2>2, <2>3, <3>1
  <2>4. CASE s = "local"
    <3>1. reserved'[o]["local"] = 0 /\ reserved'[o]["remote"] = reserved[o]["remote"]
      BY <1>4, <2>4 DEF Slots
    <3> QED BY <1>3, <1>6, <2>1, <2>2, <2>4, <3>1
  <2> QED BY <1>1, <2>3, <2>4
<1>8. CASE blobs' = blobs
  <2>1. Total(Length, blobs) + (lost + room2) <= Limit
    <3> HIDE DEF room, room2
    <3> QED BY <1>3, <1>5, <1>6, <1>7
  <2>2. CapacityIsBounded' BY <1>8, <2>1, AccountIs DEF Account
  <2> QED BY <1>3, <1>4, <1>8, <2>2
<1>9. CASE /\ blobs' = blobs \cup {Content[o][s]} /\ Content[o][s] \notin blobs
           /\ reserved[o][s] = Length[Content[o][s]]
  <2>1. IsFiniteSet(blobs') /\ blobs' \in SUBSET Digests
    BY <1>1, <1>3, <1>9, FS_AddElement
  <2>2. Total(Length, blobs') = Length[Content[o][s]] + Total(Length, blobs)
    <3>1. IsWeight(Length, blobs \cup {Content[o][s]}) BY <1>9, <2>1, LengthIsWeight
    <3> QED BY <1>3, <1>9, <3>1, TotalAdd
  <2>3. Total(Length, blobs') + (lost + room2) <= Limit
    <3> HIDE DEF room, room2
    <3> QED BY <1>3, <1>5, <1>6, <1>7, <1>9, <2>2
  <2>4. CapacityIsBounded' BY <2>3, AccountIs DEF Account
  <2> QED BY <1>4, <2>1, <2>4
<1>10. blobs' = blobs \/ (/\ blobs' = blobs \cup {Content[o][s]} /\ Content[o][s] \notin blobs
                          /\ reserved[o][s] = Length[Content[o][s]])
  BY DEF HoldContent, RetainPublication, RecoverPublication
<1> QED BY <1>8, <1>9, <1>10

(* With its content held an attempt has that much less reserved.           *)
LEMMA ArriveKeepsAccount ==
    ASSUME CapacityInv, NEW o \in Ops, TransferArrives(o) \/ HoldLocal(o)
    PROVE  AccountKept'
<1>1. /\ pc \in [Ops -> Places] /\ \A u \in Ops : Filled(u)' = Filled(u)
      /\ phase = "running" /\ phase' = phase
      /\ ReservationIsInFlight /\ ProducerHolds
  BY DEF CapacityInv, PublicationInv, TypeOK, Filled, TransferArrives, HoldLocal, ThreadIsFree
<1>2. CASE TransferArrives(o)
  <2>1. "remote" \in Filled(o) BY <1>1, <1>2 DEF TransferArrives, ProducerHolds
  <2>2. /\ CapacityIsBounded' /\ IsFiniteSet(blobs)' /\ reserved'[o]["remote"] = 0
        /\ \A u \in Ops, t \in Slots :
             <<u, t>> # <<o, "remote">> => reserved'[u][t] = reserved[u][t]
    BY <1>2, <2>1, HoldKeepsAccount DEF TransferArrives
  <2>3. pc' = [pc EXCEPT ![o] = IF "local" \in Filled(o) THEN "held" ELSE "publishing"]
    BY <1>2 DEF TransferArrives
  <2>4. ReservationIsInFlight'
    BY <1>1, <2>2, <2>3 DEF ReservationIsInFlight, Slots
  <2> QED BY <2>2, <2>4 DEF AccountKept
<1>3. CASE HoldLocal(o)
  <2>1. "local" \in Filled(o) BY <1>1, <1>3 DEF HoldLocal, ProducerHolds
  <2>2. /\ CapacityIsBounded' /\ IsFiniteSet(blobs)' /\ reserved'[o]["local"] = 0
        /\ \A u \in Ops, t \in Slots :
             <<u, t>> # <<o, "local">> => reserved'[u][t] = reserved[u][t]
    BY <1>3, <2>1, HoldKeepsAccount DEF HoldLocal
  <2>3. pc' = [pc EXCEPT ![o] = "publishing"] /\ pc[o] = "staged" BY <1>3 DEF HoldLocal
  <2>4. ReservationIsInFlight'
    BY <1>1, <2>2, <2>3 DEF ReservationIsInFlight, Slots
  <2> QED BY <2>2, <2>4 DEF AccountKept
<1> QED BY <1>2, <1>3

(* What an attempt gives back, or loses to a failed release, was counted.  *)
LEMMA ReleaseKeepsAccount ==
    ASSUME CapacityInv, NEW o \in Ops, Release(o), UNCHANGED <<phase, blobs>>
    PROVE  AccountKept'
<1> DEFINE room == Total(Room(reserved), Ops \X Slots)
           room2 == Total(Room(reserved'), Ops \X Slots)
           mine == reserved[o]["remote"] + reserved[o]["local"]
<1>1. /\ reserved \in Reservations /\ blobs \in SUBSET Digests /\ IsFiniteSet(blobs)
      /\ Total(Length, blobs) \in Nat /\ room \in Nat /\ lost \in Nat /\ Limit \in Nat
      /\ Total(Length, blobs) + (lost + room) <= Limit
  BY AccountNow
<1>2. /\ reserved' \in Reservations /\ reserved'[o] = Unreserved
      /\ \A u \in Ops \ {o} : reserved'[u] = reserved[u]
  BY <1>1, Empties DEF Release, Reservations
<1>3. \A s \in Slots : reserved'[o][s] = 0 BY <1>2 DEF Unreserved
<1>4. /\ reserved[o]["remote"] \in Nat /\ reserved[o]["local"] \in Nat
      /\ reserved'[o]["remote"] = 0 /\ reserved'[o]["local"] = 0
  BY <1>1, <1>3 DEF Reservations, Slots
<1>5. room2 \in Nat BY <1>2, RoomIsWeight, TotalStep
<1>6. room2 + mine = room + (reserved'[o]["remote"] + reserved'[o]["local"])
  BY <1>1, <1>2, RoomChanges
<1>7. lost' \in {lost, lost + mine}
  <2>1. lost + reserved[o]["remote"] + reserved[o]["local"] = lost + mine BY <1>1, <1>4
  <2> QED BY <2>1 DEF Release
<1> HIDE DEF room, room2
<1>8. Total(Length, blobs) + (lost' + room2) <= Limit
  <2>1. mine \in Nat /\ room2 + mine = room BY <1>1, <1>4, <1>5, <1>6
  <2> HIDE DEF mine
  <2> QED BY <1>1, <1>5, <1>7, <2>1
<1>9. CapacityIsBounded' BY <1>8, AccountIs DEF Account, room2
<1>10. ReservationIsInFlight'
  <2>1. \A u \in Ops \ {o} : pc'[u] = pc[u]
    BY DEF Release, CapacityInv, PublicationInv, TypeOK
  <2>2. \A u \in Ops : Filled(u)' = Filled(u) BY DEF Filled
  <2> QED BY <1>2, <1>3, <2>1, <2>2 DEF ReservationIsInFlight, CapacityInv
<1> QED BY <1>1, <1>9, <1>10 DEF AccountKept

(* Opening the database drops every reservation a crash has left.          *)
LEMMA OpenKeepsAccount == CapacityInv /\ OpenDatabase => AccountKept'
<1> SUFFICES ASSUME CapacityInv, OpenDatabase PROVE AccountKept' OBVIOUS
<1>1. /\ Total(Length, blobs) \in Nat /\ Total(Room(reserved), Ops \X Slots) \in Nat
      /\ lost \in Nat /\ Limit \in Nat /\ IsFiniteSet(blobs)
      /\ Total(Length, blobs) + (lost + Total(Room(reserved), Ops \X Slots)) <= Limit
  BY AccountNow
<1>2. /\ reserved' \in Reservations /\ lost' = 0 /\ blobs' = blobs
      /\ \A o \in Ops, s \in Slots : reserved'[o][s] = 0
  BY DEF OpenDatabase, Unreserved, Reservations, durable
<1>3. Total(Room(reserved'), Ops \X Slots) = 0
  <2>1. \A p \in Ops \X Slots : Room(reserved')[p] = 0 BY <1>2 DEF Room
  <2>2. IsFiniteSet(Ops \X Slots) BY <1>2, RoomIsWeight DEF IsWeight
  <2> QED BY <2>1, <2>2, TotalOfZeros
<1>4. Total(Length, blobs') + (lost' + Total(Room(reserved'), Ops \X Slots)) <= Limit
  BY <1>1, <1>2, <1>3
<1>5. CapacityIsBounded' BY <1>4, AccountIs DEF Account
<1>6. ReservationIsInFlight' BY <1>2 DEF ReservationIsInFlight
<1> QED BY <1>1, <1>2, <1>5, <1>6 DEF AccountKept

(* Cleanup only takes charges away.                                        *)
LEMMA CleanupKeepsAccount ==
    ASSUME CapacityInv, NEW receipt \in todo, CompleteCleanup(receipt)
    PROVE  AccountKept'
<1>1. blobs' \subseteq blobs /\ UNCHANGED <<phase, pc, reserved, lost>>
  BY DEF CompleteCleanup, CleanReceipt, producer
<1>2. /\ reserved \in Reservations /\ blobs \in SUBSET Digests /\ IsFiniteSet(blobs)
      /\ Total(Length, blobs) \in Nat /\ Total(Room(reserved), Ops \X Slots) \in Nat
      /\ lost \in Nat /\ Limit \in Nat
      /\ Total(Length, blobs) + (lost + Total(Room(reserved), Ops \X Slots)) <= Limit
  BY AccountNow
<1>3. IsFiniteSet(blobs') BY <1>1, <1>2, FS_Subset
<1>4. Total(Length, blobs') <= Total(Length, blobs) /\ Total(Length, blobs') \in Nat
  <2>1. blobs' \in SUBSET blobs BY <1>1
  <2> QED BY <1>2, <2>1, LengthIsWeight, WeightOfSubset, TotalMonotone, TotalStep
<1>5. Total(Length, blobs') + (lost + Total(Room(reserved), Ops \X Slots)) <= Limit
  BY <1>2, <1>4
<1>6. CapacityIsBounded' BY <1>1, <1>5, AccountIs DEF Account
<1>7. ReservationIsInFlight' BY <1>1 DEF ReservationIsInFlight, CapacityInv, Filled
<1> QED BY <1>3, <1>6, <1>7 DEF AccountKept

(* A settlement charges nothing that was not charged for its holds.        *)
LEMMA SettleKeepsAccount ==
    ASSUME CapacityInv, NEW o \in Ops, Settle(o)
    PROVE  AccountKept'
<1> DEFINE mine == {o} \X Filled(o)
<1>1. blobs' = blobs
  <2>1. mine \subseteq holds /\ blobs' = blobs \cup DigestsOf(mine) BY DEF Settle
  <2>2. holds = holds \cup mine BY <2>1
  <2> HIDE DEF mine
  <2>3. DigestsOf(holds \cup mine) = DigestsOf(holds) \cup DigestsOf(mine) BY DigestsUnion
  <2>4. DigestsOf(mine) \subseteq DigestsOf(holds) BY <2>2, <2>3, Zenon
  <2> QED BY <2>1, <2>4 DEF CapacityInv, PublicationInv, HeldIsCharged
<1>2. UNCHANGED <<phase, reserved, lost>> /\ pc[o] = "publishing"
      /\ \A u \in Ops \ {o} : pc'[u] = pc[u]
  BY DEF Settle, CapacityInv, PublicationInv, TypeOK
<1>3. ReservationIsInFlight' BY <1>2 DEF ReservationIsInFlight, CapacityInv, Filled
<1> QED BY <1>1, <1>2, <1>3, AccountUnchanged DEF AccountKept

(* The remaining steps touch neither the account nor, while the daemon is  *)
(* up, who has room reserved.                                              *)
LEMMA QuietKeepsAccount ==
    ASSUME CapacityInv, UNCHANGED <<blobs, reserved, lost>>,
           \/ phase' = "down"
           \/ phase # "down" /\ \A o \in Ops : \/ pc'[o] = pc[o]
                                               \/ pc[o] = "held" /\ pc'[o] = "staged"
    PROVE  AccountKept'
<1>1. ReservationIsInFlight' BY DEF ReservationIsInFlight, CapacityInv, Filled
<1> QED BY <1>1, AccountUnchanged DEF AccountKept

(* Every step keeps the account, action by action.                         *)
LEMMA CapacityStep == CapacityInv /\ [Next]_vars => CapacityInv'
<1> SUFFICES ASSUME CapacityInv, [Next]_vars PROVE CapacityInv' OBVIOUS
<1>1. PublicationInv' BY PublicationStep DEF CapacityInv
<1> SUFFICES AccountKept' BY <1>1 DEF CapacityInv, AccountKept
<1>2. ASSUME NEW o \in Ops, Produce(o) PROVE AccountKept'
  <2>1. CASE Abandon(o) \/ Fail(o)
    BY <2>1, ReleaseKeepsAccount DEF Abandon, Fail, durable
  <2>2. CASE StageLocal(o)
    BY <2>2, QuietKeepsAccount DEF StageLocal, CapacityInv, PublicationInv, TypeOK, durable
  <2>3. ASSUME NEW s \in Slots,
               PublishArrival(o, s) \/ LinkStage(o, s) \/ UnlinkStage(o, s)
                 \/ SynchronizeDirectory(o, s)
        PROVE  AccountKept'
    <3>1. UNCHANGED <<phase, pc, blobs, reserved, lost>> /\ phase = "running"
      BY <2>3 DEF PublishArrival, LinkStage, UnlinkStage, SynchronizeDirectory, Turn, durable
    <3> QED BY <3>1, QuietKeepsAccount
  <2> QED
    BY <1>2, <2>1, <2>2, <2>3, BeginKeepsAccount, ArriveKeepsAccount, SettleKeepsAccount
       DEF Produce
<1>3. ASSUME NEW manifest \in Manifests, Preview(manifest) \/ Apply(manifest)
      PROVE  AccountKept'
  <2>1. UNCHANGED <<phase, pc, blobs, reserved, lost>> /\ phase = "running"
    BY <1>3 DEF Preview, Apply, ThreadIsFree, durable, producer
  <2> QED BY <2>1, QuietKeepsAccount
<1>4. CASE Crash \/ RefuseStages \/ \E receipt \in todo : InterruptCleanup(receipt)
  <2>1. phase' = "down" /\ UNCHANGED <<blobs, reserved, lost>>
    BY <1>4 DEF Crash, RefuseStages, InterruptCleanup, durable, producer
  <2> QED BY <2>1, QuietKeepsAccount
<1>5. CASE RecoverStages \/ FinishCleanup \/ BindPublications
  <2>1. phase # "down" /\ UNCHANGED <<pc, blobs, reserved, lost>>
    BY <1>5 DEF RecoverStages, FinishCleanup, BindPublications, durable, producer
  <2> QED BY <2>1, QuietKeepsAccount
<1>6. CASE UNCHANGED vars
  <2>1. UNCHANGED <<phase, pc, blobs, reserved, lost>> BY <1>6 DEF vars
  <2>2. ReservationIsInFlight' BY <2>1 DEF ReservationIsInFlight, CapacityInv, Filled
  <2> QED BY <2>1, <2>2, AccountUnchanged DEF AccountKept
<1> QED
  BY <1>2, <1>3, <1>4, <1>5, <1>6, OpenKeepsAccount, CleanupKeepsAccount DEF Next, Start

(* The initial account is empty.                                           *)
LEMMA CapacityInit == Init => CapacityInv
<1> SUFFICES ASSUME Init PROVE CapacityInv OBVIOUS
<1>1. blobs = {} /\ lost = 0 /\ \A o \in Ops, s \in Slots : reserved[o][s] = 0
  BY DEF Init, Unreserved
<1>2. IsFiniteSet(blobs) BY <1>1, FS_EmptySet
<1>3. reserved \in Reservations BY Empties DEF Init, Reservations
<1>4. Total(Room(reserved), Ops \X Slots) = 0
  <2>1. \A p \in Ops \X Slots : Room(reserved)[p] = 0 BY <1>1 DEF Room
  <2>2. IsFiniteSet(Ops \X Slots) BY <1>3, RoomIsWeight DEF IsWeight
  <2> QED BY <2>1, <2>2, TotalOfZeros
<1>5. Total(Length, blobs) = 0
  <2>1. \A d \in blobs : Length[d] = 0 BY <1>1
  <2> QED BY <1>2, <2>1, TotalOfZeros
<1>6. CapacityIsBounded BY <1>1, <1>4, <1>5, AccountIs, BoundAssumption DEF Account
<1>7. ReservationIsInFlight BY <1>1 DEF ReservationIsInFlight
<1> QED BY <1>2, <1>6, <1>7, PublicationInit DEF CapacityInv

(* Whatever producers overlap, abandon their transfer or crash, and        *)
(* whichever releases fail, the bytes charged and reserved stay within the *)
(* namespace's limit (reserve_artifact, retain_publication).               *)
THEOREM PublicationCapacityIsBounded == Spec => []CapacityIsBounded
<1>1. CapacityInv => CapacityIsBounded BY DEF CapacityInv
<1> QED BY <1>1, CapacityInit, CapacityStep, PTL DEF Spec

-----------------------------------------------------------------------------
(* The installation (TargetInstallation).                                  *)

(* A transaction holds the lock from its first step to its last, alone.    *)
Exclusive ==
    /\ \A t \in Targets : at[t] \in Inside <=> t \in lock
    /\ \A s, t \in lock : s = t

(* A daemon that has read or drawn a record works on a copy of it.         *)
Working(t) == at[t] \in Inside \ {"locked"}

(* The copy differs from the record at most in the daemon's own entry, or  *)
(* is the first record of a root in which nothing has been made.  It is    *)
(* the record itself while the target's resources are made and opened.     *)
CopyIsCurrent ==
    \A t \in Targets : Working(t) =>
      /\ record.id \in {0, held[t].id}
      /\ \A u \in Targets \ {t} : held[t].targets[u] = record.targets[u]
      /\ held[t].targets[t] # "none"
      /\ record.id = 0 => folders = {}
      /\ at[t] \in {"creating", "identifying", "opened"} => record = held[t]

(* What was made stays visible in the root, whatever becomes of the record.*)
RootRemembers ==
    /\ record.id = 0 => record = NoRecord
    /\ \A t \in Targets : Present(t) \/ At(t, "up") \/ At(t, "identifying")
                            \/ At(t, "opened") => t \in folders
    /\ \A t \in Targets : Working(t) /\ held[t].targets[t] = "registered"
                            => t \in folders

(* Whoever may still act on an identity.                                   *)
Claimed(i) ==
    \/ record.id = i
    \/ \E t \in Targets : database[t] = i
    \/ \E t \in Targets : (At(t, "up") \/ Working(t)) /\ held[t].id = i

OneClaimed == \A i, j \in 1..drawn : Claimed(i) /\ Claimed(j) => i = j

InstallationInv ==
    /\ InstallationTypeOK /\ Exclusive /\ CopyIsCurrent /\ RootRemembers
    /\ OneClaimed /\ LedgerKnowsDatabases

-----------------------------------------------------------------------------
(* An empty state root satisfies the invariant.                            *)
LEMMA InstallationInitHolds == InstallationInit => InstallationInv
<1> SUFFICES ASSUME InstallationInit PROVE InstallationInv OBVIOUS
<1>1. NoRecord \in Records
  <2>1. 0 \in 0..drawn BY DEF InstallationInit
  <2> QED BY <2>1 DEF NoRecord, Records, Registrations
<1>2. InstallationTypeOK
  <2>1. drawn \in 0..MaxDraws BY DrawsAssumption DEF InstallationInit
  <2>2. /\ at \in [Targets -> Steps]
        /\ \A t \in Targets : at[t] \notin Inside
    BY DEF InstallationInit, Steps, Inside
  <2>3. database \in [Targets -> {Absent} \cup 0..drawn] BY DEF InstallationInit
  <2>4. served \in [Targets -> 0..drawn] BY DEF InstallationInit
  <2> QED BY <1>1, <2>1, <2>2, <2>3, <2>4 DEF InstallationInit, InstallationTypeOK
<1>3. Exclusive /\ CopyIsCurrent /\ RootRemembers
  BY DEF InstallationInit, Exclusive, CopyIsCurrent, RootRemembers, Working, Inside, Present, At
<1>4. OneClaimed /\ LedgerKnowsDatabases
  BY DEF InstallationInit, OneClaimed, LedgerKnowsDatabases, NoRecord
<1> QED BY <1>2, <1>3, <1>4 DEF InstallationInv

(* An entry is written into a copy; the rest of the copy stays.            *)
LEMMA EntryWritten ==
    ASSUME NEW n \in Nat, NEW r \in [id : 0..n, targets : [Targets -> Registrations]],
           NEW t \in Targets, NEW e \in Registrations
    PROVE  LET w == [r EXCEPT !.targets[t] = e] IN
           /\ w \in [id : 0..n, targets : [Targets -> Registrations]]
           /\ w.id = r.id /\ w.targets[t] = e
           /\ \A u \in Targets \ {t} : w.targets[u] = r.targets[u]
BY DEF Registrations

(* Nobody claims an identity that was not claimed before.                  *)
LEMMA ClaimsKept ==
    ASSUME OneClaimed, drawn' = drawn, \A i \in 1..drawn : Claimed(i)' => Claimed(i)
    PROVE  OneClaimed'
BY DEF OneClaimed

(* Taking installation.lock: whoever takes it is then the only one inside. *)
LEMMA LockPreserves ==
    ASSUME InstallationInv, NEW t \in Targets, Lock(t)
    PROVE  InstallationInv'
<1> USE DEF InstallationInv, disk, Goto, At
<1>1. InstallationTypeOK'
  BY DrawsAssumption DEF Lock, InstallationTypeOK, Steps, Inside, Records, Registrations, NoRecord
<1>2. Exclusive'
  BY DEF Lock, InstallationTypeOK, Exclusive, Inside
<1>3. CopyIsCurrent'
  BY DEF Lock, InstallationTypeOK, Exclusive, CopyIsCurrent, RootRemembers, Working, Inside, Records,
         Present
<1>4. RootRemembers'
  BY DEF Lock, InstallationTypeOK, CopyIsCurrent, RootRemembers, Working, Inside, Records, Present
<1>5. OneClaimed'
  BY DEF Lock, InstallationTypeOK, Exclusive, CopyIsCurrent, RootRemembers, OneClaimed, Claimed, Working,
         Inside, Records, Present
<1>6. LedgerKnowsDatabases'
  BY DEF Lock, InstallationTypeOK, Exclusive, CopyIsCurrent, RootRemembers, Working, LedgerKnowsDatabases,
         Inside, Records, Present
<1> QED BY <1>1, <1>2, <1>3, <1>4, <1>5, <1>6

(* How a start goes on once it has a record to work on: refused, straight  *)
(* to the database it found, or with its entry staged.                     *)
LEMMA AdmitCases ==
    ASSUME NEW n \in Nat, NEW r \in [id : 0..n, targets : [Targets -> Registrations]],
           NEW t \in Targets, Admit(t, r)
    PROVE  \/ Goto(t, "down") /\ Hold(t, NoRecord)
           \/ /\ Present(t) /\ database[t] = r.id /\ r.targets[t] # "none"
              /\ Goto(t, "opened") /\ Hold(t, r)
           \/ /\ ~Present(t) /\ r.targets[t] # "registered"
              /\ Goto(t, "writing") /\ Hold(t, Staged(t, r))
              /\ Staged(t, r) \in [id : 0..n, targets : [Targets -> Registrations]]
              /\ Staged(t, r).id = r.id /\ Staged(t, r).targets[t] = "initializing"
              /\ \A u \in Targets \ {t} : Staged(t, r).targets[u] = r.targets[u]
<1>1. "initializing" \in Registrations BY DEF Registrations
<1>2. /\ Staged(t, r) \in [id : 0..n, targets : [Targets -> Registrations]]
      /\ Staged(t, r).id = r.id /\ Staged(t, r).targets[t] = "initializing"
      /\ \A u \in Targets \ {t} : Staged(t, r).targets[u] = r.targets[u]
  BY <1>1, EntryWritten DEF Staged
<1> QED BY <1>2 DEF Admit, validate_database_registration, Audited, Stageable

(* Reading the record, in each of the three ways a start goes on from it.  *)
LEMMA ReadPreserves ==
    ASSUME InstallationInv, NEW t \in Targets, Read(t)
    PROVE  InstallationInv'
<1> USE DEF InstallationInv, disk, Goto, At, Hold
<1>1. /\ drawn \in Nat /\ record \in Records /\ record.id > 0 /\ at[t] = "locked"
      /\ NoRecord \in Records /\ NoRecord.id = 0
  BY DrawsAssumption DEF Read, InstallationTypeOK, Records, NoRecord, Registrations
<1>2. CASE Goto(t, "down") /\ Hold(t, NoRecord)
  <2>1. InstallationTypeOK'
    BY <1>1, <1>2 DEF Read, InstallationTypeOK, Steps, Inside, Records
  <2>2. Exclusive'
    BY <1>2 DEF Read, InstallationTypeOK, Exclusive, Inside
  <2>3. CopyIsCurrent' /\ RootRemembers'
    BY <1>2 DEF Read, InstallationTypeOK, CopyIsCurrent, RootRemembers, Working, Inside, Present
  <2>4. OneClaimed'
    <3>1. \A i \in 1..drawn : Claimed(i)' => Claimed(i)
      BY <1>2 DEF Read, InstallationTypeOK, Claimed, Working, Inside
    <3> QED BY <3>1, ClaimsKept DEF Read
  <2>5. LedgerKnowsDatabases' BY DEF Read, LedgerKnowsDatabases, Present
  <2> QED BY <2>1, <2>2, <2>3, <2>4, <2>5
<1>3. CASE /\ Present(t) /\ database[t] = record.id /\ record.targets[t] # "none"
           /\ Goto(t, "opened") /\ Hold(t, record)
  <2>1. InstallationTypeOK'
    BY <1>1, <1>3 DEF Read, InstallationTypeOK, Steps, Inside, Records
  <2>2. Exclusive'
    BY <1>3 DEF Read, InstallationTypeOK, Exclusive, Inside
  <2>3. CopyIsCurrent' /\ RootRemembers'
    BY <1>1, <1>3 DEF Read, InstallationTypeOK, CopyIsCurrent, RootRemembers, Working, Inside, Present
  <2>4. OneClaimed'
    <3>1. \A i \in 1..drawn : Claimed(i)' => Claimed(i)
      BY <1>3 DEF Read, InstallationTypeOK, Claimed, Working, Inside
    <3> QED BY <3>1, ClaimsKept DEF Read
  <2>5. LedgerKnowsDatabases' BY DEF Read, LedgerKnowsDatabases, Present
  <2> QED BY <2>1, <2>2, <2>3, <2>4, <2>5
<1>4. CASE /\ ~Present(t) /\ record.targets[t] # "registered"
           /\ Goto(t, "writing") /\ Hold(t, Staged(t, record))
           /\ Staged(t, record) \in Records
           /\ Staged(t, record).id = record.id
           /\ Staged(t, record).targets[t] = "initializing"
           /\ \A u \in Targets \ {t} : Staged(t, record).targets[u] = record.targets[u]
  <2>1. InstallationTypeOK'
    BY <1>1, <1>4 DEF Read, InstallationTypeOK, Steps, Inside, Records
  <2>2. Exclusive'
    BY <1>4 DEF Read, InstallationTypeOK, Exclusive, Inside
  <2>3. CopyIsCurrent' /\ RootRemembers'
    BY <1>1, <1>4 DEF Read, InstallationTypeOK, CopyIsCurrent, RootRemembers, Working, Inside, Present
  <2>4. OneClaimed'
    <3>1. \A i \in 1..drawn : Claimed(i)' => Claimed(i)
      BY <1>4 DEF Read, InstallationTypeOK, Claimed, Working, Inside
    <3> QED BY <3>1, ClaimsKept DEF Read
  <2>5. LedgerKnowsDatabases' BY DEF Read, LedgerKnowsDatabases, Present
  <2> QED BY <2>1, <2>2, <2>3, <2>4, <2>5
<1> QED BY <1>1, <1>2, <1>3, <1>4, AdmitCases DEF Read, Records

(* A drawn identity is the only one there is: nothing has been made in the *)
(* root, and nobody else is inside.                                        *)
LEMMA DrawPreserves ==
    ASSUME InstallationInv, NEW t \in Targets, Draw(t)
    PROVE  InstallationInv'
<1> USE DEF InstallationInv, disk, Goto, At, Hold
<1> DEFINE new == [NoRecord EXCEPT !.id = drawn + 1]
<1>1. /\ drawn \in Nat /\ drawn' = drawn + 1 /\ drawn' \in 0..MaxDraws
      /\ record = NoRecord /\ at[t] = "locked" /\ folders = {}
  BY DrawsAssumption DEF Draw, InstallationTypeOK, RootRemembers, state_root_occupied
<1>2. /\ new \in Records' /\ new.id = drawn + 1 /\ new.targets = NoRecord.targets
      /\ NoRecord \in Records' /\ NoRecord.id = 0
      /\ \A u \in Targets : NoRecord.targets[u] = "none"
  BY <1>1 DEF Records, NoRecord, Registrations
<1>3. \A r \in Records : r \in Records'
  BY <1>1 DEF Records
<1>4. /\ \A u \in Targets : ~Present(u) /\ ~At(u, "up")
      /\ \A u \in Targets : ~Working(u)
  BY <1>1 DEF RootRemembers, Exclusive, Working, Inside
<1>5. \/ Goto(t, "down") /\ Hold(t, NoRecord)
      \/ /\ Goto(t, "writing") /\ Hold(t, Staged(t, new))
         /\ Staged(t, new) \in Records'
         /\ Staged(t, new).id = new.id /\ Staged(t, new).targets[t] = "initializing"
         /\ \A u \in Targets \ {t} : Staged(t, new).targets[u] = new.targets[u]
  <2> HIDE DEF new
  <2>1. drawn' \in Nat /\ Admit(t, new) BY <1>1 DEF Draw, new
  <2> QED BY <1>2, <1>4, <2>1, AdmitCases DEF Records
<1> HIDE DEF new
<1>6. InstallationTypeOK'
  <2>1. at' \in [Targets -> Steps] /\ lock' \subseteq Targets
    BY <1>5 DEF Draw, InstallationTypeOK, Steps, Inside
  <2>2. held' \in [Targets -> Records'] /\ record' \in Records'
    BY <1>2, <1>3, <1>5 DEF Draw, InstallationTypeOK
  <2>3. database' \in [Targets -> {Absent} \cup 0..drawn']
    BY <1>1 DEF Draw, InstallationTypeOK
  <2>4. \A u \in Targets : at'[u] \in Inside \ {"locked"} => held'[u].id > 0
    BY <1>1, <1>2, <1>5 DEF Draw, InstallationTypeOK, Inside
  <2>5. served' \in [Targets -> 0..drawn']
    BY <1>1 DEF Draw, InstallationTypeOK
  <2> QED BY <1>1, <2>1, <2>2, <2>3, <2>4, <2>5 DEF Draw, InstallationTypeOK, Records
<1>7. Exclusive'
  BY <1>1, <1>5 DEF Draw, InstallationTypeOK, Exclusive, Inside
<1>8. CopyIsCurrent' /\ RootRemembers'
  BY <1>1, <1>2, <1>4, <1>5 DEF Draw, InstallationTypeOK, RootRemembers, CopyIsCurrent, Working, Inside,
                                Present
<1>9. OneClaimed'
  <2>1. \A i \in 1..drawn' : Claimed(i)' => i = drawn + 1
    BY <1>1, <1>2, <1>4, <1>5, DrawsAssumption DEF Draw, InstallationTypeOK, Claimed, Working, Inside,
                                                   Present
  <2> QED BY <2>1 DEF OneClaimed
<1>10. LedgerKnowsDatabases' BY <1>1, <1>2 DEF Draw, LedgerKnowsDatabases
<1> QED BY <1>6, <1>7, <1>8, <1>9, <1>10

(* A start that finds an occupied root and no record gives the lock back   *)
(* and changes nothing.                                                    *)
LEMMA RefuseMissingPreserves ==
    ASSUME InstallationInv, NEW t \in Targets, RefuseMissing(t)
    PROVE  InstallationInv'
<1> USE DEF InstallationInv, disk, Goto, At
<1>1. InstallationTypeOK'
  BY DrawsAssumption DEF RefuseMissing, Leave, Hold, InstallationTypeOK, Steps, Inside, Records,
                         Registrations, NoRecord
<1>2. Exclusive'
  BY DEF RefuseMissing, Leave, Hold, InstallationTypeOK, Exclusive, Inside
<1>3. CopyIsCurrent'
  BY DEF RefuseMissing, Leave, Hold, InstallationTypeOK, Exclusive, CopyIsCurrent, RootRemembers, Working,
         Inside, Records, Present
<1>4. RootRemembers'
  BY DEF RefuseMissing, Leave, Hold, InstallationTypeOK, CopyIsCurrent, RootRemembers, Working, Inside,
         Records, Present
<1>5. OneClaimed'
  <2>1. \A i \in 1..drawn : Claimed(i)' => Claimed(i)
    BY DEF RefuseMissing, Leave, Hold, InstallationTypeOK, Claimed, Working, Inside
  <2> QED BY <2>1, ClaimsKept DEF RefuseMissing, Leave, Hold
<1>6. LedgerKnowsDatabases'
  BY DEF RefuseMissing, Leave, Hold, InstallationTypeOK, Exclusive, CopyIsCurrent, RootRemembers, Working,
         LedgerKnowsDatabases, Inside, Records, Present
<1> QED BY <1>1, <1>2, <1>3, <1>4, <1>5, <1>6

(* So does a start that finds a record it cannot read.                     *)
LEMMA RefuseUnreadablePreserves ==
    ASSUME InstallationInv, NEW t \in Targets, RefuseUnreadable(t)
    PROVE  InstallationInv'
<1> USE DEF InstallationInv, disk, Goto, At
<1>1. InstallationTypeOK'
  BY DrawsAssumption DEF RefuseUnreadable, Leave, Hold, InstallationTypeOK, Steps, Inside, Records,
                         Registrations, NoRecord
<1>2. Exclusive'
  BY DEF RefuseUnreadable, Leave, Hold, InstallationTypeOK, Exclusive, Inside
<1>3. CopyIsCurrent'
  BY DEF RefuseUnreadable, Leave, Hold, InstallationTypeOK, Exclusive, CopyIsCurrent, RootRemembers, Working,
         Inside, Records, Present
<1>4. RootRemembers'
  BY DEF RefuseUnreadable, Leave, Hold, InstallationTypeOK, CopyIsCurrent, RootRemembers, Working, Inside,
         Records, Present
<1>5. OneClaimed'
  <2>1. \A i \in 1..drawn : Claimed(i)' => Claimed(i)
    BY DEF RefuseUnreadable, Leave, Hold, InstallationTypeOK, Claimed, Working, Inside
  <2> QED BY <2>1, ClaimsKept DEF RefuseUnreadable, Leave, Hold
<1>6. LedgerKnowsDatabases'
  BY DEF RefuseUnreadable, Leave, Hold, InstallationTypeOK, Exclusive, CopyIsCurrent, RootRemembers, Working,
         LedgerKnowsDatabases, Inside, Records, Present
<1> QED BY <1>1, <1>2, <1>3, <1>4, <1>5, <1>6

(* Writing the staging file leaves the record, and every claim on an       *)
(* identity, as it was.                                                    *)
LEMMA WritePreserves ==
    ASSUME InstallationInv, NEW t \in Targets, Write(t)
    PROVE  InstallationInv'
<1> USE DEF InstallationInv, disk, Goto, At
<1>1. InstallationTypeOK'
  BY DrawsAssumption DEF Write, InstallationTypeOK, Steps, Inside, Records, Registrations, NoRecord
<1>2. Exclusive'
  BY DEF Write, InstallationTypeOK, Exclusive, Inside
<1>3. CopyIsCurrent'
  BY DEF Write, InstallationTypeOK, Exclusive, CopyIsCurrent, RootRemembers, Working, Inside, Records,
         Present
<1>4. RootRemembers'
  BY DEF Write, InstallationTypeOK, CopyIsCurrent, RootRemembers, Working, Inside, Records, Present
<1>5. OneClaimed'
  <2>1. \A i \in 1..drawn : Claimed(i)' => Claimed(i)
    BY DEF Write, InstallationTypeOK, Claimed, Working, Inside
  <2> QED BY <2>1, ClaimsKept DEF Write
<1>6. LedgerKnowsDatabases'
  BY DEF Write, InstallationTypeOK, Exclusive, CopyIsCurrent, RootRemembers, Working,
         LedgerKnowsDatabases, Inside, Records, Present
<1> QED BY <1>1, <1>2, <1>3, <1>4, <1>5, <1>6

(* The rename makes the daemon's copy the record; the copy claimed the     *)
(* same identity already.                                                  *)
LEMMA RenamePreserves ==
    ASSUME InstallationInv, NEW t \in Targets, Rename(t)
    PROVE  InstallationInv'
<1> USE DEF InstallationInv, disk, Goto, At
<1>1. InstallationTypeOK'
  <2>1. /\ record' = held[t] /\ held' = held /\ drawn' = drawn /\ stray' = stray
        /\ database' = database /\ folders' = folders /\ spoiled' = FALSE
        /\ at[t] = "renaming"
    BY DEF Rename
  <2>2. /\ at' \in [Targets -> Steps] /\ lock' \subseteq Targets
        /\ \A u \in Targets \ {t} : at'[u] = at[u]
    BY DEF Rename, InstallationTypeOK, Steps, Inside
  <2>3. held[t] \in Records /\ held[t].id \in 0..drawn /\ held[t].id > 0
    BY <2>1 DEF InstallationTypeOK, Inside, Records
  <2>4. served' \in [Targets -> 0..drawn]
    BY <2>3 DEF Rename, Serve, InstallationTypeOK
  <2>5. Records' = Records
    BY <2>1 DEF Records
  <2>6. \A u \in Targets : at'[u] \in Inside \ {"locked"} => held'[u].id > 0
    BY <2>1, <2>2, <2>3 DEF InstallationTypeOK
  <2> QED BY <2>1, <2>2, <2>3, <2>4, <2>5, <2>6 DEF InstallationTypeOK
<1>2. Exclusive'
  BY DEF Rename, InstallationTypeOK, Exclusive, Inside
<1>3. CopyIsCurrent'
  <2>1. /\ at \in [Targets -> Steps] /\ Working(t) /\ at[t] = "renaming"
        /\ held[t].id > 0 /\ drawn \in Nat /\ held[t].id \in Nat
        /\ record' = held[t] /\ held' = held /\ folders' = folders
    BY DrawsAssumption DEF Rename, InstallationTypeOK, Working, Inside, Records
  <2>2. \A u \in Targets \ {t} : ~Working(u) /\ at'[u] = at[u]
    <3>1. \A u \in Targets \ {t} : at'[u] = at[u]
      BY <2>1 DEF Rename
    <3>2. \A u \in Targets \ {t} : ~Working(u)
      BY <2>1 DEF Exclusive, Working
    <3> QED BY <3>1, <3>2
  <2>3. \A u \in Targets : Working(u)' => u = t
    BY <2>2 DEF Working
  <2>4. held[t].targets[t] # "none"
    BY <2>1 DEF CopyIsCurrent
  <2>5. record'.id # 0
    BY <2>1
  <2> QED BY <2>1, <2>3, <2>4, <2>5 DEF CopyIsCurrent
<1>4. RootRemembers'
  <2>1. /\ at \in [Targets -> Steps] /\ Working(t) /\ held[t].id > 0
        /\ record' = held[t] /\ held' = held /\ folders' = folders /\ database' = database
    BY DEF Rename, InstallationTypeOK, Working, Inside
  <2>2. \A u \in Targets \ {t} : at'[u] = at[u]
    BY <2>1 DEF Rename
  <2>3. \/ at'[t] = "up" /\ held[t].targets[t] = "registered"
        \/ at'[t] = "creating"
    BY <2>1 DEF Rename
  <2>4. at[t] = "renaming" BY DEF Rename
  <2> QED BY <2>1, <2>2, <2>3, <2>4 DEF RootRemembers, Working, Inside, Present
<1>5. OneClaimed'
  <2>1. \A i \in 1..drawn : Claimed(i)' => Claimed(i)
    BY DEF Rename, InstallationTypeOK, Claimed, Working, Inside
  <2> QED BY <2>1, ClaimsKept DEF Rename
<1>6. LedgerKnowsDatabases'
  BY DEF Rename, InstallationTypeOK, Exclusive, CopyIsCurrent, RootRemembers, Working,
         LedgerKnowsDatabases, Inside, Records, Present
<1> QED BY <1>1, <1>2, <1>3, <1>4, <1>5, <1>6

(* The target's folder and its bare database appear, with the target       *)
(* staged in the record.                                                   *)
LEMMA CreatePreserves ==
    ASSUME InstallationInv, NEW t \in Targets, Create(t)
    PROVE  InstallationInv'
<1> USE DEF InstallationInv, disk, Goto, At
<1>1. InstallationTypeOK'
  BY DrawsAssumption DEF Create, Bare, InstallationTypeOK, Steps, Inside, Records, Registrations, NoRecord
<1>2. Exclusive'
  BY DEF Create, Bare, InstallationTypeOK, Exclusive, Inside
<1>3. CopyIsCurrent'
  BY DEF Create, Bare, InstallationTypeOK, Exclusive, CopyIsCurrent, RootRemembers, Working, Inside,
         Records, Present
<1>4. RootRemembers'
  BY DEF Create, Bare, InstallationTypeOK, CopyIsCurrent, RootRemembers, Working, Inside, Records, Present
<1>5. OneClaimed'
  <2>1. \A i \in 1..drawn : Claimed(i)' => Claimed(i)
    BY DEF Create, Bare, InstallationTypeOK, Claimed, Working, Inside
  <2> QED BY <2>1, ClaimsKept DEF Create, Bare
<1>6. LedgerKnowsDatabases'
  BY DEF Create, Bare, InstallationTypeOK, Exclusive, CopyIsCurrent, RootRemembers, Working,
         LedgerKnowsDatabases, Inside, Records, Present
<1> QED BY <1>1, <1>2, <1>3, <1>4, <1>5, <1>6

(* The new database takes the identity of the record that the daemon holds *)
(* the lock over.                                                          *)
LEMMA IdentifyPreserves ==
    ASSUME InstallationInv, NEW t \in Targets, Identify(t)
    PROVE  InstallationInv'
<1> USE DEF InstallationInv, disk, Goto, At
<1>1. InstallationTypeOK'
  BY DrawsAssumption DEF Identify, InstallationTypeOK, Steps, Inside, Records, Registrations, NoRecord
<1>2. Exclusive'
  BY DEF Identify, InstallationTypeOK, Exclusive, Inside
<1>3. CopyIsCurrent'
  BY DEF Identify, InstallationTypeOK, Exclusive, CopyIsCurrent, RootRemembers, Working, Inside, Records,
         Present
<1>4. RootRemembers'
  BY DEF Identify, InstallationTypeOK, CopyIsCurrent, RootRemembers, Working, Inside, Records, Present
<1>5. OneClaimed'
  <2>1. \A i \in 1..drawn : Claimed(i)' => Claimed(i)
    BY DEF Identify, InstallationTypeOK, Claimed, Working, Inside
  <2> QED BY <2>1, ClaimsKept DEF Identify
<1>6. LedgerKnowsDatabases'
  BY DEF Identify, InstallationTypeOK, Exclusive, CopyIsCurrent, RootRemembers, Working,
         LedgerKnowsDatabases, Inside, Records, Present
<1> QED BY <1>1, <1>2, <1>3, <1>4, <1>5, <1>6

(* With the database open a registered target is up; another one is        *)
(* registered in the daemon's copy, to be written.                         *)
LEMMA EstablishPreserves ==
    ASSUME InstallationInv, NEW t \in Targets, Establish(t)
    PROVE  InstallationInv'
<1> USE DEF InstallationInv, disk, Goto, At
<1> DEFINE next == [held[t] EXCEPT !.targets[t] = "registered"]
<1>a. drawn \in Nat /\ held[t] \in Records /\ held[t].id > 0
  BY DrawsAssumption DEF Establish, InstallationTypeOK, Inside
<1>b. next \in Records /\ next.id = held[t].id
  <2>1. "registered" \in Registrations BY DEF Registrations
  <2> QED BY <1>a, <2>1, EntryWritten DEF Records
<1>c. /\ held' \in [Targets -> Records]
      /\ \A u \in Targets : held'[u].id = held[u].id
  <2> HIDE DEF next
  <2>1. held' = held \/ held' = [held EXCEPT ![t] = next] BY DEF Establish, Hold, next
  <2> QED BY <1>b, <2>1 DEF InstallationTypeOK
<1>1. InstallationTypeOK'
  <2>1. at' \in [Targets -> Steps] /\ lock' \subseteq Targets
    BY DEF Establish, InstallationTypeOK, Steps, Inside
  <2>2. \A u \in Targets : at'[u] \in Inside \ {"locked"} => held'[u].id > 0
    BY <1>a, <1>c DEF Establish, InstallationTypeOK, Inside
  <2>3. served' \in [Targets -> 0..drawn]
    BY <1>a DEF Establish, Serve, InstallationTypeOK, Records
  <2> QED BY <1>c, <2>1, <2>2, <2>3 DEF Establish, InstallationTypeOK, Records
<1>2. Exclusive'
  BY DEF Establish, Hold, InstallationTypeOK, Exclusive, Inside
<1>3. CopyIsCurrent'
  BY DEF Establish, Hold, InstallationTypeOK, Exclusive, CopyIsCurrent, RootRemembers, Working, Inside,
         Records, Present
<1>4. RootRemembers'
  BY DEF Establish, Hold, InstallationTypeOK, CopyIsCurrent, RootRemembers, Working, Inside, Records,
         Present
<1>5. OneClaimed'
  <2>1. \A i \in 1..drawn : Claimed(i)' => Claimed(i)
    BY <1>c DEF Establish, InstallationTypeOK, Claimed, Working, Inside
  <2> QED BY <2>1, ClaimsKept DEF Establish, Hold
<1>6. LedgerKnowsDatabases'
  BY DEF Establish, Hold, InstallationTypeOK, Exclusive, CopyIsCurrent, RootRemembers, Working,
         LedgerKnowsDatabases, Inside, Records, Present
<1> QED BY <1>1, <1>2, <1>3, <1>4, <1>5, <1>6

(* A daemon that stops or dies gives up its lock and its copy, wherever it *)
(* is.                                                                     *)
LEMMA DepartPreserves ==
    ASSUME InstallationInv, NEW t \in Targets, Depart(t)
    PROVE  InstallationInv'
<1> USE DEF InstallationInv, disk, Goto, At
<1>1. InstallationTypeOK'
  BY DrawsAssumption DEF Depart, Hold, InstallationTypeOK, Steps, Inside, Records, Registrations, NoRecord
<1>2. Exclusive'
  BY DEF Depart, Hold, InstallationTypeOK, Exclusive, Inside
<1>3. CopyIsCurrent'
  BY DEF Depart, Hold, InstallationTypeOK, Exclusive, CopyIsCurrent, RootRemembers, Working, Inside,
         Records, Present
<1>4. RootRemembers'
  BY DEF Depart, Hold, InstallationTypeOK, CopyIsCurrent, RootRemembers, Working, Inside, Records, Present
<1>5. OneClaimed'
  <2>1. \A i \in 1..drawn : Claimed(i)' => Claimed(i)
    BY DEF Depart, Hold, InstallationTypeOK, Claimed, Working, Inside
  <2> QED BY <2>1, ClaimsKept DEF Depart, Hold
<1>6. LedgerKnowsDatabases'
  BY DEF Depart, Hold, InstallationTypeOK, Exclusive, CopyIsCurrent, RootRemembers, Working,
         LedgerKnowsDatabases, Inside, Records, Present
<1> QED BY <1>1, <1>2, <1>3, <1>4, <1>5, <1>6

(* A lost database file leaves its folder, so the root still shows what    *)
(* was made.                                                               *)
LEMMA LoseDatabasePreserves ==
    ASSUME InstallationInv, NEW t \in Targets, LoseDatabase(t)
    PROVE  InstallationInv'
<1> USE DEF InstallationInv, disk, Goto, At
<1>1. InstallationTypeOK'
  BY DrawsAssumption DEF LoseDatabase, InstallationTypeOK, Steps, Inside, Records, Registrations, NoRecord
<1>2. Exclusive'
  BY DEF LoseDatabase, InstallationTypeOK, Exclusive, Inside
<1>3. CopyIsCurrent'
  BY DEF LoseDatabase, InstallationTypeOK, Exclusive, CopyIsCurrent, RootRemembers, Working, Inside,
         Records, Present
<1>4. RootRemembers'
  BY DEF LoseDatabase, InstallationTypeOK, CopyIsCurrent, RootRemembers, Working, Inside, Records, Present
<1>5. OneClaimed'
  <2>1. \A i \in 1..drawn : Claimed(i)' => Claimed(i)
    BY DrawsAssumption DEF LoseDatabase, InstallationTypeOK, Claimed, Working, Inside
  <2> QED BY <2>1, ClaimsKept DEF LoseDatabase
<1>6. LedgerKnowsDatabases'
  BY DEF LoseDatabase, InstallationTypeOK, Exclusive, CopyIsCurrent, RootRemembers, Working,
         LedgerKnowsDatabases, Inside, Records, Present
<1> QED BY <1>1, <1>2, <1>3, <1>4, <1>5, <1>6

(* A lost record leaves the folders, which is why no second identity is    *)
(* drawn.                                                                  *)
LEMMA LoseRecordPreserves ==
    ASSUME InstallationInv, LoseRecord
    PROVE  InstallationInv'
<1> USE DEF InstallationInv, At
<1>1. NoRecord \in Records /\ NoRecord.id = 0
  BY DrawsAssumption DEF NoRecord, Records, Registrations, InstallationTypeOK
<1>2. InstallationTypeOK' BY <1>1 DEF LoseRecord, InstallationTypeOK, Records
<1>3. Exclusive' BY DEF LoseRecord, Exclusive
<1>4. \A t \in Targets : ~Working(t) BY DEF LoseRecord, Exclusive, Working
<1>5. CopyIsCurrent' /\ RootRemembers'
  BY <1>4 DEF LoseRecord, CopyIsCurrent, RootRemembers, Working, Present
<1>6. OneClaimed'
  <2>1. \A i \in 1..drawn : Claimed(i)' => Claimed(i)
    BY <1>1 DEF LoseRecord, Claimed, Working
  <2> QED BY <2>1, ClaimsKept DEF LoseRecord
<1>7. LedgerKnowsDatabases' BY <1>1 DEF LoseRecord, LedgerKnowsDatabases
<1> QED BY <1>2, <1>3, <1>5, <1>6, <1>7

(* Whether the record can be read says nothing of what it holds.           *)
LEMMA TouchRecordPreserves ==
    ASSUME InstallationInv, TouchRecord
    PROVE  InstallationInv'
<1> USE DEF InstallationInv, At
<1>1. InstallationTypeOK' /\ Exclusive'
  BY DEF TouchRecord, InstallationTypeOK, Records, Exclusive
<1>2. CopyIsCurrent' /\ RootRemembers'
  BY DEF TouchRecord, CopyIsCurrent, RootRemembers, Working, Present
<1>3. OneClaimed'
  <2>1. \A i \in 1..drawn : Claimed(i)' => Claimed(i)
    BY DEF TouchRecord, Claimed, Working
  <2> QED BY <2>1, ClaimsKept DEF TouchRecord
<1>4. LedgerKnowsDatabases' BY DEF TouchRecord, LedgerKnowsDatabases, Present
<1> QED BY <1>1, <1>2, <1>3, <1>4

(* Every step keeps the invariant, action by action.                       *)
LEMMA InstallationStepPreserves == InstallationInv /\ [InstallationNext]_installationVars => InstallationInv'
<1> SUFFICES ASSUME InstallationInv, [InstallationNext]_installationVars PROVE InstallationInv' OBVIOUS
<1>1. CASE UNCHANGED installationVars
  BY <1>1 DEF installationVars, disk, InstallationInv, InstallationTypeOK, Records, Exclusive, CopyIsCurrent,
              RootRemembers, OneClaimed, Claimed, LedgerKnowsDatabases, Working, Present, At
<1>2. ASSUME NEW t \in Targets,
             \/ Lock(t) \/ Read(t) \/ Draw(t) \/ RefuseMissing(t) \/ RefuseUnreadable(t)
             \/ Write(t) \/ Rename(t) \/ Create(t) \/ Identify(t)
             \/ Establish(t) \/ Depart(t) \/ LoseDatabase(t)
      PROVE  InstallationInv'
  BY <1>2, LockPreserves, ReadPreserves, DrawPreserves, RefuseMissingPreserves,
     RefuseUnreadablePreserves, WritePreserves, RenamePreserves, CreatePreserves, IdentifyPreserves,
     EstablishPreserves, DepartPreserves, LoseDatabasePreserves
<1>3. CASE LoseRecord BY <1>3, LoseRecordPreserves
<1>4. CASE TouchRecord BY <1>4, TouchRecordPreserves
<1> QED BY <1>1, <1>2, <1>3, <1>4 DEF InstallationNext

(* The invariant holds in every reachable state.                           *)
LEMMA InstallationInvariant == InstallationSpec => []InstallationInv
BY InstallationInitHolds, InstallationStepPreserves, PTL DEF InstallationSpec

-----------------------------------------------------------------------------
(* Every value the record, the copies and the databases can take.          *)
THEOREM InstallationTypeCorrect == InstallationSpec => []InstallationTypeOK
<1>1. InstallationInv => InstallationTypeOK BY DEF InstallationInv
<1> QED BY <1>1, InstallationInvariant, PTL

(* establish_durable and replace keep one identity per state root, for any *)
(* number of targets, whatever dies and whatever is lost.                  *)
THEOREM InstallationOneIdentity == InstallationSpec => []OneIdentity
<1>1. InstallationInv => OneIdentity
  <2> SUFFICES ASSUME InstallationInv PROVE OneIdentity OBVIOUS
  <2> DEFINE S == {i \in 1..drawn : \/ record.id = i
                                    \/ \E t \in Targets : database[t] = i
                                    \/ \E t \in Targets : At(t, "up") /\ held[t].id = i}
  <2>1. \A i, j \in S : i = j BY DEF InstallationInv, OneClaimed, Claimed
  <2>2. S = {} \/ \E i : S = {i}
    <3> HIDE DEF S
    <3>1. ASSUME NEW i \in S PROVE S = {i} BY <2>1, <3>1
    <3> QED BY <3>1
  <2>3. Cardinality(S) = 0 \/ Cardinality(S) = 1 BY <2>2, FS_EmptySet, FS_Singleton
  <2> QED BY <2>3 DEF OneIdentity
<1> QED BY <1>1, InstallationInvariant, PTL

(* A record lists the target of every database there is: the entry is      *)
(* published before the database is made, and no replacement drops it.     *)
THEOREM InstallationLedgerKnowsDatabases == InstallationSpec => []LedgerKnowsDatabases
<1>1. InstallationInv => LedgerKnowsDatabases BY DEF InstallationInv
<1> QED BY <1>1, InstallationInvariant, PTL

-----------------------------------------------------------------------------
(* A target whose database is open, or that its daemon holds as            *)
(* registered, has a database with that daemon's identity; a target whose  *)
(* database is being made is not registered.                               *)
OpenedIsHeld ==
    \A t \in Targets :
      /\ At(t, "opened") \/ (Working(t) /\ held[t].targets[t] = "registered")
           => database[t] = held[t].id
      /\ At(t, "creating") \/ At(t, "identifying") => held[t].targets[t] # "registered"

(* A target that was up left its folder, and is registered under the same  *)
(* identity in the record and in every copy anybody may publish.           *)
ServedStays ==
    \A t \in Targets : served[t] # 0 =>
      /\ t \in folders
      /\ record.id # 0 => record.id = served[t] /\ record.targets[t] = "registered"
      /\ \A u \in Targets : Working(u) =>
           held[u].id = served[t] /\ held[u].targets[t] = "registered"
      /\ database[t] \in {Absent, served[t]}

ServedInv == OpenedIsHeld /\ ServedStays

(* What a start of t reads is what was served, or nothing was; how t goes  *)
(* on leaves what was served as it is.                                     *)
LEMMA ReadServes ==
    ASSUME InstallationInv, ServedInv, NEW t \in Targets, Read(t)
    PROVE  ServedInv'
<1> USE DEF At, Goto, Hold, disk
<1>1. drawn \in Nat /\ record \in Records /\ at[t] = "locked" /\ record.id # 0
  BY DrawsAssumption DEF Read, InstallationInv, InstallationTypeOK
<1>2. \A u \in Targets : ~Working(u)
  BY <1>1 DEF InstallationInv, Exclusive, Working, Inside
<1>3. \/ at' = [at EXCEPT ![t] = "down"]
      \/ /\ database[t] = record.id /\ at' = [at EXCEPT ![t] = "opened"]
         /\ held' = [held EXCEPT ![t] = record]
      \/ /\ record.targets[t] # "registered" /\ at' = [at EXCEPT ![t] = "writing"]
         /\ held'[t].id = record.id /\ held'[t].targets[t] = "initializing"
         /\ \A u \in Targets \ {t} : held'[t].targets[u] = record.targets[u]
  BY <1>1, AdmitCases DEF Read, Records, InstallationInv, InstallationTypeOK
<1>4. at \in [Targets -> Steps] /\ held \in [Targets -> Records]
  BY DEF InstallationInv, InstallationTypeOK
<1>5. OpenedIsHeld'
  BY <1>2, <1>3, <1>4 DEF Read, OpenedIsHeld, Working, Inside
<1>6. ServedStays'
  BY <1>1, <1>2, <1>3, <1>4 DEF Read, ServedInv, ServedStays, Working, Inside
<1> QED BY <1>5, <1>6 DEF ServedInv

(* An identity is drawn only where no target was ever up: one that was     *)
(* left its folder.                                                        *)
LEMMA DrawServes ==
    ASSUME InstallationInv, ServedInv, NEW t \in Targets, Draw(t)
    PROVE  ServedInv'
<1> USE DEF At, Goto, Hold, disk
<1>1. /\ at \in [Targets -> Steps] /\ held \in [Targets -> Records] /\ drawn \in Nat
      /\ at[t] = "locked" /\ folders = {}
  BY DrawsAssumption DEF Draw, InstallationInv, InstallationTypeOK, state_root_occupied
<1>2. \A u \in Targets : ~Working(u) /\ ~Present(u)
  BY <1>1 DEF InstallationInv, Exclusive, Working, Inside, RootRemembers
<1>3. \/ at' = [at EXCEPT ![t] = "down"]
      \/ at' = [at EXCEPT ![t] = "writing"] /\ held'[t].targets[t] = "initializing"
  <2> DEFINE new == [NoRecord EXCEPT !.id = drawn + 1]
  <2>1. new \in [id : 0..(drawn + 1), targets : [Targets -> Registrations]]
    BY <1>1 DEF NoRecord, Registrations
  <2>2. Admit(t, new) BY DEF Draw
  <2> HIDE DEF new
  <2> QED BY <1>1, <1>2, <2>1, <2>2, AdmitCases
<1>4. OpenedIsHeld'
  BY <1>1, <1>2, <1>3 DEF Draw, OpenedIsHeld, Working, Inside
<1>5. ServedStays'
  BY <1>1 DEF Draw, ServedInv, ServedStays
<1> QED BY <1>4, <1>5 DEF ServedInv

(* The rename publishes a copy in which every target that was up is still  *)
(* registered; t itself is up only once it is.                             *)
LEMMA RenameServes ==
    ASSUME InstallationInv, ServedInv, NEW t \in Targets, Rename(t)
    PROVE  ServedInv'
<1> USE DEF At, Goto
<1>1. /\ at \in [Targets -> Steps] /\ held \in [Targets -> Records]
      /\ served \in [Targets -> 0..drawn] /\ at[t] = "renaming" /\ Working(t)
  BY DEF Rename, InstallationInv, InstallationTypeOK, Working, Inside
<1>2. \A u \in Targets \ {t} : ~Working(u)
  BY <1>1 DEF InstallationInv, Exclusive, Working
<1>3. OpenedIsHeld'
  BY <1>1, <1>2 DEF Rename, ServedInv, OpenedIsHeld, Working, Inside
<1>4. ServedStays'
  <2>1. CASE held[t].targets[t] = "registered"
    <3>1. t \in folders /\ database[t] = held[t].id
      BY <1>1, <2>1 DEF InstallationInv, RootRemembers, ServedInv, OpenedIsHeld
    <3>2. \A u \in Targets : ~Working(u)'
      BY <1>1, <1>2, <2>1 DEF Rename, Working, Inside
    <3> QED BY <1>1, <2>1, <3>1, <3>2 DEF Rename, Serve, ServedInv, ServedStays
  <2>2. CASE held[t].targets[t] # "registered"
    <3>1. \A u \in Targets : Working(u)' => u = t
      BY <1>1, <1>2, <2>2 DEF Rename, Working, Inside
    <3> QED BY <1>1, <2>2, <3>1 DEF Rename, ServedInv, ServedStays
  <2> QED BY <2>1, <2>2
<1> QED BY <1>3, <1>4 DEF ServedInv

(* A database is made, and given its identity, only for a target that was  *)
(* never up.                                                               *)
LEMMA CreateServes ==
    ASSUME InstallationInv, ServedInv, NEW t \in Targets, Create(t) \/ Identify(t)
    PROVE  ServedInv'
<1> USE DEF At, Goto
<1>1. /\ at \in [Targets -> Steps] /\ held \in [Targets -> Records]
      /\ database \in [Targets -> {Absent} \cup 0..drawn]
      /\ at[t] \in {"creating", "identifying"} /\ Working(t)
      /\ held' = held /\ record' = record /\ served' = served
  BY DEF Create, Identify, InstallationInv, InstallationTypeOK, Working, Inside
<1>2. held[t].targets[t] # "registered" /\ served[t] = 0
  BY <1>1 DEF ServedInv, OpenedIsHeld, ServedStays
<1>3. \A u \in Targets \ {t} : at'[u] = at[u] /\ database'[u] = database[u]
  BY <1>1 DEF Create, Identify
<1>4. \A u \in Targets : Working(u)' <=> Working(u)
  BY <1>1, <1>3 DEF Create, Identify, Working, Inside
<1>5. OpenedIsHeld'
  BY <1>1, <1>2, <1>3, <1>4 DEF Create, Identify, ServedInv, OpenedIsHeld
<1>6. ServedStays'
  <2>1. folders \subseteq folders' BY DEF Create, Identify
  <2> QED BY <1>1, <1>2, <1>3, <1>4, <2>1 DEF ServedInv, ServedStays
<1> QED BY <1>5, <1>6 DEF ServedInv

(* A target comes up with the database, the entry and the identity its     *)
(* daemon opened, or registers itself in its copy.                         *)
LEMMA EstablishServes ==
    ASSUME InstallationInv, ServedInv, NEW t \in Targets, Establish(t)
    PROVE  ServedInv'
<1> USE DEF At, Goto, disk
<1>1. /\ at \in [Targets -> Steps] /\ held \in [Targets -> Records]
      /\ served \in [Targets -> 0..drawn] /\ at[t] = "opened" /\ Working(t)
      /\ record = held[t] /\ t \in folders /\ database[t] = held[t].id
  BY DEF Establish, InstallationInv, InstallationTypeOK, Working, Inside, CopyIsCurrent,
         RootRemembers, ServedInv, OpenedIsHeld
<1>2. \A u \in Targets \ {t} : ~Working(u)
  BY <1>1 DEF InstallationInv, Exclusive, Working
<1>3. CASE held[t].targets[t] = "registered"
  <2>1. \A u \in Targets : ~Working(u)'
    BY <1>1, <1>2, <1>3 DEF Establish, Working, Inside
  <2>2. OpenedIsHeld'
    BY <1>1, <1>3, <2>1 DEF Establish, OpenedIsHeld, Working, Inside
  <2>3. ServedStays'
    BY <1>1, <1>3, <2>1 DEF Establish, Serve, ServedInv, ServedStays
  <2> QED BY <2>2, <2>3 DEF ServedInv
<1>4. CASE held[t].targets[t] # "registered"
  <2> DEFINE next == [held[t] EXCEPT !.targets[t] = "registered"]
  <2>1. /\ next.id = held[t].id
        /\ \A u \in Targets : held[t].targets[u] = "registered"
                                => next.targets[u] = "registered"
    BY <1>1 DEF Records, Registrations
  <2>2. /\ at' = [at EXCEPT ![t] = "writing"] /\ held' = [held EXCEPT ![t] = next]
        /\ served' = served /\ record' = record /\ folders' = folders
        /\ database' = database
    BY <1>4 DEF Establish, Hold
  <2> HIDE DEF next
  <2>3. \A u \in Targets : Working(u)' => u = t
    BY <1>1, <1>2, <2>2 DEF Working, Inside
  <2>4. OpenedIsHeld'
    BY <1>1, <2>1, <2>2, <2>3 DEF OpenedIsHeld, Working, Inside
  <2>5. ServedStays'
    BY <1>1, <2>1, <2>2, <2>3 DEF ServedInv, ServedStays
  <2> QED BY <2>4, <2>5 DEF ServedInv
<1> QED BY <1>3, <1>4

(* What is left: starts that are refused or written, daemons that go, and  *)
(* losses, none of which touches an entry or an identity.                  *)
LEMMA OtherServes ==
    ASSUME InstallationInv, ServedInv, NEW t \in Targets,
           \/ Lock(t) \/ RefuseMissing(t) \/ RefuseUnreadable(t)
           \/ Write(t) \/ Depart(t) \/ LoseDatabase(t)
    PROVE  ServedInv'
<1> USE DEF At, Goto, Hold, disk
<1>1. /\ at \in [Targets -> Steps] /\ held \in [Targets -> Records]
      /\ database \in [Targets -> {Absent} \cup 0..drawn]
      /\ record' = record /\ folders' = folders /\ served' = served
  BY DEF Lock, RefuseMissing, RefuseUnreadable, Leave, Write, Depart, LoseDatabase,
         InstallationInv, InstallationTypeOK
<1>2. \A u \in Targets \ {t} :
        at'[u] = at[u] /\ held'[u] = held[u] /\ database'[u] = database[u]
  BY <1>1 DEF Lock, RefuseMissing, RefuseUnreadable, Leave, Write, Depart, LoseDatabase
<1>3. \/ at'[t] \in {"down", "locked"} /\ database'[t] \in {Absent, database[t]}
      \/ /\ at[t] = "writing" /\ at'[t] = "renaming" /\ held'[t] = held[t]
         /\ database'[t] = database[t]
  BY <1>1 DEF Lock, RefuseMissing, RefuseUnreadable, Leave, Write, Depart, LoseDatabase
<1>4. OpenedIsHeld'
  BY <1>1, <1>2, <1>3 DEF ServedInv, OpenedIsHeld, Working, Inside
<1>5. ServedStays'
  BY <1>1, <1>2, <1>3 DEF ServedInv, ServedStays, Working, Inside
<1> QED BY <1>4, <1>5 DEF ServedInv

(* What was served stays, step by step.                                    *)
LEMMA ServedStep ==
    InstallationInv /\ ServedInv /\ [InstallationNext]_installationVars => ServedInv'
<1> SUFFICES ASSUME InstallationInv, ServedInv, [InstallationNext]_installationVars
             PROVE  ServedInv'
  OBVIOUS
<1>1. CASE UNCHANGED installationVars
  BY <1>1 DEF installationVars, disk, ServedInv, OpenedIsHeld, ServedStays, Working, At
<1>2. ASSUME NEW t \in Targets,
             \/ Lock(t) \/ Read(t) \/ Draw(t) \/ RefuseMissing(t) \/ RefuseUnreadable(t)
             \/ Write(t) \/ Rename(t) \/ Create(t) \/ Identify(t)
             \/ Establish(t) \/ Depart(t) \/ LoseDatabase(t)
      PROVE  ServedInv'
  BY <1>2, ReadServes, DrawServes, RenameServes, CreateServes, EstablishServes, OtherServes
<1>3. CASE LoseRecord \/ TouchRecord
  <2>1. record'.id = 0 \/ record' = record
    BY <1>3 DEF LoseRecord, TouchRecord, NoRecord
  <2> QED BY <1>3, <2>1 DEF LoseRecord, TouchRecord, ServedInv, OpenedIsHeld, ServedStays,
                            Working, At
<1> QED BY <1>1, <1>2, <1>3 DEF InstallationNext

(* A target that was up is never given an empty database or another        *)
(* identity, for any number of targets, whatever dies, is lost or cannot   *)
(* be read (installation_record, validate_database_registration).          *)
THEOREM InstallationServedIsNeverReplaced == InstallationSpec => []ServedIsNeverReplaced
<1>1. InstallationInit => ServedInv
  BY DEF InstallationInit, ServedInv, OpenedIsHeld, ServedStays, Working, Inside, At
<1>2. InstallationInv /\ ServedInv => ServedIsNeverReplaced
  BY DEF ServedInv, OpenedIsHeld, ServedStays, ServedIsNeverReplaced, Working, Inside, At
<1> QED BY <1>1, <1>2, ServedStep, InstallationInvariant, PTL DEF InstallationSpec

(* In every state a start can meet, an unreadable record included, the     *)
(* separate checks of establish_durable decide what classify_startup says. *)
THEOREM InstallationStartFollowsPolicy == InstallationSpec => StartFollowsPolicy
<1>1. ASSUME InstallationInv, NEW t \in Targets, Decide(t)
      PROVE  /\ at'[t] = "down" <=> Verdict(t) = "refuse"
             /\ drawn' # drawn <=> Verdict(t) = "create"
             /\ at'[t] = "opened" => Verdict(t) \in {"resume", "proceed"}
             /\ at'[t] = "writing" => Verdict(t) \in {"create", "stage", "resume"}
  <2>1. /\ at \in [Targets -> Steps] /\ record.targets[t] \in Registrations
        /\ drawn \in Nat
    BY <1>1, DrawsAssumption DEF InstallationInv, InstallationTypeOK, Records
  <2>2. CASE Read(t)
    <3>1. record.id # 0 /\ ~spoiled /\ Admit(t, record) /\ drawn' = drawn
      BY <2>2 DEF Read
    <3>2. Verdict(t) = classify_target(record.targets[t], Present(t), database[t] = record.id)
      BY <3>1 DEF Verdict, classify_startup
    <3>3. /\ record.targets[t] = "none"
               => Verdict(t) = IF Present(t) THEN "refuse" ELSE "stage"
          /\ record.targets[t] = "initializing"
               => Verdict(t) = IF Present(t) /\ database[t] # record.id
                                 THEN "refuse" ELSE "resume"
          /\ record.targets[t] = "registered"
               => Verdict(t) = IF Present(t) /\ database[t] = record.id
                                 THEN "proceed" ELSE "refuse"
      BY <3>2 DEF classify_target
    <3> QED BY <2>1, <3>1, <3>3 DEF Admit, validate_database_registration, Audited,
                                    Stageable, Goto, Registrations
  <2>3. CASE Draw(t)
    <3>1. /\ record.id = 0 /\ ~state_root_occupied /\ drawn' = drawn + 1
          /\ Admit(t, [NoRecord EXCEPT !.id = drawn + 1])
      BY <2>3 DEF Draw
    <3>2. Verdict(t) = "create"
      BY <3>1 DEF Verdict, classify_startup
    <3>3. ~Present(t)
      BY <1>1, <3>1 DEF state_root_occupied, InstallationInv, RootRemembers
    <3>4. at'[t] = "writing"
      <4>1. [NoRecord EXCEPT !.id = drawn + 1].targets[t] = "none"
        BY DEF NoRecord
      <4> QED BY <2>1, <3>1, <3>3, <4>1 DEF Admit, validate_database_registration, Audited,
                                          Stageable, Goto
    <3> QED BY <2>1, <3>1, <3>2, <3>4
  <2>4. CASE RefuseMissing(t) \/ RefuseUnreadable(t)
    <3>1. at'[t] = "down" /\ drawn' = drawn
      BY <2>1, <2>4 DEF RefuseMissing, RefuseUnreadable, Leave, Goto
    <3>2. Verdict(t) = "refuse"
      BY <2>4 DEF RefuseMissing, RefuseUnreadable, Verdict, classify_startup
    <3> QED BY <3>1, <3>2
  <2> QED BY <1>1, <2>2, <2>3, <2>4 DEF Decide
<1>2. InstallationInv /\ [InstallationNext]_installationVars
        => [\A t \in Targets : Decide(t) =>
              /\ at'[t] = "down" <=> Verdict(t) = "refuse"
              /\ drawn' # drawn <=> Verdict(t) = "create"
              /\ at'[t] = "opened" => Verdict(t) \in {"resume", "proceed"}
              /\ at'[t] = "writing" => Verdict(t) \in {"create", "stage", "resume"}
           ]_installationVars
  BY <1>1
<1> QED BY <1>2, InstallationInvariant, PTL DEF InstallationSpec, StartFollowsPolicy
=============================================================================
