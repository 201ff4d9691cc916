----------------------- MODULE DaemonOwnershipProofs -----------------------
(***************************************************************************)
(* Proofs about ownership, for any number of daemons, starting clients and *)
(* runtime roots: one writer of a target's state, a serving daemon that    *)
(* can be found, and stops that end the one meant.  The inductive          *)
(* invariant is OwnershipInv.                                              *)
(***************************************************************************)
EXTENDS DaemonOwnership, TLAPS

Owning == {"locked", "owner", "leased", "bound", "serving", "stopping",
           "withdrawn", "failing", "unleasing", "unowning"}

(* A process that has been launched has a root, and so has a client that   *)
(* has begun.                                                              *)
Located ==
    /\ \A d \in Daemons : phase[d] # "unborn" => home[d] \in Roots
    /\ \A s \in Starters : ~Is(s, "idle") => Place(s) \in Roots

(* From the step that takes the owner lock to the one that lets it go the  *)
(* lock names its holder, a daemon or a client that looks for an owner.    *)
LockNamesHolder ==
    /\ \A d \in Daemons : phase[d] \in Owning => owner[home[d]] = d
    /\ \A s \in Starters : Is(s, "holding") => owner[Place(s)] = s

LeaseNamesWriter == \A d \in Daemons : HasStateOpen(d) => lease = d

(* What a daemon wrote under the owner lock is its own while it needs it.  *)
SocketIsOwn ==
    \A d \in Daemons : phase[d] \in {"bound", "serving"} => endpoint[home[d]] = d
RecordIsOwn ==
    \A d \in Daemons : At(d, "serving") => record[home[d]] = d

OwnershipInv ==
    /\ TypeOK /\ Located /\ LockNamesHolder /\ LeaseNamesWriter
    /\ SocketIsOwn /\ RecordIsOwn /\ StopEndsTheOneMeant

-----------------------------------------------------------------------------
(* The initial state satisfies the invariant.                              *)
LEMMA OwnershipInit == Init => OwnershipInv
<1> SUFFICES ASSUME Init PROVE OwnershipInv OBVIOUS
<1>1. TypeOK BY DEF Init, TypeOK, Phases, Ends, Calls, Steps
<1>2. /\ \A d \in Daemons : phase[d] = "unborn" /\ ended[d] = "none"
      /\ \A s \in Starters : Is(s, "idle")
  BY DEF Init, Is
<1> QED
  BY <1>1, <1>2 DEF OwnershipInv, Located, LockNamesHolder, LeaseNamesWriter, SocketIsOwn,
                    RecordIsOwn, StopEndsTheOneMeant, Owning, HasStateOpen, At, Is

(* A launched process has its root and holds nothing yet.                  *)
LEMMA LaunchKeeps ==
    ASSUME OwnershipInv, NEW d \in Daemons, NEW r \in Roots, Launch(d, r)
    PROVE  OwnershipInv'
<1> USE PartiesAssumption DEF OwnershipInv, At, Goto, Is, Place, disk, daemons, clients
<1>1. TypeOK' BY DEF Launch, TypeOK, Phases, Ends, Calls, Steps
<1>2. Located' BY DEF Launch, Located, TypeOK, Calls
<1>3. LockNamesHolder' BY DEF Launch, LockNamesHolder, Located, Owning, TypeOK, Calls
<1>4. LeaseNamesWriter' BY DEF Launch, LeaseNamesWriter, HasStateOpen, TypeOK
<1>5. SocketIsOwn' BY DEF Launch, SocketIsOwn, LockNamesHolder, Located, Owning, TypeOK
<1>6. RecordIsOwn' BY DEF Launch, RecordIsOwn, LockNamesHolder, Located, Owning, TypeOK
<1>7. StopEndsTheOneMeant' BY DEF Launch, StopEndsTheOneMeant, TypeOK
<1> QED BY <1>1, <1>2, <1>3, <1>4, <1>5, <1>6, <1>7

(* The owner lock is free when it is taken; a refused daemon ends without  *)
(* it.                                                                     *)
LEMMA AcquireKeeps ==
    ASSUME OwnershipInv, NEW d \in Daemons, Acquire(d)
    PROVE  OwnershipInv'
<1> USE PartiesAssumption DEF OwnershipInv, At, Goto, Is, Place, disk, daemons, clients
<1>1. TypeOK' BY DEF Acquire, End, TypeOK, Phases, Ends, Calls, Steps
<1>2. Located' BY DEF Acquire, End, Located, TypeOK, Calls
<1>3. LockNamesHolder' BY DEF Acquire, End, LockNamesHolder, Located, Owning, TypeOK, Calls
<1>4. LeaseNamesWriter' BY DEF Acquire, End, LeaseNamesWriter, HasStateOpen, TypeOK
<1>5. SocketIsOwn' BY DEF Acquire, End, SocketIsOwn, LockNamesHolder, Located, Owning, TypeOK
<1>6. RecordIsOwn' BY DEF Acquire, End, RecordIsOwn, LockNamesHolder, Located, Owning, TypeOK
<1>7. StopEndsTheOneMeant' BY DEF Acquire, End, StopEndsTheOneMeant, TypeOK
<1> QED BY <1>1, <1>2, <1>3, <1>4, <1>5, <1>6, <1>7

(* The new owner removes the record of a departed one, under the lock.     *)
LEMMA RecoverKeeps ==
    ASSUME OwnershipInv, NEW d \in Daemons, Recover(d)
    PROVE  OwnershipInv'
<1> USE PartiesAssumption DEF OwnershipInv, At, Goto, Is, Place, disk, daemons, clients
<1>1. TypeOK' BY DEF Recover, TypeOK, Phases, Ends, Calls, Steps
<1>2. Located' BY DEF Recover, Located, TypeOK, Calls
<1>3. LockNamesHolder' BY DEF Recover, LockNamesHolder, Located, Owning, TypeOK, Calls
<1>4. LeaseNamesWriter' BY DEF Recover, LeaseNamesWriter, HasStateOpen, TypeOK
<1>5. SocketIsOwn' BY DEF Recover, SocketIsOwn, LockNamesHolder, Located, Owning, TypeOK
<1>6. RecordIsOwn' BY DEF Recover, RecordIsOwn, LockNamesHolder, Located, Owning, TypeOK
<1>7. StopEndsTheOneMeant' BY DEF Recover, StopEndsTheOneMeant, TypeOK
<1> QED BY <1>1, <1>2, <1>3, <1>4, <1>5, <1>6, <1>7

(* A daemon refused by its configuration still holds the owner lock, and   *)
(* no lease.                                                               *)
LEMMA RefuseKeeps ==
    ASSUME OwnershipInv, NEW d \in Daemons, Refuse(d)
    PROVE  OwnershipInv'
<1> USE PartiesAssumption DEF OwnershipInv, At, Goto, Is, Place, disk, daemons, clients
<1>1. TypeOK' BY DEF Refuse, End, TypeOK, Phases, Ends, Calls, Steps
<1>2. Located' BY DEF Refuse, End, Located, TypeOK, Calls
<1>3. LockNamesHolder' BY DEF Refuse, End, LockNamesHolder, Located, Owning, TypeOK, Calls
<1>4. LeaseNamesWriter' BY DEF Refuse, End, LeaseNamesWriter, HasStateOpen, TypeOK
<1>5. SocketIsOwn' BY DEF Refuse, End, SocketIsOwn, LockNamesHolder, Located, Owning, TypeOK
<1>6. RecordIsOwn' BY DEF Refuse, End, RecordIsOwn, LockNamesHolder, Located, Owning, TypeOK
<1>7. StopEndsTheOneMeant' BY DEF Refuse, End, StopEndsTheOneMeant, TypeOK
<1> QED BY <1>1, <1>2, <1>3, <1>4, <1>5, <1>6, <1>7

(* The lease on the target's state is taken only when nobody holds it.     *)
LEMMA EstablishKeeps ==
    ASSUME OwnershipInv, NEW d \in Daemons, Establish(d)
    PROVE  OwnershipInv'
<1> USE PartiesAssumption DEF OwnershipInv, At, Goto, Is, Place, disk, daemons, clients
<1>1. TypeOK' BY DEF Establish, End, TypeOK, Phases, Ends, Calls, Steps
<1>2. Located' BY DEF Establish, End, Located, TypeOK, Calls
<1>3. LockNamesHolder' BY DEF Establish, End, LockNamesHolder, Located, Owning, TypeOK, Calls
<1>4. LeaseNamesWriter' BY DEF Establish, End, LeaseNamesWriter, HasStateOpen, TypeOK
<1>5. SocketIsOwn' BY DEF Establish, End, SocketIsOwn, LockNamesHolder, Located, Owning, TypeOK
<1>6. RecordIsOwn' BY DEF Establish, End, RecordIsOwn, LockNamesHolder, Located, Owning, TypeOK
<1>7. StopEndsTheOneMeant' BY DEF Establish, End, StopEndsTheOneMeant, TypeOK
<1> QED BY <1>1, <1>2, <1>3, <1>4, <1>5, <1>6, <1>7

(* A daemon whose durable state is refused keeps both locks until it       *)
(* releases them.                                                          *)
LEMMA RefuseStateKeeps ==
    ASSUME OwnershipInv, NEW d \in Daemons, RefuseState(d)
    PROVE  OwnershipInv'
<1> USE PartiesAssumption DEF OwnershipInv, At, Goto, Is, Place, disk, daemons, clients
<1>1. TypeOK' BY DEF RefuseState, End, TypeOK, Phases, Ends, Calls, Steps
<1>2. Located' BY DEF RefuseState, End, Located, TypeOK, Calls
<1>3. LockNamesHolder' BY DEF RefuseState, End, LockNamesHolder, Located, Owning, TypeOK, Calls
<1>4. LeaseNamesWriter' BY DEF RefuseState, End, LeaseNamesWriter, HasStateOpen, TypeOK
<1>5. SocketIsOwn'
  BY DEF RefuseState, End, SocketIsOwn, LockNamesHolder, Located, Owning, TypeOK
<1>6. RecordIsOwn'
  BY DEF RefuseState, End, RecordIsOwn, LockNamesHolder, Located, Owning, TypeOK
<1>7. StopEndsTheOneMeant' BY DEF RefuseState, End, StopEndsTheOneMeant, TypeOK
<1> QED BY <1>1, <1>2, <1>3, <1>4, <1>5, <1>6, <1>7

(* The socket bound under the owner lock is the binder's own.              *)
LEMMA BindKeeps ==
    ASSUME OwnershipInv, NEW d \in Daemons, Bind(d)
    PROVE  OwnershipInv'
<1> USE PartiesAssumption DEF OwnershipInv, At, Goto, Is, Place, disk, daemons, clients
<1>1. TypeOK' BY DEF Bind, TypeOK, Phases, Ends, Calls, Steps
<1>2. Located' BY DEF Bind, Located, TypeOK, Calls
<1>3. LockNamesHolder' BY DEF Bind, LockNamesHolder, Located, Owning, TypeOK, Calls
<1>4. LeaseNamesWriter' BY DEF Bind, LeaseNamesWriter, HasStateOpen, TypeOK
<1>5. SocketIsOwn' BY DEF Bind, SocketIsOwn, LockNamesHolder, Located, Owning, TypeOK
<1>6. RecordIsOwn' BY DEF Bind, RecordIsOwn, LockNamesHolder, Located, Owning, TypeOK
<1>7. StopEndsTheOneMeant' BY DEF Bind, StopEndsTheOneMeant, TypeOK
<1> QED BY <1>1, <1>2, <1>3, <1>4, <1>5, <1>6, <1>7

(* So is the ready record that is published under it.                      *)
LEMMA PublishReadinessKeeps ==
    ASSUME OwnershipInv, NEW d \in Daemons, PublishReadiness(d)
    PROVE  OwnershipInv'
<1> USE PartiesAssumption DEF OwnershipInv, At, Goto, Is, Place, disk, daemons, clients
<1>1. TypeOK' BY DEF PublishReadiness, TypeOK, Phases, Ends, Calls, Steps
<1>2. Located' BY DEF PublishReadiness, Located, TypeOK, Calls
<1>3. LockNamesHolder' BY DEF PublishReadiness, LockNamesHolder, Located, Owning, TypeOK, Calls
<1>4. LeaseNamesWriter' BY DEF PublishReadiness, LeaseNamesWriter, HasStateOpen, TypeOK
<1>5. SocketIsOwn'
  BY DEF PublishReadiness, SocketIsOwn, LockNamesHolder, Located, Owning, TypeOK
<1>6. RecordIsOwn'
  BY DEF PublishReadiness, RecordIsOwn, LockNamesHolder, Located, Owning, TypeOK
<1>7. StopEndsTheOneMeant' BY DEF PublishReadiness, StopEndsTheOneMeant, TypeOK
<1> QED BY <1>1, <1>2, <1>3, <1>4, <1>5, <1>6, <1>7

(* A failed publication begins the way down with all three still held.     *)
LEMMA PublishFailsKeeps ==
    ASSUME OwnershipInv, NEW d \in Daemons, PublishFails(d)
    PROVE  OwnershipInv'
<1> USE PartiesAssumption DEF OwnershipInv, At, Goto, Is, Place, disk, daemons, clients
<1>1. TypeOK' BY DEF PublishFails, End, TypeOK, Phases, Ends, Calls, Steps
<1>2. Located' BY DEF PublishFails, End, Located, TypeOK, Calls
<1>3. LockNamesHolder' BY DEF PublishFails, End, LockNamesHolder, Located, Owning, TypeOK, Calls
<1>4. LeaseNamesWriter' BY DEF PublishFails, End, LeaseNamesWriter, HasStateOpen, TypeOK
<1>5. SocketIsOwn'
  BY DEF PublishFails, End, SocketIsOwn, LockNamesHolder, Located, Owning, TypeOK
<1>6. RecordIsOwn'
  BY DEF PublishFails, End, RecordIsOwn, LockNamesHolder, Located, Owning, TypeOK
<1>7. StopEndsTheOneMeant' BY DEF PublishFails, End, StopEndsTheOneMeant, TypeOK
<1> QED BY <1>1, <1>2, <1>3, <1>4, <1>5, <1>6, <1>7

(* A stop request ends the daemon whose nonce it carries.                  *)
LEMMA StopArrivesKeeps ==
    ASSUME OwnershipInv, NEW d \in Daemons, NEW r \in Roots, StopArrives(d, r)
    PROVE  OwnershipInv'
<1> USE PartiesAssumption DEF OwnershipInv, At, Goto, Is, Place, disk, daemons, clients
<1>1. TypeOK' BY DEF StopArrives, Stop, End, TypeOK, Phases, Ends, Calls, Steps
<1>2. Located' BY DEF StopArrives, Stop, End, Located, TypeOK, Calls
<1>3. LockNamesHolder'
  BY DEF StopArrives, Stop, End, LockNamesHolder, Located, Owning, TypeOK, Calls
<1>4. LeaseNamesWriter' BY DEF StopArrives, Stop, End, LeaseNamesWriter, HasStateOpen, TypeOK
<1>5. SocketIsOwn'
  BY DEF StopArrives, Stop, End, SocketIsOwn, LockNamesHolder, Located, Owning, TypeOK
<1>6. RecordIsOwn'
  BY DEF StopArrives, Stop, End, RecordIsOwn, LockNamesHolder, Located, Owning, TypeOK
<1>7. StopEndsTheOneMeant' BY DEF StopArrives, Stop, End, StopEndsTheOneMeant, TypeOK
<1> QED BY <1>1, <1>2, <1>3, <1>4, <1>5, <1>6, <1>7

(* A failed accept begins the same way down as a stop.                     *)
LEMMA AcceptFailsKeeps ==
    ASSUME OwnershipInv, NEW d \in Daemons, AcceptFails(d)
    PROVE  OwnershipInv'
<1> USE PartiesAssumption DEF OwnershipInv, At, Goto, Is, Place, disk, daemons, clients
<1>1. TypeOK' BY DEF AcceptFails, Stop, End, TypeOK, Phases, Ends, Calls, Steps
<1>2. Located' BY DEF AcceptFails, Stop, End, Located, TypeOK, Calls
<1>3. LockNamesHolder'
  BY DEF AcceptFails, Stop, End, LockNamesHolder, Located, Owning, TypeOK, Calls
<1>4. LeaseNamesWriter' BY DEF AcceptFails, Stop, End, LeaseNamesWriter, HasStateOpen, TypeOK
<1>5. SocketIsOwn'
  BY DEF AcceptFails, Stop, End, SocketIsOwn, LockNamesHolder, Located, Owning, TypeOK
<1>6. RecordIsOwn'
  BY DEF AcceptFails, Stop, End, RecordIsOwn, LockNamesHolder, Located, Owning, TypeOK
<1>7. StopEndsTheOneMeant' BY DEF AcceptFails, Stop, End, StopEndsTheOneMeant, TypeOK
<1> QED BY <1>1, <1>2, <1>3, <1>4, <1>5, <1>6, <1>7

(* The ready record is withdrawn by the daemon that holds the owner lock.  *)
LEMMA WithdrawKeeps ==
    ASSUME OwnershipInv, NEW d \in Daemons, Withdraw(d)
    PROVE  OwnershipInv'
<1> USE PartiesAssumption DEF OwnershipInv, At, Goto, Is, Place, disk, daemons, clients
<1>1. TypeOK' BY DEF Withdraw, TypeOK, Phases, Ends, Calls, Steps
<1>2. Located' BY DEF Withdraw, Located, TypeOK, Calls
<1>3. LockNamesHolder' BY DEF Withdraw, LockNamesHolder, Located, Owning, TypeOK, Calls
<1>4. LeaseNamesWriter' BY DEF Withdraw, LeaseNamesWriter, HasStateOpen, TypeOK
<1>5. SocketIsOwn' BY DEF Withdraw, SocketIsOwn, LockNamesHolder, Located, Owning, TypeOK
<1>6. RecordIsOwn' BY DEF Withdraw, RecordIsOwn, LockNamesHolder, Located, Owning, TypeOK
<1>7. StopEndsTheOneMeant' BY DEF Withdraw, StopEndsTheOneMeant, TypeOK
<1> QED BY <1>1, <1>2, <1>3, <1>4, <1>5, <1>6, <1>7

(* The socket is removed only if it is the daemon's own.                   *)
LEMMA RemoveEndpointKeeps ==
    ASSUME OwnershipInv, NEW d \in Daemons, RemoveEndpoint(d)
    PROVE  OwnershipInv'
<1> USE PartiesAssumption DEF OwnershipInv, At, Goto, Is, Place, disk, daemons, clients
<1>1. TypeOK' BY DEF RemoveEndpoint, RemoveSocket, TypeOK, Phases, Ends, Calls, Steps
<1>2. Located' BY DEF RemoveEndpoint, RemoveSocket, Located, TypeOK, Calls
<1>3. LockNamesHolder'
  BY DEF RemoveEndpoint, RemoveSocket, LockNamesHolder, Located, Owning, TypeOK, Calls
<1>4. LeaseNamesWriter'
  BY DEF RemoveEndpoint, RemoveSocket, LeaseNamesWriter, HasStateOpen, TypeOK
<1>5. SocketIsOwn'
  BY DEF RemoveEndpoint, RemoveSocket, SocketIsOwn, LockNamesHolder, Located, Owning, TypeOK
<1>6. RecordIsOwn'
  BY DEF RemoveEndpoint, RemoveSocket, RecordIsOwn, LockNamesHolder, Located, Owning, TypeOK
<1>7. StopEndsTheOneMeant' BY DEF RemoveEndpoint, RemoveSocket, StopEndsTheOneMeant, TypeOK
<1> QED BY <1>1, <1>2, <1>3, <1>4, <1>5, <1>6, <1>7

(* The lease is given back by its holder, whose state is closed by then.   *)
LEMMA ReleaseLeaseKeeps ==
    ASSUME OwnershipInv, NEW d \in Daemons, ReleaseLease(d)
    PROVE  OwnershipInv'
<1> USE PartiesAssumption DEF OwnershipInv, At, Goto, Is, Place, disk, daemons, clients
<1>1. TypeOK' BY DEF ReleaseLease, TypeOK, Phases, Ends, Calls, Steps
<1>2. Located' BY DEF ReleaseLease, Located, TypeOK, Calls
<1>3. LockNamesHolder' BY DEF ReleaseLease, LockNamesHolder, Located, Owning, TypeOK, Calls
<1>4. LeaseNamesWriter' BY DEF ReleaseLease, LeaseNamesWriter, HasStateOpen, TypeOK
<1>5. SocketIsOwn' BY DEF ReleaseLease, SocketIsOwn, LockNamesHolder, Located, Owning, TypeOK
<1>6. RecordIsOwn' BY DEF ReleaseLease, RecordIsOwn, LockNamesHolder, Located, Owning, TypeOK
<1>7. StopEndsTheOneMeant' BY DEF ReleaseLease, StopEndsTheOneMeant, TypeOK
<1> QED BY <1>1, <1>2, <1>3, <1>4, <1>5, <1>6, <1>7

(* The owner lock goes after the lease.                                    *)
LEMMA ReleaseOwnerKeeps ==
    ASSUME OwnershipInv, NEW d \in Daemons, ReleaseOwner(d)
    PROVE  OwnershipInv'
<1> USE PartiesAssumption DEF OwnershipInv, At, Goto, Is, Place, disk, daemons, clients
<1>1. TypeOK' BY DEF ReleaseOwner, TypeOK, Phases, Ends, Calls, Steps
<1>2. Located' BY DEF ReleaseOwner, Located, TypeOK, Calls
<1>3. LockNamesHolder' BY DEF ReleaseOwner, LockNamesHolder, Located, Owning, TypeOK, Calls
<1>4. LeaseNamesWriter' BY DEF ReleaseOwner, LeaseNamesWriter, HasStateOpen, TypeOK
<1>5. SocketIsOwn' BY DEF ReleaseOwner, SocketIsOwn, LockNamesHolder, Located, Owning, TypeOK
<1>6. RecordIsOwn' BY DEF ReleaseOwner, RecordIsOwn, LockNamesHolder, Located, Owning, TypeOK
<1>7. StopEndsTheOneMeant' BY DEF ReleaseOwner, StopEndsTheOneMeant, TypeOK
<1> QED BY <1>1, <1>2, <1>3, <1>4, <1>5, <1>6, <1>7

(* A dropped listener removes only its own socket, so the one a successor  *)
(* has bound stays.                                                        *)
LEMMA DropListenerKeeps ==
    ASSUME OwnershipInv, NEW d \in Daemons, DropListener(d)
    PROVE  OwnershipInv'
<1> USE PartiesAssumption DEF OwnershipInv, At, Goto, Is, Place, disk, daemons, clients
<1>1. TypeOK'
  <2>1. phase' \in [Daemons -> Phases] BY DEF DropListener, TypeOK, Phases
  <2>2. endpoint' \in [Roots -> Daemons \cup {None}] BY DEF DropListener, RemoveSocket, TypeOK
  <2> QED BY <2>1, <2>2 DEF DropListener, TypeOK
<1>2. Located' BY DEF DropListener, RemoveSocket, Located, TypeOK, Calls
<1>3. LockNamesHolder'
  BY DEF DropListener, RemoveSocket, LockNamesHolder, Located, Owning, TypeOK, Calls
<1>4. LeaseNamesWriter'
  BY DEF DropListener, RemoveSocket, LeaseNamesWriter, HasStateOpen, TypeOK
<1>5. SocketIsOwn'
  BY DEF DropListener, RemoveSocket, SocketIsOwn, LockNamesHolder, Located, Owning, TypeOK
<1>6. RecordIsOwn'
  BY DEF DropListener, RemoveSocket, RecordIsOwn, LockNamesHolder, Located, Owning, TypeOK
<1>7. StopEndsTheOneMeant' BY DEF DropListener, RemoveSocket, StopEndsTheOneMeant, TypeOK
<1> QED BY <1>1, <1>2, <1>3, <1>4, <1>5, <1>6, <1>7

(* A killed daemon loses its locks at once; its files stay.                *)
LEMMA KillKeeps ==
    ASSUME OwnershipInv, NEW d \in Daemons, Kill(d)
    PROVE  OwnershipInv'
<1> USE PartiesAssumption DEF OwnershipInv, At, Goto, Is, Place, disk, daemons, clients
<1>1. TypeOK' BY DEF Kill, End, TypeOK, Phases, Ends, Calls, Steps
<1>2. Located' BY DEF Kill, End, Located, TypeOK, Calls
<1>3. LockNamesHolder' BY DEF Kill, End, LockNamesHolder, Located, Owning, TypeOK, Calls
<1>4. LeaseNamesWriter' BY DEF Kill, End, LeaseNamesWriter, HasStateOpen, TypeOK
<1>5. SocketIsOwn' BY DEF Kill, End, SocketIsOwn, LockNamesHolder, Located, Owning, TypeOK
<1>6. RecordIsOwn' BY DEF Kill, End, RecordIsOwn, LockNamesHolder, Located, Owning, TypeOK
<1>7. StopEndsTheOneMeant' BY DEF Kill, End, StopEndsTheOneMeant, TypeOK
<1> QED BY <1>1, <1>2, <1>3, <1>4, <1>5, <1>6, <1>7

-----------------------------------------------------------------------------
(* What a client's call looks like after it has gone on to a step.         *)
LEMMA CallGoesOn ==
    ASSUME TypeOK, NEW s \in Starters, NEW a \in Steps, Go(s, a)
    PROVE  /\ starter' \in [Starters -> Calls]
           /\ \A u \in Starters : u # s => starter'[u] = starter[u]
           /\ starter'[s].at = a /\ starter'[s].root = starter[s].root
<1>1. starter[s] \in Calls BY DEF TypeOK
<1>2. [starter[s] EXCEPT !.at = a] \in Calls BY <1>1 DEF Calls
<1> QED BY <1>1, <1>2 DEF Go, TypeOK, Calls

(* What it looks like after it has failed, with the election dropped.      *)
LEMMA CallFails ==
    ASSUME TypeOK, NEW s \in Starters, Fails(s)
    PROVE  /\ starter' \in [Starters -> Calls]
           /\ \A u \in Starters : u # s => starter'[u] = starter[u]
           /\ starter'[s].at = "done" /\ starter'[s].root = starter[s].root
           /\ election' \in [Roots -> Starters \cup {None}]
<1> DEFINE failed == [starter[s] EXCEPT !.at = "done", !.child = None, !.outcome = "failed"]
<1>1. starter[s] \in Calls BY DEF TypeOK
<1>2. failed \in Calls /\ failed.at = "done" /\ failed.root = starter[s].root
  BY <1>1 DEF Calls, Steps
<1>3. starter' = [starter EXCEPT ![s] = failed] BY <1>1 DEF Fails, Calls
<1>4. election' \in [Roots -> Starters \cup {None}] BY DEF Fails, Dismiss, TypeOK
<1> HIDE DEF failed
<1> QED BY <1>2, <1>3, <1>4 DEF TypeOK

(* A client that neither takes nor lets go of the owner lock disturbs no   *)
(* daemon.                                                                 *)
LEMMA ClientKeeps ==
    ASSUME OwnershipInv, UNCHANGED daemons, NEW s \in Starters,
           starter' \in [Starters -> Calls],
           election' \in [Roots -> Starters \cup {None}], asked' = asked,
           \A u \in Starters : u # s => starter'[u] = starter[u],
           ~Is(s, "idle")' => Place(s)' \in Roots, ~Is(s, "holding")'
    PROVE  OwnershipInv'
<1> USE DEF OwnershipInv, daemons, disk
<1>1. TypeOK' BY DEF TypeOK
<1>2. Located' BY DEF Located, Is, Place
<1>3. LockNamesHolder' BY DEF LockNamesHolder, Is, Place
<1>4. LeaseNamesWriter' /\ SocketIsOwn' /\ RecordIsOwn' /\ StopEndsTheOneMeant'
  BY DEF LeaseNamesWriter, SocketIsOwn, RecordIsOwn, StopEndsTheOneMeant, HasStateOpen, At
<1> QED BY <1>1, <1>2, <1>3, <1>4

(* A question for the nonce only adds to what clients have been told.      *)
LEMMA AskNonceKeeps ==
    ASSUME OwnershipInv, NEW r \in Roots, AskNonce(r)
    PROVE  OwnershipInv'
<1> USE DEF OwnershipInv, AskNonce, daemons, disk
<1>1. TypeOK' BY DEF TypeOK
<1>2. Located' /\ LockNamesHolder' BY DEF Located, LockNamesHolder, Is, Place
<1>3. LeaseNamesWriter' /\ SocketIsOwn' /\ RecordIsOwn' /\ StopEndsTheOneMeant'
  BY DEF LeaseNamesWriter, SocketIsOwn, RecordIsOwn, StopEndsTheOneMeant, HasStateOpen, At
<1> QED BY <1>1, <1>2, <1>3

(* A start begins in the root it is given.                                 *)
LEMMA BeginKeeps ==
    ASSUME OwnershipInv, NEW s \in Starters, NEW r \in Roots, Begin(s, r)
    PROVE  OwnershipInv'
<1> DEFINE begun == [starter[s] EXCEPT !.at = "probing", !.root = r]
<1>1. starter[s] \in Calls BY DEF OwnershipInv, TypeOK
<1>2. begun \in Calls /\ begun.at = "probing" /\ begun.root = r BY <1>1 DEF Calls, Steps
<1>3. starter' = [starter EXCEPT ![s] = begun] BY <1>1 DEF Begin, Calls
<1> HIDE DEF begun
<1>4. /\ starter' \in [Starters -> Calls]
      /\ \A u \in Starters : u # s => starter'[u] = starter[u]
      /\ starter'[s] = begun
  BY <1>2, <1>3 DEF OwnershipInv, TypeOK
<1>5. election' \in [Roots -> Starters \cup {None}] /\ asked' = asked /\ UNCHANGED daemons
  BY DEF Begin, OwnershipInv, TypeOK
<1> QED BY <1>2, <1>4, <1>5, ClientKeeps DEF Is, Place

(* A probe that is answered ends the start.                                *)
LEMMA ProbeAnsweredKeeps ==
    ASSUME OwnershipInv, NEW s \in Starters, ProbeAnswered(s)
    PROVE  OwnershipInv'
<1>1. PICK d \in Daemons :
        starter' = [starter EXCEPT ![s].at = "done", ![s].child = None, ![s].nonce = d,
                      ![s].outcome = IF Is(s, "awaiting") THEN "started" ELSE "joined"]
  BY DEF ProbeAnswered, Live, OwnershipInv, TypeOK
<1> DEFINE joined == [starter[s] EXCEPT !.at = "done", !.child = None, !.nonce = d,
                        !.outcome = IF Is(s, "awaiting") THEN "started" ELSE "joined"]
<1>2. starter[s] \in Calls BY DEF OwnershipInv, TypeOK
<1>3. joined \in Calls /\ joined.at = "done" /\ joined.root = starter[s].root
  BY <1>2 DEF Calls, Steps
<1>4. starter' = [starter EXCEPT ![s] = joined] BY <1>1, <1>2 DEF Calls
<1> HIDE DEF joined
<1>5. /\ starter' \in [Starters -> Calls]
      /\ \A u \in Starters : u # s => starter'[u] = starter[u]
      /\ starter'[s] = joined
  BY <1>3, <1>4 DEF OwnershipInv, TypeOK
<1>6. starter[s].root \in Roots
  BY DEF ProbeAnswered, Silent, OwnershipInv, Located, Is, Place
<1>7. election' \in [Roots -> Starters \cup {None}] /\ asked' = asked /\ UNCHANGED daemons
  BY DEF ProbeAnswered, Dismiss, OwnershipInv, TypeOK
<1> QED BY <1>3, <1>5, <1>6, <1>7, ClientKeeps DEF Is, Place

(* A call that goes on, or fails, outside the owner lock.                  *)
LEMMA CallStepKeeps ==
    ASSUME OwnershipInv, NEW s \in Starters, ~Is(s, "idle"), UNCHANGED <<daemons, asked>>,
           \/ /\ \E a \in Steps \ {"holding"} : Go(s, a)
              /\ election' \in [Roots -> Starters \cup {None}]
           \/ Fails(s)
    PROVE  OwnershipInv'
<1>1. TypeOK /\ starter[s].root \in Roots BY DEF OwnershipInv, Located, Is, Place
<1>2. CASE Fails(s)
  BY <1>1, <1>2, CallFails, ClientKeeps DEF Is, Place
<1>3. ASSUME NEW a \in Steps \ {"holding"}, Go(s, a),
             election' \in [Roots -> Starters \cup {None}]
      PROVE  OwnershipInv'
  BY <1>1, <1>3, CallGoesOn, ClientKeeps DEF Is, Place
<1> QED BY <1>2, <1>3

(* The steps of explicit_start that only move the call.                    *)
LEMMA StarterKeeps ==
    ASSUME OwnershipInv, NEW s \in Starters,
           ProbeAbsent(s) \/ ProbeFails(s) \/ Elect(s) \/ NotElected(s) \/ SpawnFails(s)
             \/ Watch(s)
    PROVE  OwnershipInv'
<1>1. ~Is(s, "idle")
  BY DEF ProbeAbsent, ProbeFails, Elect, NotElected, SpawnFails, Watch, Silent, Is
<1>2. UNCHANGED <<daemons, asked>>
  BY DEF ProbeAbsent, ProbeFails, Elect, NotElected, SpawnFails, Watch
<1>3. \/ Fails(s)
      \/ \E a \in {"electing", "awaiting", "launching", "rechecking", "probing"} : Go(s, a)
  BY DEF ProbeAbsent, ProbeFails, Elect, NotElected, SpawnFails, Watch, Silent
<1>4. Fails(s) \/ election' \in [Roots -> Starters \cup {None}]
  BY DEF ProbeAbsent, ProbeFails, Elect, NotElected, SpawnFails, Watch, OwnershipInv, TypeOK
<1>5. Fails(s) \/ \E a \in Steps \ {"holding"} : Go(s, a) BY <1>3 DEF Steps
<1> QED BY <1>1, <1>2, <1>4, <1>5, CallStepKeeps

(* owner_is_absent holds the lock for a moment, and only when it was free. *)
LEMMA LookForOwnerKeeps ==
    ASSUME OwnershipInv, NEW s \in Starters, LookForOwner(s)
    PROVE  OwnershipInv'
<1>1. TypeOK /\ Place(s) \in Roots /\ asked' = asked /\ election' = election
  BY DEF LookForOwner, OwnershipInv, Located, Is
<1>2. CASE Go(s, "watching") /\ UNCHANGED owner
  <2>1. UNCHANGED daemons BY <1>2 DEF LookForOwner, daemons, disk
  <2>2. "watching" \in Steps \ {"holding"} /\ ~Is(s, "idle") BY DEF Steps, LookForOwner, Is
  <2> QED BY <1>1, <1>2, <2>1, <2>2, CallStepKeeps DEF OwnershipInv, TypeOK
<1>3. CASE /\ owner[Place(s)] = None /\ owner' = [owner EXCEPT ![Place(s)] = s]
           /\ Go(s, "holding")
  <2> USE DEF OwnershipInv, LookForOwner, disk
  <2>1. /\ starter' \in [Starters -> Calls]
        /\ \A u \in Starters : u # s => starter'[u] = starter[u]
        /\ starter'[s].at = "holding" /\ starter'[s].root = starter[s].root
    BY <1>1, <1>3, CallGoesOn DEF Steps
  <2>2. TypeOK' BY <1>3, <2>1 DEF TypeOK
  <2>3. Located' BY <1>1, <2>1 DEF Located, Is, Place
  <2>4. LockNamesHolder'
    <3>1. \A d \in Daemons : phase[d] \in Owning => owner'[home[d]] = d
      BY <1>1, <1>3, PartiesAssumption DEF LockNamesHolder, TypeOK, Located, Owning
    <3>2. \A u \in Starters : Is(u, "holding")' => owner'[Place(u)'] = u
      BY <1>1, <1>3, <2>1, PartiesAssumption DEF LockNamesHolder, TypeOK, Is, Place
    <3> QED BY <3>1, <3>2 DEF LockNamesHolder
  <2>5. LeaseNamesWriter' /\ SocketIsOwn' /\ RecordIsOwn' /\ StopEndsTheOneMeant'
    BY DEF LeaseNamesWriter, SocketIsOwn, RecordIsOwn, StopEndsTheOneMeant, HasStateOpen, At
  <2> QED BY <2>2, <2>3, <2>4, <2>5
<1> QED BY <1>2, <1>3 DEF LookForOwner

(* The lock a client lets go is its own.                                   *)
LEMMA LetGoKeeps ==
    ASSUME OwnershipInv, NEW s \in Starters, LetGo(s)
    PROVE  OwnershipInv'
<1> USE DEF OwnershipInv, LetGo, disk
<1>1. TypeOK /\ Place(s) \in Roots /\ owner[Place(s)] = s
  BY DEF Located, Is, LockNamesHolder
<1>2. /\ starter' \in [Starters -> Calls]
      /\ \A u \in Starters : u # s => starter'[u] = starter[u]
      /\ starter'[s].at = "spawning" /\ starter'[s].root = starter[s].root
  BY <1>1, CallGoesOn DEF Steps
<1>3. TypeOK' BY <1>2 DEF TypeOK
<1>4. Located' BY <1>1, <1>2 DEF Located, Is, Place
<1>5. LockNamesHolder'
  <2>1. \A d \in Daemons : phase[d] \in Owning => owner'[home[d]] = d
    BY <1>1, PartiesAssumption DEF LockNamesHolder, TypeOK, Located, Owning
  <2>2. \A u \in Starters : Is(u, "holding")' => owner'[Place(u)'] = u
    BY <1>1, <1>2 DEF LockNamesHolder, TypeOK, Is, Place
  <2> QED BY <2>1, <2>2 DEF LockNamesHolder
<1>6. LeaseNamesWriter' /\ SocketIsOwn' /\ RecordIsOwn' /\ StopEndsTheOneMeant'
  BY DEF LeaseNamesWriter, SocketIsOwn, RecordIsOwn, StopEndsTheOneMeant, HasStateOpen, At
<1> QED BY <1>3, <1>4, <1>5, <1>6

(* A spawned daemon starts with nothing, in the root of its client.        *)
LEMMA SpawnKeeps ==
    ASSUME OwnershipInv, NEW s \in Starters, NEW d \in Daemons, Spawn(s, d)
    PROVE  OwnershipInv'
<1> USE DEF OwnershipInv, Spawn, disk, At, Goto
<1> DEFINE spawned == [starter[s] EXCEPT !.at = "watching", !.child = d]
<1>1. starter[s] \in Calls /\ Place(s) \in Roots BY DEF TypeOK, Located, Is
<1>2. spawned \in Calls /\ spawned.at = "watching" /\ spawned.root = starter[s].root
  BY <1>1 DEF Calls, Steps
<1>3. starter' = [starter EXCEPT ![s] = spawned] BY <1>1 DEF Calls
<1> HIDE DEF spawned
<1>4. /\ starter' \in [Starters -> Calls]
      /\ \A u \in Starters : u # s => starter'[u] = starter[u]
      /\ starter'[s] = spawned
  BY <1>2, <1>3 DEF TypeOK
<1>5. TypeOK' BY <1>1, <1>4 DEF TypeOK, Phases
<1>6. Located' BY <1>1, <1>2, <1>4 DEF Located, Is, Place, TypeOK
<1>7. LockNamesHolder' BY <1>2, <1>4 DEF LockNamesHolder, Owning, Is, Place, TypeOK
<1>8. LeaseNamesWriter' /\ SocketIsOwn' /\ RecordIsOwn' /\ StopEndsTheOneMeant'
  BY DEF LeaseNamesWriter, SocketIsOwn, RecordIsOwn, StopEndsTheOneMeant, HasStateOpen, TypeOK
<1> QED BY <1>5, <1>6, <1>7, <1>8

(* A client that dies frees what it holds, and no daemon's lock.           *)
LEMMA KillStarterKeeps ==
    ASSUME OwnershipInv, NEW s \in Starters, KillStarter(s)
    PROVE  OwnershipInv'
<1> USE DEF OwnershipInv, KillStarter, disk
<1>1. TypeOK /\ Place(s) \in Roots BY DEF Located, Is
<1>2. /\ starter' \in [Starters -> Calls]
      /\ \A u \in Starters : u # s => starter'[u] = starter[u]
      /\ starter'[s].at = "done" /\ starter'[s].root = starter[s].root
      /\ election' \in [Roots -> Starters \cup {None}]
  BY <1>1, CallFails
<1>3. TypeOK' BY <1>2 DEF TypeOK
<1>4. Located' BY <1>1, <1>2 DEF Located, Is, Place
<1>5. LockNamesHolder'
  <2>1. \A d \in Daemons : phase[d] \in Owning => owner'[home[d]] = d
    BY PartiesAssumption DEF LockNamesHolder, TypeOK, Located, Owning
  <2>2. \A u \in Starters : Is(u, "holding")' => owner'[Place(u)'] = u
    BY <1>2 DEF LockNamesHolder, Located, Is, Place
  <2> QED BY <2>1, <2>2 DEF LockNamesHolder
<1>6. LeaseNamesWriter' /\ SocketIsOwn' /\ RecordIsOwn' /\ StopEndsTheOneMeant'
  BY DEF LeaseNamesWriter, SocketIsOwn, RecordIsOwn, StopEndsTheOneMeant, HasStateOpen, At
<1> QED BY <1>3, <1>4, <1>5, <1>6

-----------------------------------------------------------------------------
(* Every step preserves the invariant.                                     *)
LEMMA OwnershipStep == OwnershipInv /\ [Next]_vars => OwnershipInv'
<1> SUFFICES ASSUME OwnershipInv, [Next]_vars PROVE OwnershipInv' OBVIOUS
<1>1. CASE UNCHANGED vars
  BY <1>1 DEF vars, daemons, clients, disk, OwnershipInv, TypeOK, Located, LockNamesHolder,
              LeaseNamesWriter, SocketIsOwn, RecordIsOwn, StopEndsTheOneMeant, HasStateOpen,
              At, Is, Place
<1>2. ASSUME NEW d \in Daemons,
             \/ \E r \in Roots : Launch(d, r)
             \/ Acquire(d) \/ Recover(d) \/ Refuse(d) \/ Establish(d)
             \/ RefuseState(d) \/ Bind(d) \/ PublishReadiness(d) \/ PublishFails(d)
      PROVE  OwnershipInv'
  BY <1>2, LaunchKeeps, AcquireKeeps, RecoverKeeps, RefuseKeeps, EstablishKeeps,
     RefuseStateKeeps, BindKeeps, PublishReadinessKeeps, PublishFailsKeeps
<1>3. ASSUME NEW d \in Daemons,
             \/ \E r \in Roots : StopArrives(d, r)
             \/ AcceptFails(d) \/ Withdraw(d) \/ RemoveEndpoint(d)
             \/ ReleaseLease(d) \/ ReleaseOwner(d) \/ DropListener(d) \/ Kill(d)
      PROVE  OwnershipInv'
  BY <1>3, StopArrivesKeeps, AcceptFailsKeeps, WithdrawKeeps, RemoveEndpointKeeps,
     ReleaseLeaseKeeps, ReleaseOwnerKeeps, DropListenerKeeps, KillKeeps
<1>4. ASSUME NEW r \in Roots, AskNonce(r) PROVE OwnershipInv' BY <1>4, AskNonceKeeps
<1>5. ASSUME NEW s \in Starters,
             \/ \E r \in Roots : Begin(s, r)
             \/ ProbeAnswered(s) \/ ProbeAbsent(s) \/ ProbeFails(s)
             \/ Elect(s) \/ NotElected(s) \/ LookForOwner(s) \/ LetGo(s)
             \/ \E d \in Daemons : Spawn(s, d)
             \/ SpawnFails(s) \/ Watch(s) \/ KillStarter(s)
      PROVE  OwnershipInv'
  BY <1>5, BeginKeeps, ProbeAnsweredKeeps, StarterKeeps, LookForOwnerKeeps, LetGoKeeps,
     SpawnKeeps, KillStarterKeeps
<1> QED BY <1>1, <1>2, <1>3, <1>4, <1>5 DEF Next

(* The invariant holds in every reachable state.                           *)
LEMMA OwnershipInvariant == Spec => []OwnershipInv
BY OwnershipInit, OwnershipStep, PTL DEF Spec

-----------------------------------------------------------------------------
(* Every value the locks, the files and the calls can take.                *)
THEOREM OwnershipTypeCorrect == Spec => []TypeOK
<1>1. OwnershipInv => TypeOK BY DEF OwnershipInv
<1> QED BY <1>1, OwnershipInvariant, PTL

(* However many roots a target is started from, the state lease admits one *)
(* daemon at a time to its database (establish_durable, locks.rs).         *)
THEOREM OwnershipOneWriter == Spec => []OneWriter
<1>1. OwnershipInv => OneWriter BY DEF OwnershipInv, LeaseNamesWriter, OneWriter
<1> QED BY <1>1, OwnershipInvariant, PTL

(* A serving daemon keeps its socket and its readiness record against      *)
(* predecessors that are still leaving (LocalListener::remove,             *)
(* readiness::remove_matching).                                            *)
THEOREM OwnershipServingIsReachable == Spec => []ServingIsReachable
<1>1. OwnershipInv => ServingIsReachable
  BY DEF OwnershipInv, SocketIsOwn, RecordIsOwn, ServingIsReachable, At
<1> QED BY <1>1, OwnershipInvariant, PTL

(* A daemon served to its end only when a client was given its own nonce   *)
(* (dispatch_stop).                                                        *)
THEOREM OwnershipStopEndsTheOneMeant == Spec => []StopEndsTheOneMeant
<1>1. OwnershipInv => StopEndsTheOneMeant BY DEF OwnershipInv
<1> QED BY <1>1, OwnershipInvariant, PTL
=============================================================================
