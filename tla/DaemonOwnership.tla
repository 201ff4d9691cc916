--------------------------- MODULE DaemonOwnership ---------------------------
(***************************************************************************)
(* Who may serve a runtime namespace and who may write its state           *)
(* (ownership.rs, platform_runtime/locks.rs, platform_runtime/readiness.rs,*)
(* local_server.rs, the daemon's own start and stop in daemon_entry.rs),   *)
(* and the clients that start one (explicit_daemon_start.rs) or stop one.  *)
(*                                                                         *)
(* One target has a namespace under every runtime root and one state       *)
(* directory shared by all of them.  A daemon holds its root's owner lock  *)
(* for as long as it lives and the state lease while its database is open; *)
(* both are operating-system locks, which the death of a process frees,    *)
(* while the endpoint and the readiness record it wrote stay on disk.  A   *)
(* process draws one nonce and never another, so the process stands for    *)
(* it.                                                                     *)
(***************************************************************************)
EXTENDS Naturals, FiniteSets

CONSTANTS
    Daemons,   \* daemon processes, each of which lives once
    Starters,  \* clients inside explicit_start
    Roots,     \* runtime roots of the one target
    None

ASSUME PartiesAssumption ==
    /\ Daemons \cap Starters = {}
    /\ None \notin Daemons \cup Starters \cup Roots

VARIABLES
    phase,      \* how far each daemon has come
    home,       \* the runtime root a daemon was launched in
    ended,      \* how a daemon ended: its exit status
    owner,      \* who holds the owner lock of a root
    lease,      \* who holds the state lease
    record,     \* the nonce in a root's readiness record
    endpoint,   \* the listener whose socket is at a root's endpoint path
    listening,  \* daemons whose listener is open
    election,   \* who holds the startup-election lock of a root
    starter,    \* where each starting client is
    asked       \* nonces handed to clients that mean to stop their owner

disk    == <<record, endpoint>>
daemons == <<phase, home, ended, owner, lease, disk, listening>>
clients == <<election, starter, asked>>
vars    == <<daemons, clients>>

-----------------------------------------------------------------------------
Phases == {"unborn", "launched", "locked", "owner", "leased", "bound",
           "serving", "stopping", "withdrawn", "failing", "unleasing",
           "unowning", "dropping", "gone"}
Ends   == {"none", "already_owned", "refused", "served", "killed"}
Steps  == {"idle", "probing", "electing", "rechecking", "awaiting",
           "launching", "holding", "spawning", "watching", "done"}
Calls  == [at : Steps, root : Roots \cup {None}, child : Daemons \cup {None},
           nonce : Daemons \cup {None},
           outcome : {"none", "joined", "started", "failed"}]

TypeOK ==
    /\ phase \in [Daemons -> Phases]
    /\ home \in [Daemons -> Roots \cup {None}]
    /\ ended \in [Daemons -> Ends]
    /\ owner \in [Roots -> Daemons \cup Starters \cup {None}]
    /\ lease \in Daemons \cup {None}
    /\ record \in [Roots -> Daemons \cup {None}]
    /\ endpoint \in [Roots -> Daemons \cup {None}]
    /\ listening \subseteq Daemons
    /\ election \in [Roots -> Starters \cup {None}]
    /\ starter \in [Starters -> Calls]
    /\ asked \subseteq Daemons

Init ==
    /\ phase = [d \in Daemons |-> "unborn"]
    /\ home = [d \in Daemons |-> None]
    /\ ended = [d \in Daemons |-> "none"]
    /\ owner = [r \in Roots |-> None] /\ lease = None
    /\ record = [r \in Roots |-> None] /\ endpoint = [r \in Roots |-> None]
    /\ listening = {} /\ asked = {}
    /\ election = [r \in Roots |-> None]
    /\ starter = [s \in Starters |->
                    [at |-> "idle", root |-> None, child |-> None,
                     nonce |-> None, outcome |-> "none"]]

-----------------------------------------------------------------------------
(* A daemon comes up. *)

At(d, p)   == phase[d] = p
Goto(d, p) == phase' = [phase EXCEPT ![d] = p]
End(d, e)  == ended' = [ended EXCEPT ![d] = e]

(* The command is also run by hand, or by a service manager.               *)
Launch(d, r) ==
    /\ At(d, "unborn") /\ Goto(d, "launched")
    /\ home' = [home EXCEPT ![d] = r]
    /\ UNCHANGED <<ended, owner, lease, disk, listening, clients>>

(* DaemonOwnership::acquire tries the owner lock without waiting.          *)
Acquire(d) ==
    /\ At(d, "launched")
    /\ IF owner[home[d]] = None
         THEN /\ owner' = [owner EXCEPT ![home[d]] = d]
              /\ Goto(d, "locked") /\ UNCHANGED ended
         ELSE /\ Goto(d, "gone") /\ End(d, "already_owned")
              /\ UNCHANGED owner
    /\ UNCHANGED <<home, lease, disk, listening, clients>>

(* Under the lock it removes the record a departed owner left.             *)
Recover(d) ==
    /\ At(d, "locked") /\ Goto(d, "owner")
    /\ record' = [record EXCEPT ![home[d]] = None]
    /\ UNCHANGED <<home, ended, owner, lease, endpoint, listening, clients>>

(* A start refused by its configuration, before any state is opened.       *)
Refuse(d) ==
    /\ At(d, "owner") /\ Goto(d, "unowning") /\ End(d, "refused")
    /\ UNCHANGED <<home, owner, lease, disk, listening, clients>>

\* Slip: the owner lock is taken for the right to write the database.
EstablishesUnderOwnerLock(d) ==
    /\ At(d, "owner") /\ Goto(d, "leased") /\ lease' = d
    /\ UNCHANGED <<home, ended, owner, disk, listening, clients>>

(* establish_durable takes the state lease before it opens anything.       *)
Establish(d) ==
    /\ At(d, "owner")
    /\ IF lease = None
         THEN lease' = d /\ Goto(d, "leased") /\ UNCHANGED ended
         ELSE Goto(d, "unowning") /\ End(d, "refused") /\ UNCHANGED lease
    /\ UNCHANGED <<home, owner, disk, listening, clients>>

(* The durable state is refused: everything is dropped, the lease first.   *)
RefuseState(d) ==
    /\ At(d, "leased") /\ Goto(d, "unleasing") /\ End(d, "refused")
    /\ UNCHANGED <<home, owner, lease, disk, listening, clients>>

(* LocalListener::bind replaces whatever socket is at the path.            *)
Bind(d) ==
    /\ At(d, "leased") /\ Goto(d, "bound")
    /\ endpoint' = [endpoint EXCEPT ![home[d]] = d]
    /\ listening' = listening \cup {d}
    /\ UNCHANGED <<home, ended, owner, lease, record, clients>>

PublishReadiness(d) ==
    /\ At(d, "bound") /\ Goto(d, "serving")
    /\ record' = [record EXCEPT ![home[d]] = d]
    /\ UNCHANGED <<home, ended, owner, lease, endpoint, listening, clients>>

PublishFails(d) ==
    /\ At(d, "bound") /\ Goto(d, "failing") /\ End(d, "refused")
    /\ UNCHANGED <<home, owner, lease, disk, listening, clients>>

-----------------------------------------------------------------------------
(* A daemon goes. *)

(* A client that means to stop a daemon first asks it for its nonce.       *)
AskNonce(r) ==
    /\ \E d \in listening : endpoint[r] = d /\ At(d, "serving")
    /\ asked' = asked \cup {endpoint[r]}
    /\ UNCHANGED <<daemons, election, starter>>

Stop(d, e) ==
    /\ At(d, "serving") /\ Goto(d, "stopping") /\ End(d, e)
    /\ UNCHANGED <<home, owner, lease, disk, listening, clients>>

\* Slip: whoever answers at the endpoint is the one to stop.
StopsWhoAnswers(n, r) ==
    /\ n \in asked
    /\ \E d \in listening : endpoint[r] = d /\ Stop(d, "served")

(* dispatch_stop: the request reaches whoever listens there by now, and    *)
(* any nonce but that daemon's own is refused.                             *)
StopArrives(n, r) ==
    /\ n \in asked /\ n \in listening
    /\ endpoint[r] = n
    /\ Stop(n, "served")

AcceptFails(d) == Stop(d, "refused")

(* readiness::remove_matching takes only a record with this nonce.         *)
Withdraw(d) ==
    /\ At(d, "stopping") /\ Goto(d, "withdrawn")
    /\ record' = [record EXCEPT ![home[d]] = IF @ = d THEN None ELSE @]
    /\ UNCHANGED <<home, ended, owner, lease, endpoint, listening, clients>>

\* Slip: whatever socket is at the path goes.
RemovesAnySocket(d) == endpoint' = [endpoint EXCEPT ![home[d]] = None]

(* LocalListener::remove unlinks only the socket it bound.                 *)
RemoveSocket(d) ==
    endpoint' = [endpoint EXCEPT ![home[d]] = IF @ = d THEN None ELSE @]

RemoveEndpoint(d) ==
    /\ At(d, "withdrawn") /\ Goto(d, "unleasing")
    /\ RemoveSocket(d)
    /\ UNCHANGED <<home, ended, owner, lease, record, listening, clients>>

(* The database and the lease go before the owner lock.                    *)
ReleaseLease(d) ==
    /\ At(d, "unleasing") /\ Goto(d, "unowning")
    /\ lease' = None
    /\ UNCHANGED <<home, ended, owner, disk, listening, clients>>

ReleaseOwner(d) ==
    /\ At(d, "unowning")
    /\ Goto(d, IF d \in listening THEN "dropping" ELSE "gone")
    /\ owner' = [owner EXCEPT ![home[d]] = None]
    /\ UNCHANGED <<home, ended, lease, disk, listening, clients>>

(* A listener's drop removes the socket once more: before the service is   *)
(* dropped when publication failed, after it when the daemon has served.   *)
DropListener(d) ==
    /\ \/ At(d, "failing") /\ Goto(d, "unleasing")
       \/ At(d, "dropping") /\ Goto(d, "gone")
    /\ RemoveSocket(d)
    /\ listening' = listening \ {d}
    /\ UNCHANGED <<home, ended, owner, lease, record, clients>>

(* A process dies at any point; only its locks go with it.                 *)
Kill(d) ==
    /\ phase[d] \notin {"unborn", "gone"}
    /\ Goto(d, "gone") /\ End(d, "killed")
    /\ owner' = [r \in Roots |-> IF owner[r] = d THEN None ELSE owner[r]]
    /\ lease' = IF lease = d THEN None ELSE lease
    /\ listening' = listening \ {d}
    /\ UNCHANGED <<home, disk, clients>>

-----------------------------------------------------------------------------
(* A client starts a daemon, or joins the one that is there. *)

Is(s, a)  == starter[s].at = a
Go(s, a)  == starter' = [starter EXCEPT ![s].at = a]
Place(s)  == starter[s].root

Dismiss(s) ==
    election' = [r \in Roots |-> IF election[r] = s THEN None ELSE election[r]]

Fails(s) ==
    /\ starter' = [starter EXCEPT ![s].at = "done", ![s].child = None,
                                  ![s].outcome = "failed"]
    /\ Dismiss(s)

Begin(s, r) ==
    /\ Is(s, "idle")
    /\ starter' = [starter EXCEPT ![s].at = "probing", ![s].root = r]
    /\ UNCHANGED <<daemons, election, asked>>

(* Where explicit_start goes when nothing answers its probe.               *)
Silent == [probing |-> "electing", rechecking |-> "awaiting",
           awaiting |-> "launching"]

Live(r) == {d \in listening : endpoint[r] = d}

ProbeAnswered(s) ==
    /\ starter[s].at \in DOMAIN Silent
    /\ \E d \in Live(Place(s)) :
         /\ At(d, "serving")
         /\ starter' = [starter EXCEPT ![s].at = "done", ![s].child = None,
                          ![s].nonce = d,
                          ![s].outcome = IF Is(s, "awaiting") THEN "started"
                                                              ELSE "joined"]
    /\ Dismiss(s)
    /\ UNCHANGED <<daemons, asked>>

(* No socket, a dead process's socket, or a connection closed unanswered.  *)
ProbeAbsent(s) ==
    /\ starter[s].at \in DOMAIN Silent
    /\ \A d \in Live(Place(s)) : phase[d] \notin {"bound", "serving"}
    /\ Go(s, Silent[starter[s].at])
    /\ UNCHANGED <<daemons, election, asked>>

(* A listener that takes the connection and breaks it ends the start.      *)
ProbeFails(s) ==
    /\ starter[s].at \in DOMAIN Silent
    /\ Live(Place(s)) # {}
    /\ Fails(s)
    /\ UNCHANGED <<daemons, asked>>

Elect(s) ==
    /\ Is(s, "electing") /\ election[Place(s)] = None
    /\ election' = [election EXCEPT ![Place(s)] = s]
    /\ Go(s, "rechecking")
    /\ UNCHANGED <<daemons, asked>>

(* Another client is elected: try again until the deadline.                *)
NotElected(s) ==
    /\ Is(s, "electing") /\ election[Place(s)] # None
    /\ \/ Go(s, "probing") /\ UNCHANGED election
       \/ Fails(s)
    /\ UNCHANGED <<daemons, asked>>

(* owner_is_absent takes the owner lock, when it is free, and lets it go.  *)
LookForOwner(s) ==
    /\ Is(s, "launching")
    /\ IF starter[s].child = None /\ owner[Place(s)] = None
         THEN owner' = [owner EXCEPT ![Place(s)] = s] /\ Go(s, "holding")
         ELSE Go(s, "watching") /\ UNCHANGED owner
    /\ UNCHANGED <<phase, home, ended, lease, disk, listening, election, asked>>

LetGo(s) ==
    /\ Is(s, "holding") /\ Go(s, "spawning")
    /\ owner' = [owner EXCEPT ![Place(s)] = None]
    /\ UNCHANGED <<phase, home, ended, lease, disk, listening, election, asked>>

Spawn(s, d) ==
    /\ Is(s, "spawning") /\ At(d, "unborn")
    /\ Goto(d, "launched") /\ home' = [home EXCEPT ![d] = Place(s)]
    /\ starter' = [starter EXCEPT ![s].at = "watching", ![s].child = d]
    /\ UNCHANGED <<ended, owner, lease, disk, listening, election, asked>>

SpawnFails(s) ==
    /\ Is(s, "spawning") /\ Fails(s)
    /\ UNCHANGED <<daemons, asked>>

(* departure: a child that found the namespace owned has only lost a race. *)
Departed(s) ==
    /\ starter[s].child # None
    /\ ended[starter[s].child] \notin {"none", "already_owned"}
    /\ At(starter[s].child, "gone")

Watch(s) ==
    /\ Is(s, "watching")
    /\ \/ ~Departed(s) /\ Go(s, "awaiting") /\ UNCHANGED election
       \/ Fails(s)
    /\ UNCHANGED <<daemons, asked>>

KillStarter(s) ==
    /\ starter[s].at \notin {"idle", "done"}
    /\ Fails(s)
    /\ owner' = [r \in Roots |-> IF owner[r] = s THEN None ELSE owner[r]]
    /\ UNCHANGED <<phase, home, ended, lease, disk, listening, asked>>

-----------------------------------------------------------------------------
Next ==
    \/ \E d \in Daemons :
         \/ \E r \in Roots : Launch(d, r)
         \/ Acquire(d) \/ Recover(d) \/ Refuse(d) \/ Establish(d)
         \/ RefuseState(d) \/ Bind(d) \/ PublishReadiness(d) \/ PublishFails(d)
         \/ \E r \in Roots : StopArrives(d, r)
         \/ AcceptFails(d) \/ Withdraw(d) \/ RemoveEndpoint(d)
         \/ ReleaseLease(d) \/ ReleaseOwner(d) \/ DropListener(d) \/ Kill(d)
    \/ \E r \in Roots : AskNonce(r)
    \/ \E s \in Starters :
         \/ \E r \in Roots : Begin(s, r)
         \/ ProbeAnswered(s) \/ ProbeAbsent(s) \/ ProbeFails(s)
         \/ Elect(s) \/ NotElected(s) \/ LookForOwner(s) \/ LetGo(s)
         \/ \E d \in Daemons : Spawn(s, d)
         \/ SpawnFails(s) \/ Watch(s) \/ KillStarter(s)

Spec == Init /\ [][Next]_vars

-----------------------------------------------------------------------------
(* Properties. *)

HasStateOpen(d) == phase[d] \in {"leased", "bound", "serving", "stopping",
                                 "withdrawn", "failing", "unleasing"}

(* Two daemons never have the target's database open at once, however many *)
(* runtime roots they were started from and however their predecessors     *)
(* went: the state lease is taken before the database is opened and        *)
(* released after it is closed.                                            *)
OneWriter ==
    \A d, e \in Daemons : HasStateOpen(d) /\ HasStateOpen(e) => d = e

(* A daemon that serves can be found: the socket at its endpoint is its    *)
(* own and the readiness record carries its nonce, although a predecessor  *)
(* may still be dropping its listener after it let the owner lock go.      *)
ServingIsReachable ==
    \A d \in Daemons : At(d, "serving") =>
        endpoint[home[d]] = d /\ record[home[d]] = d

(* A stop ends only the instance whose nonce the client was given: one     *)
(* that replaced it meanwhile goes on serving.                             *)
StopEndsTheOneMeant == \A d \in Daemons : ended[d] = "served" => d \in asked

(* "Another live daemon already owned the namespace" (daemon_entry.rs): a  *)
(* process that leaves because its namespace is owned leaves it to a       *)
(* daemon.                                                                 *)
AlreadyOwnedMeansADaemon ==
    [][\A d \in Daemons :
         ended[d] = "none" /\ ended'[d] = "already_owned"
           => owner[home[d]] \in Daemons]_vars
=============================================================================
