---------------------------- MODULE OperationWait ----------------------------
(***************************************************************************)
(* Connections that wait for one operation to move (operation_wait.rs,     *)
(* operation_wait/runtime.rs), the writers that move its row, and the      *)
(* scheduler that tells the observers (service/scheduler.rs).              *)
(*                                                                         *)
(* A wait reads the row and attaches under the runtime lock, then loops:   *)
(* it enables its notification, looks at its queue, and sleeps when the    *)
(* queue is empty.  The first update it takes answers the request and ends *)
(* the wait.  The row is also written without that lock, by an execution   *)
(* on connections of its own, so a write and its publication are two       *)
(* steps; the broadcast that wakes the sleepers is a third.                *)
(***************************************************************************)
EXTENDS Naturals, Sequences, FiniteSets

CONSTANTS
    Waiters,       \* connections that may wait on the operation
    Capacity,      \* the smaller of connection_capacity, waiters_per_operation
    QueueUpdates,  \* maximum_waiter_queue_updates
    MaxRowRevision \* bound: the row's largest revision

ASSUME BoundAssumption ==
    /\ Capacity \in Nat /\ QueueUpdates \in Nat \ {0}
    /\ MaxRowRevision \in Nat \ {0}

VARIABLES
    row,        \* the persisted revision and what it says
    due,        \* an execution has finished and will publish the row
    published,  \* the registry's published_revision; 0 without a registry
    unnotified, \* an update is queued and notify_waiters is still to come
    pc,         \* where each connection is in its wait
    queue,      \* Waiter.queued, oldest first
    delivered,  \* Waiter.delivered_revision: what it said it had seen
    woken,      \* the enabled notification has fired
    stopping    \* the runtime's cancellation

waitVars == <<row, due, published, unnotified, pc, queue, delivered, woken,
              stopping>>
sleepers == <<pc, queue, delivered, woken>>

-----------------------------------------------------------------------------
Kinds   == {"progress", "recovery", "terminal"}
Updates == [revision : 1 .. MaxRowRevision, kind : Kinds]

WaitTypeOK ==
    /\ row \in Updates
    /\ due \in BOOLEAN /\ unnotified \in BOOLEAN /\ stopping \in BOOLEAN
    /\ published \in 0 .. MaxRowRevision
    /\ pc \in [Waiters -> {"away", "poll", "enabled", "looked",
                         "asleep"}]
    /\ queue \in [Waiters -> Seq(Updates)]
    /\ \A w \in Waiters : Len(queue[w]) <= QueueUpdates
    /\ delivered \in [Waiters -> 0 .. MaxRowRevision]
    /\ woken \in [Waiters -> BOOLEAN]

Attached == {w \in Waiters : pc[w] # "away"}

WaitInit ==
    /\ row = [revision |-> 1, kind |-> "progress"]
    /\ due = FALSE /\ published = 0 /\ unnotified = FALSE /\ stopping = FALSE
    /\ pc = [w \in Waiters |-> "away"]
    /\ queue = [w \in Waiters |-> <<>>]
    /\ delivered = [w \in Waiters |-> 0]
    /\ woken = [w \in Waiters |-> FALSE]

-----------------------------------------------------------------------------
(* The writers. *)

Move(kind) ==
    /\ row.kind # "terminal" /\ row.revision < MaxRowRevision
    /\ row' = [revision |-> row.revision + 1, kind |-> kind]

(* An execution writes the row; when it has finished, or when the queue is *)
(* healed, the scheduler publishes whatever the row then holds.            *)
ExecutionWrites(kind) ==
    /\ Move(kind)
    /\ due' = TRUE
    /\ UNCHANGED <<published, unnotified, sleepers, stopping>>

(* A resume and the charge of a detached attempt are not published.        *)
(* record_detached_attempt may end the row.                                *)
QuietWrite(kind) ==
    /\ Move(kind)
    /\ UNCHANGED <<due, published, unnotified, sleepers, stopping>>

-----------------------------------------------------------------------------
(* Publication. *)

FirstProgress(s) ==
    CHOOSE i \in 1 .. Len(s) :
        s[i].kind = "progress" /\ \A j \in 1 .. i - 1 : s[j].kind # "progress"
Without(s, i) == SubSeq(s, 1, i - 1) \o SubSeq(s, i + 1, Len(s))

\* Slip: a full queue keeps what it has.
EnqueuedIfRoom(s, seen, update) ==
    IF Len(s) < QueueUpdates THEN Append(s, update) ELSE s

\* Slip: an update queued at attachment is not looked at.
EnqueuedPastDelivered(s, seen, update) ==
    IF update.revision <= seen \/ Len(s) = QueueUpdates THEN s
    ELSE Append(s, update)

(* enqueue: nothing older than what the waiter has; in a full queue the    *)
(* oldest progress note gives way, else a critical update replaces the     *)
(* oldest one, else the note is dropped.                                   *)
Enqueued(s, seen, update) ==
    LET newest == IF s = <<>> THEN seen ELSE s[Len(s)].revision
    IN  IF update.revision <= newest THEN s
        ELSE IF Len(s) < QueueUpdates THEN Append(s, update)
        ELSE IF \E i \in 1 .. Len(s) : s[i].kind = "progress"
             THEN Append(Without(s, FirstProgress(s)), update)
        ELSE IF update.kind # "progress" THEN Append(Tail(s), update)
        ELSE s

(* publish_settlement: the row as it is now, to everybody attached, once   *)
(* per revision.                                                           *)
Publish ==
    /\ due
    /\ due' = FALSE
    /\ IF Attached # {} /\ row.revision > published
       THEN /\ published' = row.revision
            /\ queue' = [w \in Waiters |->
                   IF w \in Attached THEN Enqueued(queue[w], delivered[w], row)
                                     ELSE queue[w]]
       ELSE UNCHANGED <<published, queue>>
    /\ unnotified' = TRUE
    /\ UNCHANGED <<row, pc, delivered, woken, stopping>>

\* Slip: only connections already asleep are woken.
NotifiesSleepers ==
    /\ unnotified
    /\ unnotified' = FALSE
    /\ woken' = [w \in Waiters |-> woken[w] \/ pc[w] = "asleep"]
    /\ UNCHANGED <<row, due, published, pc, queue, delivered, stopping>>

(* The notification was enabled before the queue was looked at. *)
Listening(w) == pc[w] \in {"enabled", "looked", "asleep"}

(* notify_waiters: every notification enabled by now fires. *)
Notify ==
    /\ unnotified
    /\ unnotified' = FALSE
    /\ woken' = [w \in Waiters |-> woken[w] \/ Listening(w)]
    /\ UNCHANGED <<row, due, published, pc, queue, delivered, stopping>>

-----------------------------------------------------------------------------
(* One connection's wait. *)

(* attach: a waiter behind the row is given the row at once.  A registry   *)
(* is made for the first waiter, at the row's revision.                    *)
Attach(w, seen) ==
    /\ pc[w] = "away" /\ ~stopping
    /\ seen <= row.revision
    /\ Cardinality(Attached) < Capacity
    /\ pc' = [pc EXCEPT ![w] = "poll"]
    /\ queue' = [queue EXCEPT ![w] = IF row.revision > seen THEN <<row>> ELSE <<>>]
    /\ delivered' = [delivered EXCEPT ![w] = seen]
    /\ published' = IF Attached = {} THEN row.revision ELSE published
    /\ UNCHANGED <<row, due, unnotified, woken, stopping>>

(* detach: the slot and the queue are given back, with the last waiter the *)
(* registry.                                                               *)
Leave(w) ==
    /\ pc' = [pc EXCEPT ![w] = "away"]
    /\ queue' = [queue EXCEPT ![w] = <<>>]
    /\ delivered' = [delivered EXCEPT ![w] = 0]
    /\ woken' = [woken EXCEPT ![w] = FALSE]
    /\ published' = IF Attached = {w} THEN 0 ELSE published

(* RuntimeWait.finished: it attached knowing the ending. *)
Finished(w) == row.kind = "terminal" /\ delivered[w] = row.revision

Enable(w) ==
    /\ pc[w] = "poll" /\ ~Finished(w) /\ ~stopping
    /\ woken' = [woken EXCEPT ![w] = FALSE]
    /\ pc' = [pc EXCEPT ![w] = "enabled"]
    /\ UNCHANGED <<row, due, published, unnotified, queue, delivered, stopping>>

(* The update taken is the answer; the handle is dropped with it. *)
Take(w) ==
    /\ pc[w] = "enabled" /\ queue[w] # <<>>
    /\ Leave(w)
    /\ UNCHANGED <<row, due, unnotified, stopping>>

Look(w) ==
    /\ pc[w] = "enabled" /\ queue[w] = <<>>
    /\ pc' = [pc EXCEPT ![w] = "looked"]
    /\ UNCHANGED <<row, due, published, unnotified, queue, delivered, woken,
                   stopping>>

Sleep(w) ==
    /\ pc[w] = "looked"
    /\ pc' = [pc EXCEPT ![w] = "asleep"]
    /\ UNCHANGED <<row, due, published, unnotified, queue, delivered, woken,
                   stopping>>

Wake(w) ==
    /\ pc[w] = "asleep" /\ woken[w]
    /\ pc' = [pc EXCEPT ![w] = "poll"]
    /\ UNCHANGED <<row, due, published, unnotified, queue, delivered, woken,
                   stopping>>

(* Shutdown, or an ending already known, closes the wait without answer. *)
Close(w) ==
    /\ \/ pc[w] = "poll" /\ (Finished(w) \/ stopping)
       \/ pc[w] = "asleep" /\ stopping
    /\ Leave(w)
    /\ UNCHANGED <<row, due, unnotified, stopping>>

(* The client goes away. *)
Disconnect(w) ==
    /\ pc[w] # "away"
    /\ Leave(w)
    /\ UNCHANGED <<row, due, unnotified, stopping>>

Stop ==
    /\ ~stopping
    /\ stopping' = TRUE
    /\ UNCHANGED <<row, due, published, unnotified, sleepers>>

-----------------------------------------------------------------------------
Poll(w) == Enable(w) \/ Take(w) \/ Look(w) \/ Sleep(w) \/ Wake(w) \/ Close(w)

WaitNext ==
    \/ \E kind \in Kinds : ExecutionWrites(kind) \/ QuietWrite(kind)
    \/ Publish \/ Notify \/ Stop
    \/ \E w \in Waiters :
          \/ \E seen \in 0 .. MaxRowRevision : Attach(w, seen)
          \/ Poll(w) \/ Disconnect(w)

(* Tasks that can run are polled; the scheduler finishes a publication it  *)
(* has begun.                                                              *)
Fairness ==
    /\ WF_waitVars(Publish) /\ WF_waitVars(Notify)
    /\ \A w \in Waiters : WF_waitVars(Poll(w))

WaitSpec == WaitInit /\ [][WaitNext]_waitVars /\ Fairness

-----------------------------------------------------------------------------
(* What a waiter is given is newer than what it had seen, whether it comes *)
(* from the row at attachment or from a later publication: revisions in    *)
(* its queue are strictly increasing and above the one delivered.          *)
UpdatesAreNews ==
    \A w \in Attached :
        /\ \A i \in 1 .. Len(queue[w]) : queue[w][i].revision > delivered[w]
        /\ \A i, j \in 1 .. Len(queue[w]) :
              i < j => queue[w][i].revision < queue[w][j].revision

(* An ending the registry has broadcast is never lost to the bound of a    *)
(* queue: it is still queued for every waiter that has not been given it.  *)
EndingSurvivesPressure ==
    row.kind = "terminal" /\ published = row.revision =>
        \A w \in Attached :
            delivered[w] < row.revision =>
                queue[w] # <<>> /\ queue[w][Len(queue[w])] = row

(* No wake-up is lost between looking at the queue and falling asleep:     *)
(* what is queued is taken, or the waiter leaves.                          *)
QueuedIsTaken == \A w \in Waiters : queue[w] # <<>> ~> queue[w] = <<>>

-----------------------------------------------------------------------------
(* "... so a blocked observer learns the outcome whichever path wrote it"  *)
(* (run_one): nobody stays asleep on a row that has ended.                 *)
EndingReachesObservers ==
    \A w \in Waiters :
        row.kind = "terminal" /\ pc[w] # "away" ~> pc[w] = "away"

=============================================================================
