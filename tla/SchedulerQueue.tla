---------------------------- MODULE SchedulerQueue ----------------------------
(***************************************************************************)
(* The queue of one author target: admission under the pending limits, the   *)
(* claim transaction with its durable producer turns, the execution tasks    *)
(* and the fence each settles under, the healing of held rows, resume, and a *)
(* daemon that is stopped, dies and starts again.                            *)
(*                                                                           *)
(* What an execution does to its row is abstracted to retry, hold or ended;  *)
(* AuthorExecution is the detail.  Every transaction, and every stretch of   *)
(* run_one under the runtime mutex that ends in one, is one step.  A fence   *)
(* drawn by a poll that claims nothing is not represented: fences are only   *)
(* compared, so a gap between them changes nothing.                          *)
(***************************************************************************)
EXTENDS Integers, FiniteSets, FiniteSetsExt

CONSTANTS Operations, Producers,
          ProducerOf,         \* the caller identity each operation is admitted under
          GlobalPending,      \* maximum_global_pending_operations
          PendingPerCaller,   \* maximum_pending_operations_per_caller
          MaxInFlight,        \* maximum_global_in_flight_operations
          MaxFence,           \* bound: claims of one process
          MaxRestarts         \* bound: restarts in one behaviour

ASSUME QueueAssumption ==
    /\ ProducerOf \in [Operations -> Producers]
    /\ IsFiniteSet(Operations) /\ IsFiniteSet(Producers)
    /\ GlobalPending \in Nat /\ PendingPerCaller \in Nat
    /\ MaxInFlight \in Nat \ {0} /\ MaxFence \in Nat /\ MaxRestarts \in Nat

VARIABLES
    row,        \* the operation rows with their claim columns
    turns,      \* producer_turn, 0 where there is no row
    tasks,      \* executions in the air
    nextFence,  \* NEXT_FENCE, which starts over with the process
    daemon,     \* up, draining (stop), abandoning (no connections), down
    restarts,
    passes      \* history: passes[p][q], claims q won while p had ready work

durable == <<row, turns>>
vars == <<row, turns, tasks, nextFence, daemon, restarts, passes>>

Row == [status  : {"absent", "queued", "ended"},
        manual  : BOOLEAN,                      \* manual_resume_eligible
        delay   : {"none", "running", "over"},  \* of the outstanding retry
        fence   : Nat,                          \* scheduler_fence, 0 for NULL
        lease   : {"none", "live", "lapsed"},
        started : BOOLEAN,                      \* scheduler_checkpoint
        seq     : Nat]                          \* enqueue_sequence

Task == [op : Operations, fence : Nat \ {0}, phase : {"spawned", "running", "settling", "releasing"},
         outcome : {"none", "retry", "hold", "ended"}]

TypeOK ==
    /\ row \in [Operations -> Row]
    /\ turns \in [Producers -> Nat]
    /\ tasks \subseteq Task /\ Cardinality(tasks) <= MaxInFlight
    /\ nextFence \in 1..(MaxFence + 1)
    /\ daemon \in {"up", "draining", "abandoning", "down"}
    /\ restarts \in 0..MaxRestarts
    /\ passes \in [Producers -> [Producers -> 0..2]]

NoRow == [status |-> "absent", manual |-> FALSE, delay |-> "none",
          fence |-> 0, lease |-> "none", started |-> FALSE, seq |-> 0]

NoPasses == [q \in Producers |-> 0]

Init ==
    /\ row = [o \in Operations |-> NoRow]
    /\ turns = [p \in Producers |-> 0]
    /\ tasks = {} /\ nextFence = 1 /\ daemon = "up" /\ restarts = 0
    /\ passes = [p \in Producers |-> NoPasses]

\* scheduler_claim::release and its siblings: the claim columns are cleared.
Unclaimed(r) == [r EXCEPT !.fence = 0, !.lease = "none", !.started = FALSE]

Queued(o) == row[o].status = "queued"

-----------------------------------------------------------------------------
\* Admission.

\* require_pending_room counts every nonterminal row outside the owner's live
\* slots; finish_execute hands it an empty set of slots.
Pending(active) == { o \in Operations : Queued(o) } \ active

HasRoom(p, active) ==
    /\ Cardinality(Pending(active)) < GlobalPending
    /\ Cardinality({ o \in Pending(active) : ProducerOf[o] = p }) < PendingPerCaller

\* A repeated identifier replays or conflicts and changes nothing.
Admit(o) ==
    /\ daemon # "down" /\ row[o].status = "absent"
    /\ HasRoom(ProducerOf[o], {})
    /\ row' = [row EXCEPT ![o] =
                 [NoRow EXCEPT !.status = "queued",
                               !.seq = 1 + Max({ row[x].seq : x \in Operations })]]
    /\ UNCHANGED <<turns, tasks, nextFence, daemon, restarts>>

-----------------------------------------------------------------------------
\* The claim transaction.

\* Slip: the candidate query forgets the checkpoint.
CandidatesStartedToo ==
    { o \in Operations : Queued(o) /\ ~row[o].manual /\ row[o].lease # "live" }

Candidates ==
    { o \in Operations : Queued(o) /\ ~row[o].manual /\ row[o].lease # "live" /\ ~row[o].started }

RowsOf(p) == { o \in Candidates : ProducerOf[o] = p }
Retained == { p \in Producers : RowsOf(p) # {} }
FirstSeq(p) == Min({ row[o].seq : o \in RowsOf(p) })

\* ProducerTurns::order: turns of producers without a candidate are pruned, and
\* arrivals are appended in the order of their first candidate.
Ordered ==
    LET kept == { p \in Retained : turns[p] # 0 }
        last == Max({ turns[p] : p \in kept } \cup {0})
    IN  [p \in Producers |->
           IF p \in kept THEN turns[p]
           ELSE IF p \notin Retained THEN 0
           ELSE last + Cardinality({ q \in Retained \ kept : FirstSeq(q) <= FirstSeq(p) })]

\* RetrySchedule::select: new work, and retries whose delay is over.
Ready == { o \in Candidates : row[o].delay # "running" }

Before(o, x) ==
    \/ Ordered[ProducerOf[o]] < Ordered[ProducerOf[x]]
    \/ ProducerOf[o] = ProducerOf[x] /\ row[o].seq < row[x].seq

Chosen == CHOOSE o \in Ready : \A x \in Ready \ {o} : Before(o, x)

\* Slip: a successful claim does not give up its producer's turn.
RotatedNever(o) == Ordered

\* ProducerTurns::claimed: to the tail, or out when this was its last candidate.
Rotated(o) ==
    LET p == ProducerOf[o]
    IN  [Ordered EXCEPT ![p] = IF RowsOf(p) = {o} THEN 0
                               ELSE 1 + Max({ Ordered[q] : q \in Producers })]

\* claim_next_queued_with and the spawn of run_one.  A claimed row leaves the
\* candidates, so the deadline of its delay is reconstructed when it returns.
Claim ==
    /\ daemon = "up" /\ Cardinality(tasks) < MaxInFlight /\ nextFence <= MaxFence
    /\ Ready # {}
    /\ LET o == Chosen
       IN  /\ row' = [row EXCEPT ![o].fence = nextFence, ![o].lease = "live",
                                 ![o].delay = IF @ = "none" THEN @ ELSE "running"]
           /\ turns' = Rotated(o)
           /\ tasks' = tasks \cup {[op |-> o, fence |-> nextFence, phase |-> "spawned",
                                    outcome |-> "none"]}
    /\ nextFence' = nextFence + 1
    /\ UNCHANGED <<daemon, restarts>>

\* A poll that finds nothing ready still commits the order of the producers.
PollNothing ==
    /\ daemon = "up" /\ Cardinality(tasks) < MaxInFlight /\ Ready = {}
    /\ turns' = Ordered /\ turns' # turns
    /\ UNCHANGED <<row, tasks, nextFence, daemon, restarts>>

\* The clock: a retry delay runs out, or the lease of a claim does.  The lease
\* of a started claim is never read: its checkpoint keeps it from the query.
DelayOver(o) ==
    /\ Queued(o) /\ row[o].delay = "running"
    /\ row' = [row EXCEPT ![o].delay = "over"]
    /\ UNCHANGED <<turns, tasks, nextFence, daemon, restarts>>

LeaseLapses(o) ==
    /\ Queued(o) /\ row[o].lease = "live" /\ ~row[o].started
    /\ row' = [row EXCEPT ![o].lease = "lapsed"]
    /\ UNCHANGED <<turns, tasks, nextFence, daemon, restarts>>

-----------------------------------------------------------------------------
\* One execution task.

Becomes(t, phase, outcome) ==
    tasks' = (tasks \ {t}) \cup {[t EXCEPT !.phase = phase, !.outcome = outcome]}

\* The row after release under the fence of t: another claim is left alone.
Freed(t) == IF row[t.op].fence = t.fence THEN Unclaimed(row[t.op]) ELSE row[t.op]

Holds(t) == row[t.op].fence = t.fence /\ row[t.op].started

\* schedule_invocation releases a claim it cannot turn into a submission, and
\* stays up; no task runs.
Unstart(t) ==
    /\ daemon = "up" /\ t.phase = "spawned" /\ t.fence = nextFence - 1
    /\ row' = [row EXCEPT ![t.op] = Freed(t)]
    /\ tasks' = tasks \ {t}
    /\ UNCHANGED <<turns, nextFence, daemon, restarts>>

\* The execution connections do not open: the claim is released and the loop
\* returns, cancelling everything without waiting for the tasks in the air.
OpenFails(t) ==
    /\ daemon = "up" /\ t.phase = "spawned" /\ t.fence = nextFence - 1
    /\ row' = [row EXCEPT ![t.op] = IF @.manual THEN @ ELSE Freed(t)]
    /\ tasks' = tasks \ {t} /\ daemon' = "abandoning"
    /\ UNCHANGED <<turns, nextFence, restarts>>

\* execute_retained_with_claim: the checkpoint is taken under the fence, or the
\* execution is refused.
Start(t) ==
    /\ daemon = "up" /\ t.phase = "spawned"
    /\ IF row[t.op].fence = t.fence /\ ~row[t.op].started
       THEN /\ row' = [row EXCEPT ![t.op].started = TRUE]
            /\ Becomes(t, "running", "none")
       ELSE Becomes(t, "releasing", "none") /\ UNCHANGED row
    /\ UNCHANGED <<turns, nextFence, daemon, restarts>>

\* execute_retained refuses a binding after the checkpoint.
Refuse(t) ==
    /\ daemon # "down" /\ t.phase = "running"
    /\ Becomes(t, "releasing", "none")
    /\ UNCHANGED <<durable, nextFence, daemon, restarts>>

\* The row after a fact is folded into it; an ended row takes no other.
Folded(r, outcome) ==
    IF r.status # "queued" THEN r ELSE
    CASE outcome = "ended" -> [r EXCEPT !.status = "ended", !.manual = FALSE, !.delay = "none"]
      [] outcome = "hold"  -> [r EXCEPT !.manual = TRUE, !.delay = "running"]
      [] outcome = "retry" -> [r EXCEPT !.manual = FALSE, !.delay = "running"]

\* The execution writes its row outside the fence on the way (lookup
\* reconciliation, proven success) and either runs on or is done.
Reconcile(t, outcome) ==
    /\ daemon # "down" /\ t.phase = "running"
    /\ row' = [row EXCEPT ![t.op] = Folded(@, outcome)]
    /\ \/ outcome = "retry" /\ UNCHANGED tasks
       \/ Becomes(t, "settling", outcome)
    /\ UNCHANGED <<turns, nextFence, daemon, restarts>>

\* The execution is done with an outcome only the fenced write will record.
Conclude(t, outcome) ==
    /\ daemon # "down" /\ t.phase = "running"
    /\ Becomes(t, "settling", outcome)
    /\ UNCHANGED <<durable, nextFence, daemon, restarts>>

\* settle_with_scheduler_fence: the fact and the release of the claim commit
\* together unless the row now waits on a person; a lost fence, or an ended row
\* offered anything else, refuses and releases next.
Settle(t) ==
    /\ daemon # "down" /\ t.phase = "settling"
    /\ IF Holds(t) /\ (Queued(t.op) \/ t.outcome = "ended")
       THEN LET after == Folded(row[t.op], t.outcome)
            IN  /\ row' = [row EXCEPT ![t.op] = IF after.manual THEN after ELSE Unclaimed(after)]
                /\ tasks' = tasks \ {t}
       ELSE Becomes(t, "releasing", "none") /\ UNCHANGED row
    /\ UNCHANGED <<turns, nextFence, daemon, restarts>>

\* Slip: a detached execution ends without giving its claim up.
DetachKeepingClaim(t, outcome) ==
    /\ \/ t.phase = "running" /\ daemon # "down"
       \/ t.phase = "spawned" /\ daemon \in {"draining", "abandoning"}
    /\ row' = [row EXCEPT ![t.op] = IF @.manual THEN @ ELSE Folded(@, outcome)]
    /\ tasks' = tasks \ {t}
    /\ UNCHANGED <<turns, nextFence, daemon, restarts>>

\* run_one without an outcome: the attempt is charged outside the fence, to a
\* retry or an ending, and the claim released next.  A stop detaches executions
\* that never started too; a timeout only those that did.
Detach(t, outcome) ==
    /\ \/ t.phase = "running" /\ daemon # "down"
       \/ t.phase = "spawned" /\ daemon \in {"draining", "abandoning"}
    /\ row' = [row EXCEPT ![t.op] = IF @.manual THEN @ ELSE Folded(@, outcome)]
    /\ Becomes(t, "releasing", "none")
    /\ UNCHANGED <<turns, nextFence, daemon, restarts>>

\* release_claim_unless_paused, and the end of run_one.
Release(t) ==
    /\ daemon # "down" /\ t.phase = "releasing"
    /\ row' = [row EXCEPT ![t.op] = IF @.manual THEN @ ELSE Freed(t)]
    /\ tasks' = tasks \ {t}
    /\ UNCHANGED <<turns, nextFence, daemon, restarts>>

-----------------------------------------------------------------------------
\* heal_paused_queue: every queued row that waits on a person is ended.
Heal(o) ==
    /\ daemon = "up" /\ Queued(o) /\ row[o].manual
    /\ row' = [row EXCEPT ![o] = Unclaimed(Folded(@, "ended"))]
    /\ UNCHANGED <<turns, tasks, nextFence, daemon, restarts>>

\* A resume clears the claim columns and leaves the hold in place.
Resume(o) ==
    /\ daemon # "down" /\ Queued(o) /\ row[o].manual /\ row[o].fence # 0
    /\ row' = [row EXCEPT ![o] = Unclaimed(@)]
    /\ UNCHANGED <<turns, tasks, nextFence, daemon, restarts>>

Stop ==
    /\ daemon = "up" /\ daemon' = "draining"
    /\ UNCHANGED <<durable, tasks, nextFence, restarts>>

\* The process ends: after the tasks when draining, at any time otherwise.
Drained ==
    /\ daemon = "draining" /\ tasks = {} /\ daemon' = "down"
    /\ UNCHANGED <<durable, tasks, nextFence, restarts>>

Die ==
    /\ daemon # "down" /\ daemon' = "down" /\ tasks' = {}
    /\ UNCHANGED <<durable, nextFence, restarts>>

\* Slip: startup trusts the claims it finds.
RestartUnswept ==
    /\ daemon = "down" /\ restarts < MaxRestarts
    /\ daemon' = "up" /\ restarts' = restarts + 1 /\ nextFence' = 1
    /\ row' = [o \in Operations |->
                 [row[o] EXCEPT !.delay = IF @ = "over" THEN "running" ELSE @]]
    /\ UNCHANGED <<turns, tasks>>

\* recover_abandoned_claims, with every retry deadline reconstructed.
Restart ==
    /\ daemon = "down" /\ restarts < MaxRestarts
    /\ daemon' = "up" /\ restarts' = restarts + 1 /\ nextFence' = 1
    /\ row' = [o \in Operations |->
                 LET r == [row[o] EXCEPT !.delay = IF @ = "over" THEN "running" ELSE @]
                 IN  IF Queued(o) /\ ~r.manual THEN Unclaimed(r) ELSE r]
    /\ UNCHANGED <<turns, tasks>>

Step ==
    \/ \E o \in Operations : Admit(o) \/ DelayOver(o) \/ LeaseLapses(o) \/ Heal(o) \/ Resume(o)
    \/ Claim \/ PollNothing \/ Stop \/ Drained \/ Die \/ Restart
    \/ \E t \in tasks : Unstart(t) \/ OpenFails(t) \/ Start(t) \/ Refuse(t) \/ Settle(t) \/ Release(t)
    \/ \E t \in tasks, outcome \in {"retry", "hold", "ended"} : Reconcile(t, outcome)
    \/ \E t \in tasks, outcome \in {"retry", "ended"} : Conclude(t, outcome) \/ Detach(t, outcome)

\* History: claims others won while this producer had ready work throughout.
Waiting == { ProducerOf[o] : o \in Ready }

Remember ==
    LET served == { ProducerOf[t.op] : t \in { u \in tasks' : u.fence = nextFence } }
    IN  passes' = [p \in Producers |->
            IF p \in (Waiting \cap Waiting') \ served
            THEN [q \in Producers |-> IF q \in served /\ passes[p][q] < 2
                                      THEN passes[p][q] + 1 ELSE passes[p][q]]
            ELSE NoPasses]

Next == Step /\ Remember

Spec == Init /\ [][Next]_vars

-----------------------------------------------------------------------------
Executing == { t \in tasks : t.phase \in {"running", "settling"} }

\* Two executions of one operation never run side by side, though a claim may
\* lapse before its task starts and be taken over (claim, checkpoint).
OneExecutor ==
    \A t, u \in Executing : t.op = u.op => t = u

\* A claim never outlives the task that took it while the daemon is up: every
\* refusal, timeout, settlement and takeover gives it back (run_one, prepare,
\* recover_abandoned_claims).
ClaimHasTask ==
    daemon = "up" =>
        \A o \in Operations :
            (Queued(o) /\ ~row[o].manual /\ row[o].fence # 0) =>
                \E t \in tasks : t.op = o /\ t.fence = row[o].fence

\* A producer with ready work is passed by any other at most once before it is
\* served, whatever arrives, retries, lapses or is refused (ProducerTurns).
PassedAtMostOnce ==
    \A p, q \in Producers : passes[p][q] <= 1

\* A stop that awaits its tasks leaves no claim behind, whatever each of them
\* was doing when it was cancelled (scheduler_loop, run_one).
StopLeavesNoClaim ==
    [][Drained => \A o \in Operations :
          (Queued(o) /\ ~row[o].manual) => row[o].fence = 0]_vars

\* sqlite_statement_inventory.rs:120 "The namespace owner excludes its live
\* execution slots": a queue is full of waiting rows, never of executing ones.
RefusalMeansWaiting ==
    \A p \in Producers : HasRoom(p, { t.op : t \in tasks }) => HasRoom(p, {})
=============================================================================
