-------------------------- MODULE AgentSubscription --------------------------
(***************************************************************************)
(* One subscription to the events of an author, and the work that is under *)
(* it: the ledger of the position reached (agent_subscription_ledger.rs),  *)
(* the fold of one event (durable_author_event.rs, job_event_reducer.rs),  *)
(* the lookup an ending asks for (terminal_event_recovery.rs), the reset   *)
(* to a captured position (subscription_reset.rs), and what maintenance    *)
(* and the audit of the next start do with the rows (maintenance.rs,       *)
(* database.rs).                                                           *)
(*                                                                         *)
(* Every operation has a local row and, once it was scheduled, an outbox   *)
(* child.  The author numbers the events of a job from 1 and the positions *)
(* of the stream from FirstPosition + 1, in one generation of its event    *)
(* store.  Whatever is read before a network exchange is held and compared *)
(* in the transaction that writes.                                         *)
(***************************************************************************)
EXTENDS Naturals, FiniteSets, Sequences

CONSTANTS
    Jobs,           \* operations of one target under one subscription
    FirstPosition,  \* where the author's numbering stood at the start
    MaxEvents,      \* events the author emits
    EventRows,      \* events the ledger may retain
    MaxRevision,    \* recovery facts recorded on one row
    None

ASSUME BoundsAssumption ==
    /\ FirstPosition \in Nat /\ MaxEvents \in Nat
    /\ EventRows \in Nat \ {0} /\ MaxRevision \in Nat

VARIABLES
    log,        \* the author's stream: the job, its sequence, whether it ends
    sent,       \* jobs the author was given
    ledger,     \* the subscription's ledger row and its retained events
    child,      \* the outbox child of each operation
    row,        \* the local row of each operation
    scheduled,  \* operations with a submission built and no child yet
    consumer,   \* the attachment, or the recovery it asked for
    lookup      \* the scheduler's own lookup in flight, its width held at one

author  == <<log, sent>>
records == <<ledger, child, row>>
vars    == <<author, records, scheduled, consumer, lookup>>

-----------------------------------------------------------------------------
(* The author, as the daemon sees it. *)

EventsOf(j) == {i \in DOMAIN log : log[i].job = j}
Reported(j) == Cardinality(EventsOf(j))
Finished(j) == \E i \in EventsOf(j) : log[i].ends

(* What an authenticated lookup answers: the last sequence of the job and  *)
(* the position of the stream that answer covers.                          *)
Snapshot(j) == [seq |-> Reported(j), ends |-> Finished(j), mark |-> Len(log)]

(* Cursors are compared as numbers wherever the shared ordering is used,   *)
(* and as text where it is not: 10 is spelled before 9.                    *)
Digits[n \in Nat] == IF n < 10 THEN <<n>> ELSE Append(Digits[n \div 10], n % 10)

(* The first place at which two spellings part, or the end of the shorter. *)
SpelledBefore(a, b) ==
    LET x == Digits[a]  y == Digits[b]
    IN  \E k \in DOMAIN y :
          /\ k <= Len(x) + 1 /\ \A i \in 1..(k - 1) : x[i] = y[i]
          /\ k <= Len(x) => x[k] < y[k]

-----------------------------------------------------------------------------
Ended == {"settled", "lost", "exhausted"}

NoLedger == [there |-> FALSE, cursor |-> 0, digest |-> None,
             incident |-> FALSE, rows |-> 0, events |-> {}]
Earlier  == [NoLedger EXCEPT !.there = TRUE, !.rows = 1, !.events = {0}]
NoChild  == [state |-> "none", applied |-> 0]
Accepted == [state |-> "open", revision |-> 0]
Idle     == [at |-> "idle", pos |-> 0, forged |-> FALSE, view |-> None,
             mark |-> 0, answers |-> [j \in Jobs |-> None]]

TypeOK ==
    /\ log \in Seq([job : Jobs, seq : 1..MaxEvents, ends : BOOLEAN])
    /\ Len(log) <= MaxEvents /\ sent \subseteq Jobs
    /\ ledger \in [there : BOOLEAN, cursor : 0..MaxEvents,
                   digest : BOOLEAN \cup {None},
                   incident : BOOLEAN, rows : 0..EventRows,
                   events : SUBSET (0..MaxEvents)]
    /\ child \in [Jobs -> [state : {"none", "open", "ended"},
                           applied : 0..MaxEvents]]
    /\ row \in [Jobs -> [state : {"open", "removed"} \cup Ended,
                         revision : 0..MaxRevision]]
    /\ scheduled \subseteq Jobs
    /\ consumer.at \in {"idle", "streaming", "folding", "terminal", "answered",
                        "capturing", "looking", "handoff"}
    /\ lookup = None \/ lookup.job \in Jobs

(* Nothing was subscribed before, or one event of work since removed is    *)
(* still retained, at the position the numbering starts from.              *)
Init ==
    /\ log = <<>> /\ sent = {}
    /\ ledger \in {NoLedger, Earlier}
    /\ child = [j \in Jobs |-> NoChild] /\ row = [j \in Jobs |-> Accepted]
    /\ lookup = None
    /\ scheduled = {} /\ consumer = Idle

(* Children whose work is not known to have ended: the child is open, and  *)
(* no row says the operation ended.                                        *)
Members == {j \in Jobs : child[j].state = "open" /\ row[j].state \notin Ended}

(* read_recovery_view: the ledger row and every member with its owner.     *)
View == [ledger |-> ledger,
         members |-> [j \in Members |-> [child |-> child[j], row |-> row[j]]]]

\* Slip: only the position is compared before a write.
CurrentByCursor(v) == ledger.cursor = v.ledger.cursor

(* require_recovery_current, inside the writing transaction.               *)
Current(v) == View = v

-----------------------------------------------------------------------------
(* Operations are submitted. *)

(* schedule_invocation opens the subscription unless it is open.           *)
Schedule(j) ==
    /\ row[j].state = "open" /\ child[j].state = "none"
    /\ j \notin scheduled
    /\ scheduled' = scheduled \cup {j}
    /\ ledger' = IF ledger.there THEN ledger ELSE [NoLedger EXCEPT !.there = TRUE]
    /\ UNCHANGED <<author, child, row, consumer, lookup>>

(* The child is written before the request goes out.                       *)
Submit(j) ==
    /\ j \in scheduled /\ row[j].state = "open"
    /\ child' = [child EXCEPT ![j].state = "open"]
    /\ scheduled' = scheduled \ {j}
    /\ sent' = sent \cup {j}
    /\ UNCHANGED <<log, ledger, row, consumer, lookup>>

Emit(j, ends) ==
    /\ j \in sent /\ ~Finished(j) /\ Len(log) < MaxEvents
    /\ log' = Append(log, [job |-> j, seq |-> Reported(j) + 1, ends |-> ends])
    /\ UNCHANGED <<sent, records, scheduled, consumer, lookup>>

-----------------------------------------------------------------------------
(* The attachment reads the stream. *)

Holds(s) == consumer.at = s
Rest     == consumer' = Idle

(* Every member must have its local owner; the author replays from the     *)
(* position asked for or from an earlier one.                              *)
Attach(p) ==
    /\ Holds("idle") /\ ledger.there /\ ~ledger.incident
    /\ \A j \in Members : row[j].state = "open"
    /\ p \in 0..ledger.cursor
    /\ consumer' = [Idle EXCEPT !.at = "streaming", !.pos = p]
    /\ UNCHANGED <<author, records, scheduled, lookup>>

Completed(j) == child[j].state = "ended" /\ row[j].state = "settled"

(* The decoder resolves the operation of an ending; the fold reads its     *)
(* view.  An author may give another account (forged) of what it said     *)
(* before: of a position already reached or an event already applied.      *)
Receive(forged) ==
    LET e == log[consumer.pos + 1]
    IN  /\ Holds("streaming") /\ consumer.pos < Len(log)
        /\ ledger.there
        /\ forged => consumer.pos < ledger.cursor \/ e.seq <= child[e.job].applied
        /\ e.ends => /\ ~ledger.incident
                     /\ \/ e.job \in Members /\ row[e.job].state = "open"
                        \/ Completed(e.job)
        /\ consumer' = [consumer EXCEPT !.at = "folding", !.pos = @ + 1,
                                        !.forged = forged, !.view = View]
        /\ UNCHANGED <<author, records, scheduled, lookup>>

Detach ==
    /\ consumer.at # "idle"
    /\ Rest
    /\ UNCHANGED <<author, records, scheduled, lookup>>

(* classify: where a position stands against the one held.                 *)
classify(l, p, digest) ==
    IF l.cursor = 0 \/ p > l.cursor THEN "advanced"
    ELSE IF p < l.cursor \/ l.digest = None THEN "stale"
    ELSE IF l.digest = digest THEN "replay" ELSE "conflict"

(* reduce: what an event means for the job it is about.                    *)
reduce(held, seq, digest) ==
    CASE seq = held.applied -> IF digest THEN "conflict" ELSE "replay"
      [] seq < held.applied -> "stale"
      [] seq > held.applied + 1 -> "gap"
      [] OTHER -> "applied"

\* Slip: an ending is folded like any other event.
JudgesEndingApplied(e, p, digest, v) ==
    LET l == v.ledger
    IN  IF l.incident THEN "incident"
        ELSE IF l.cursor = p /\ l.digest # None /\ l.digest # digest THEN "conflict"
        ELSE IF e.job \in DOMAIN v.members THEN reduce(v.members[e.job].child, e.seq, digest)
        ELSE IF Completed(e.job)
          THEN LET d == reduce(child[e.job], e.seq, digest)
               IN  IF d \in {"applied", "gap"} THEN "refused" ELSE d
        ELSE "stale"

(* fold_selected_event decides from the view it read.                      *)
Judged(e, p, digest, v) ==
    LET l == v.ledger
    IN  IF l.incident THEN "incident"
        ELSE IF l.cursor = p /\ l.digest # None /\ l.digest # digest THEN "conflict"
        ELSE IF e.job \in DOMAIN v.members
          THEN LET d == reduce(v.members[e.job].child, e.seq, digest)
               IN  IF d = "applied" /\ e.ends THEN "ending" ELSE d
        ELSE IF Completed(e.job)
          THEN LET d == reduce(child[e.job], e.seq, digest)
               IN  IF d \in {"applied", "gap"} THEN "refused" ELSE d
        ELSE "stale"

Incident(l) == [l EXCEPT !.incident = TRUE]

Advanced(l, p, digest) ==
    [l EXCEPT !.cursor = p, !.digest = digest, !.rows = @ + 1,
              !.events = @ \cup {p}]

(* record_event_within: the ledger after one event.                        *)
Recorded(l, p, digest) ==
    CASE classify(l, p, digest) = "advanced" -> Advanced(l, p, digest)
      [] classify(l, p, digest) = "conflict" -> Incident(l)
      [] OTHER -> l

(* require_event_room. *)
HasRoom(l, p, digest) ==
    classify(l, p, digest) = "advanced" => l.rows < EventRows

Streams == consumer' = [consumer EXCEPT !.at = "streaming", !.view = None]

Fold ==
    LET p == consumer.pos
        e == log[p]
        d == consumer.forged
        v == consumer.view
        judged == Judged(e, p, d, v)
        outcome == classify(ledger, p, d)
    IN  /\ Holds("folding")
        /\ \/ /\ judged \in {"incident", "gap", "refused"}
              /\ Rest /\ UNCHANGED <<ledger, child>>
           \/ /\ judged = "conflict"
              /\ IF Current(v) THEN ledger' = Incident(ledger) ELSE UNCHANGED ledger
              /\ Rest /\ UNCHANGED child
           \/ /\ judged = "ending"
              /\ IF e.job \in Members /\ row[e.job].state = "open" /\ ~ledger.incident
                    /\ ledger.there /\ e.seq = child[e.job].applied + 1
                   THEN consumer' = [consumer EXCEPT !.at = "terminal", !.view = View]
                   ELSE Rest
              /\ UNCHANGED <<ledger, child>>
           \/ /\ judged \in {"applied", "replay", "stale"}
              /\ IF Current(v) /\ HasRoom(ledger, p, d)
                   THEN /\ ledger' = Recorded(ledger, p, d)
                        /\ child' = IF judged = "applied" /\ outcome = "advanced"
                                      THEN [child EXCEPT ![e.job].applied = e.seq]
                                      ELSE child
                        /\ IF outcome = "conflict" THEN Rest ELSE Streams
                   ELSE Rest /\ UNCHANGED <<ledger, child>>
        /\ UNCHANGED <<author, row, scheduled, lookup>>

-----------------------------------------------------------------------------
(* An ending is looked up before it is believed. *)

(* An answer that reports less than is held, or something else at the same *)
(* sequence, is refused.                                                   *)
Extends(j, answer) ==
    \/ answer.seq > child[j].applied
    \/ answer.seq = child[j].applied /\ ~answer.ends

(* associate_snapshot_within and write_terminal_snapshot.                  *)
Caught(j, answer) == [child[j] EXCEPT !.applied = answer.seq]

Settles(j, seq) ==
    /\ child' = [child EXCEPT ![j] = [state |-> "ended", applied |-> seq]]
    /\ row' = [row EXCEPT ![j].state = "settled"]

(* record_exchange_failure, while the budget lasts.                        *)
Retried(j) ==
    IF row[j].revision < MaxRevision
      THEN row' = [row EXCEPT ![j].revision = @ + 1]
      ELSE UNCHANGED row

AskEnding ==
    LET j == log[consumer.pos].job
    IN  /\ Holds("terminal")
        /\ IF Current(consumer.view)
             THEN consumer' = [consumer EXCEPT !.at = "answered",
                                               !.answers[j] = Snapshot(j)]
             ELSE Rest
        /\ UNCHANGED <<author, records, scheduled, lookup>>

AskEndingFails ==
    /\ Holds("terminal")
    /\ IF Current(consumer.view) THEN Retried(log[consumer.pos].job) ELSE UNCHANGED row
    /\ Rest
    /\ UNCHANGED <<author, ledger, child, scheduled, lookup>>

(* Whether the answer covers the event that asked for it.                  *)
Covers(answer, e, p) ==
    /\ answer.ends /\ answer.seq >= e.seq
    /\ ~SpelledBefore(FirstPosition + answer.mark, FirstPosition + p)

TakeEnding ==
    LET p == consumer.pos
        j == log[p].job
    IN  /\ Holds("answered")
        /\ IF ~Current(consumer.view) THEN UNCHANGED <<child, row>>
             ELSE IF Covers(consumer.answers[j], log[p], p)
                    THEN /\ Extends(j, consumer.answers[j])
                         /\ Settles(j, consumer.answers[j].seq)
                    ELSE Retried(j) /\ UNCHANGED child
        /\ Rest
        /\ UNCHANGED <<author, ledger, scheduled, lookup>>

-----------------------------------------------------------------------------
(* The reset: capture a position, look every member up, install all. *)

BeginReset ==
    /\ Holds("idle") /\ ledger.there
    /\ \A j \in Members : row[j].state = "open"
    /\ consumer' = [Idle EXCEPT !.at = "capturing", !.view = View]
    /\ UNCHANGED <<author, records, scheduled, lookup>>

Capture ==
    /\ Holds("capturing")
    /\ consumer' = [consumer EXCEPT !.at = "looking", !.mark = Len(log)]
    /\ UNCHANGED <<author, records, scheduled, lookup>>

Answered == {j \in Jobs : consumer.answers[j] # None}

(* One member's lookup; an ending is handed to its own recovery, and a row *)
(* that moved ends the reset.                                              *)
LookAtMember(j) ==
    LET v == consumer.view
    IN  /\ Holds("looking") /\ j \in DOMAIN v.members \ Answered
        /\ Reported(j) > 0
        /\ consumer' =
             IF row[j] # v.members[j].row THEN Idle
             ELSE IF Finished(j)
                    THEN [consumer EXCEPT !.at = "handoff",
                            !.answers = [Idle.answers EXCEPT ![j] = Snapshot(j)]]
                    ELSE [consumer EXCEPT !.answers[j] = Snapshot(j)]
        /\ UNCHANGED <<author, records, scheduled, lookup>>

(* The handed-off ending settles against the revision the reset read.      *)
SettleHandoff ==
    /\ Holds("handoff")
    /\ \E j \in Answered :
         IF child[j].state = "open" /\ row[j] = consumer.view.members[j].row
              /\ Extends(j, consumer.answers[j])
           THEN Settles(j, consumer.answers[j].seq)
           ELSE UNCHANGED <<child, row>>
    /\ Rest
    /\ UNCHANGED <<author, ledger, scheduled, lookup>>

(* install_boundary_within: a position nobody has seen an event at.        *)
Boundary(p) ==
    [ledger EXCEPT !.cursor = p, !.digest = None,
                   !.incident = FALSE, !.rows = 0, !.events = {}]

Install ==
    LET v == consumer.view
        a == consumer.answers
    IN  /\ Holds("looking") /\ DOMAIN v.members = Answered
        /\ IF /\ Current(v) /\ consumer.mark >= v.ledger.cursor
              /\ \A j \in Answered : Extends(j, a[j])
             THEN /\ ledger' = Boundary(consumer.mark)
                  /\ child' = [j \in Jobs |-> IF j \in Answered
                                THEN Caught(j, a[j]) ELSE child[j]]
             ELSE UNCHANGED <<ledger, child>>
        /\ Rest
        /\ UNCHANGED <<author, row, scheduled, lookup>>

(* compact_below forgets events under a floor the cursor has passed.  The  *)
(* floor kept in the row only refuses a lower one, which forgets nothing.  *)
Compact(floor) ==
    /\ ledger.there /\ floor \in 1..ledger.cursor
    /\ LET kept == {p \in ledger.events : p >= floor}
       IN  ledger' = [ledger EXCEPT !.events = kept, !.rows = Cardinality(kept)]
    /\ UNCHANGED <<author, child, row, scheduled, consumer, lookup>>

-----------------------------------------------------------------------------
(* The scheduler looks its own operations up, stream or no stream. *)

AskLookup(j) ==
    /\ row[j].state = "open" /\ child[j].state = "open"
    /\ lookup = None /\ Reported(j) > 0
    /\ lookup' = [job |-> j, answer |-> Snapshot(j), child |-> child[j], row |-> row[j]]
    /\ UNCHANGED <<author, records, scheduled, consumer>>

\* Slip: an answer is applied to whatever the child has become.
AppliesToRow ==
    /\ lookup # None
    /\ LET j == lookup.job
           answer == lookup.answer
       IN  IF row[j] = lookup.row /\ child[j].state = "open"
             THEN IF answer.ends THEN Settles(j, answer.seq)
                    ELSE child' = [child EXCEPT ![j] = Caught(j, answer)] /\ UNCHANGED row
             ELSE UNCHANGED <<child, row>>
    /\ lookup' = None
    /\ UNCHANGED <<author, ledger, scheduled, consumer>>

ApplyLookup ==
    /\ lookup # None
    /\ LET j == lookup.job
           answer == lookup.answer
       IN  IF child[j] = lookup.child /\ row[j] = lookup.row /\ Extends(j, answer)
             THEN IF answer.ends THEN Settles(j, answer.seq)
                    ELSE child' = [child EXCEPT ![j] = Caught(j, answer)] /\ UNCHANGED row
             ELSE UNCHANGED <<child, row>>
    /\ lookup' = None
    /\ UNCHANGED <<author, ledger, scheduled, consumer>>

(* A row that ends without its author's word leaves the child as it is:    *)
(* the retention window closed or the state was lost, or the attempts were *)
(* spent.                                                                  *)
GiveUp(j, kind) ==
    /\ row[j].state = "open" /\ kind \in {"lost", "exhausted"}
    /\ row' = [row EXCEPT ![j].state = kind]
    /\ UNCHANGED <<author, ledger, child, scheduled, consumer, lookup>>

-----------------------------------------------------------------------------
(* Maintenance and the next start. *)

(* preview_with: rows that ended before the cutoff, children recorded      *)
(* before it that ended or whose row is one of three kinds, and a          *)
(* subscription no child names.                                            *)
RemovableRows == {j \in Jobs : row[j].state \in Ended}

RemovableChildren(old, rows) ==
    {j \in old : \/ child[j].state = "ended"
                 \/ child[j].state = "open" /\ j \in rows /\ row[j].state = "lost"}

Retirable == ledger.there /\ \A j \in Jobs : child[j].state = "none"

(* remove_and_record in one transaction; rows is what settled before the   *)
(* cutoff, old what was recorded before it.                                *)
Maintain(rows, old) ==
    /\ rows \subseteq RemovableRows /\ rows \subseteq old
    /\ LET gone == RemovableChildren(old, rows)
       IN  child' = [j \in Jobs |-> IF j \in gone THEN NoChild ELSE child[j]]
    /\ row' = [j \in Jobs |-> IF j \in rows THEN [Accepted EXCEPT !.state = "removed"]
                                             ELSE row[j]]
    /\ ledger' = IF Retirable THEN NoLedger ELSE ledger
    /\ records' # records
    /\ UNCHANGED <<author, scheduled, consumer, lookup>>

(* audit_existing_binding: an unfinished child without its local owner.    *)
Unowned == {j \in Jobs : child[j].state = "open" /\ row[j].state = "removed"}

(* The daemon stops anywhere, and the next one is let in.                  *)
Restart ==
    /\ Unowned = {}
    /\ consumer' = Idle /\ lookup' = None /\ scheduled' = {}
    /\ UNCHANGED <<author, records>>

Next ==
    \/ \E j \in Jobs :
         \/ Schedule(j) \/ Submit(j)
         \/ \E ends \in BOOLEAN : Emit(j, ends)
         \/ LookAtMember(j) \/ AskLookup(j)
         \/ \E kind \in {"lost", "exhausted"} : GiveUp(j, kind)
    \/ \E p \in 0..MaxEvents : Attach(p) \/ Compact(p)
    \/ \E forged \in BOOLEAN : Receive(forged)
    \/ ApplyLookup \/ Fold \/ Detach \/ AskEnding \/ AskEndingFails \/ TakeEnding
    \/ BeginReset \/ Capture \/ SettleHandoff \/ Install
    \/ \E rows, old \in SUBSET Jobs : Maintain(rows, old)
    \/ Restart

Spec == Init /\ [][Next]_vars

-----------------------------------------------------------------------------
(* No event is lost: while an operation is open, every event of its job at *)
(* or before the position the ledger has reached was folded into the child *)
(* or is covered by an answer that was.  Replays, gaps, resets and lookups *)
(* that race with the stream may not move the position past one.           *)
NothingIsPassed ==
    \A j \in Jobs : child[j].state = "open" /\ row[j].state = "open" =>
      \A i \in EventsOf(j) : i <= ledger.cursor => log[i].seq <= child[j].applied

(* An operation is settled only by what its author reported: never by an   *)
(* ending seen on the stream alone, and a child never claims more events   *)
(* than there were.                                                        *)
SettledIsReported ==
    \A j \in Jobs : /\ child[j].applied <= Reported(j)
                    /\ child[j].state = "ended" => Finished(j)
                    /\ child[j].state = "open" /\ row[j].state = "open" =>
                         \A i \in EventsOf(j) : log[i].ends => child[j].applied < log[i].seq

(* What is known of a job only grows, whichever of the stream, a reset and *)
(* a lookup writes last, until its child is removed.                       *)
AppliedOnlyGrows ==
    [][\A j \in Jobs : child'[j].state # "none" => child'[j].applied >= child[j].applied]_vars

(* Maintenance removes whole operations (maintenance.rs), so the audit of  *)
(* the next start finds an owner for every unfinished child.               *)
NextStartIsAdmitted == Unowned = {}

(* Positions compare as numbers (stream_cursor_order.rs), so an answer     *)
(* that covers the ending it was asked for is taken.                       *)
CoveringAnswerIsTaken ==
    Holds("answered") =>
      LET p == consumer.pos
          e == log[p]
          a == consumer.answers[e.job]
      IN  a.ends /\ a.seq >= e.seq /\ a.mark >= p => Covers(a, e, p)
=============================================================================
