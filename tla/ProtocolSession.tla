-------------------------- MODULE ProtocolSession --------------------------
(***************************************************************************)
(* One session of the MCP server: process_session.rs with the registry of  *)
(* active requests, the output queue, the two eras' intake and the stream   *)
(* threads.                                                                  *)
(*                                                                           *)
(* The coordinator alone owns the session's state and goes round a loop:     *)
(* take the writer's report, take the workers' completions, give up if a     *)
(* deadline is over, take one line of input, hand one line to the writer.    *)
(* `step' is its place in that loop. Between any two places the client, the  *)
(* worker threads and the writer thread move.                                *)
(*                                                                           *)
(* A line is its kind, the request it is about and its length. Lengths are   *)
(* counted up to one more than the transport takes: an answer repeats the    *)
(* identifier it was asked under, which may be as long as a line, so any     *)
(* answer may turn out too long. What a tool returns is not modelled.        *)
(***************************************************************************)
EXTENDS Integers, FiniteSets, Sequences

CONSTANTS
    MaxIdentifier,      \* bound: how many identifiers the client uses
    MaxLine,            \* framing.maximum_payload_bytes
    MaxQueuedBytes,     \* standard_stream.maximum_queued_bytes
    MaxQueuedMessages,  \* standard_stream.maximum_queued_messages
    MaxActive,          \* MAXIMUM_ACTIVE_REQUESTS
    MaxUnread,          \* bound: lines the client has sent and nobody took
    MaxSends            \* bound: lines the client ever sends

ASSUME SessionBounds ==
    /\ MaxIdentifier \in Nat
    /\ MaxLine \in Nat \ {0}
    /\ MaxQueuedBytes \in Nat /\ MaxQueuedBytes >= MaxLine
    /\ MaxQueuedMessages \in Nat \ {0}
    /\ MaxActive \in Nat \ {0}
    /\ MaxUnread \in Nat /\ MaxSends \in Nat

Identifiers == 1 .. MaxIdentifier

\* Stands where a line is about no request.
NoIdentifier == 0

VARIABLES
    client,       \* how the client stands with each identifier
    input,        \* lines sent and not yet taken, in order
    sends,        \* how many lines the client has sent
    lifecycle,    \* LegacySession::lifecycle
    active,       \* ActiveRequestRegistry::held
    pending,      \* the keys of ServerApplication::pending
    flagged,      \* those whose cancellation flag is set
    running,      \* requests whose worker thread has not reported
    completions,  \* the workers' channel
    waiting,      \* OutputQueue::waiting
    waitingBytes, \* OutputQueue::waiting_bytes, which is counted apart
    failure,      \* OutputQueue::failure
    writing,      \* Session::writing
    writer,       \* the writer thread and its report
    held,         \* Session::held_input
    inputEnded,   \* Session::input_ended is set
    pressured,    \* Session::pressured is set
    elapsed,      \* the running deadlines that are over
    step,         \* where the coordinator is in its loop
    phase         \* whether and how the session ended

clientVars == <<client, input, sends>>
requestVars == <<lifecycle, active, pending, flagged>>
workerVars == <<running, completions>>
outputVars == <<waiting, waitingBytes, failure>>
streamVars == <<writing, writer>>
intakeVars == <<held, inputEnded, pressured>>
vars == <<clientVars, requestVars, workerVars, outputVars, streamVars, intakeVars,
          elapsed, step, phase>>

NoLine == [kind |-> "none", id |-> NoIdentifier, bytes |-> 0]

Requests == {"call", "control", "initialize"}

Bytes == 1 .. (MaxLine + 1)

Inputs ==
    [kind : Requests \cup {"cancel"}, id : Identifiers, bytes : {0}]
        \cup [kind : {"initialized", "unreadable", "tooLong", "end"},
              id : {NoIdentifier}, bytes : {0}]

Answers ==
    [kind : {"response", "duplicate", "saturated"}, id : Identifiers, bytes : Bytes]
        \cup [kind : {"unreadable"}, id : {NoIdentifier}, bytes : Bytes]

TypeOK ==
    /\ client \in [Identifiers -> {"unused", "idle", "open", "withdrawn", "spoiled"}]
    /\ input \in Seq(Inputs) /\ sends \in 0 .. MaxSends
    /\ lifecycle \in {"Fresh", "Offered", "Ready"}
    /\ active \in [Identifiers -> {"none", "Reserved", "Answered", "Cancelling"}]
    /\ pending \subseteq Identifiers /\ flagged \subseteq Identifiers
    /\ running \subseteq Identifiers
    /\ completions \in Seq([id : Identifiers, bytes : Bytes])
    /\ waiting \in Seq(Answers) /\ waitingBytes \in 0 .. MaxQueuedBytes
    /\ failure \in {"none", "PressureExpired", "WriteExpired", "SinkFailed"}
    /\ writing \in Answers \cup {NoLine}
    /\ writer \in {"idle", "busy", "written", "Complete", "Expired", "Refused"}
    /\ held \in Inputs \cup {NoLine}
    /\ inputEnded \in BOOLEAN /\ pressured \in BOOLEAN
    /\ elapsed \subseteq {"write", "shutdown", "pressure"}
    /\ step \in {"deliver", "complete", "write"}
    /\ phase \in {"serving", "drained", "ended"}

Init ==
    /\ client = [i \in Identifiers |-> "unused"]
    /\ input = <<>> /\ sends = 0
    /\ lifecycle = "Fresh"
    /\ active = [i \in Identifiers |-> "none"]
    /\ pending = {} /\ flagged = {} /\ running = {} /\ completions = <<>>
    /\ waiting = <<>> /\ waitingBytes = 0 /\ failure = "none"
    /\ writing = NoLine /\ writer = "idle"
    /\ held = NoLine /\ inputEnded = FALSE /\ pressured = FALSE
    /\ elapsed = {} /\ step = "deliver" /\ phase = "serving"

-----------------------------------------------------------------------------
(* The output queue. *)

\* The worker bound leaves room for a control answer and the writer.
MaxWorkers ==
    LET derived == MaxQueuedBytes \div MaxLine - 2
    IN  IF derived < 0 THEN 0 ELSE IF derived < MaxActive THEN derived ELSE MaxActive

\* The first failure is the one that counts, and empties the queue.
Fail(reason) ==
    /\ failure' = IF failure = "none" THEN reason ELSE failure
    /\ waiting' = IF failure = "none" THEN <<>> ELSE waiting
    /\ waitingBytes' = IF failure = "none" THEN 0 ELSE waitingBytes

Takes(line) ==
    /\ failure = "none"
    /\ line.bytes <= MaxLine
    /\ Len(waiting) < MaxQueuedMessages
    /\ waitingBytes + line.bytes <= MaxQueuedBytes

\* A line the queue does not take ends all output.
Enqueue(line) ==
    IF Takes(line)
    THEN /\ waiting' = Append(waiting, line)
         /\ waitingBytes' = waitingBytes + line.bytes
         /\ UNCHANGED failure
    ELSE Fail("PressureExpired")

Finish(how) ==
    /\ phase' = how
    /\ Fail("SinkFailed")
    /\ flagged' = flagged \cup pending
    /\ pending' = {}
    /\ active' = [i \in Identifiers |-> "none"]

-----------------------------------------------------------------------------
(* The client. An identifier is `open' from its request to its answer,        *)
(* `withdrawn' once a cancellation was sent for it, and `spoiled' for good     *)
(* once it was used again before its answer came. New identifiers are taken    *)
(* in order: the code compares them for equality only.                         *)

AfterRequest(standing) == IF standing \in {"unused", "idle"} THEN "open" ELSE "spoiled"

AfterCancel(standing) == IF standing = "open" THEN "withdrawn" ELSE standing

AfterAnswer(standing) == IF standing = "spoiled" THEN "spoiled" ELSE "idle"

Send(line) ==
    /\ phase = "serving"
    /\ sends < MaxSends /\ Len(input) < MaxUnread
    /\ ~inputEnded
    /\ \A k \in DOMAIN input : input[k].kind \notin {"tooLong", "end"}
    /\ \A i \in Identifiers : i < line.id => client[i] # "unused"
    /\ sends' = sends + 1
    /\ input' = Append(input, line)
    /\ client' = IF line.kind \in Requests
                 THEN [client EXCEPT ![line.id] = AfterRequest(@)]
                 ELSE IF line.kind = "cancel"
                 THEN [client EXCEPT ![line.id] = AfterCancel(@)]
                 ELSE client
    /\ UNCHANGED <<requestVars, workerVars, outputVars, streamVars, intakeVars,
                   elapsed, step, phase>>

-----------------------------------------------------------------------------
(* The threads. *)

\* A worker reports once, whatever its tool did and whether or not it panicked.
WorkerReports(i, bytes) ==
    /\ phase = "serving" /\ i \in running
    /\ Len(completions) < MaxWorkers
    /\ running' = running \ {i}
    /\ completions' = Append(completions, [id |-> i, bytes |-> bytes])
    /\ UNCHANGED <<clientVars, requestVars, outputVars, streamVars, intakeVars,
                   elapsed, step, phase>>

\* All bytes are out: the client may read them before the coordinator hears of it.
WriterWrites ==
    /\ phase = "serving" /\ writer = "busy"
    /\ writer' = "written"
    /\ client' = IF writing.id \in Identifiers
                 THEN [client EXCEPT ![writing.id] = AfterAnswer(@)]
                 ELSE client
    /\ UNCHANGED <<input, sends, requestVars, workerVars, outputVars, writing, intakeVars,
                   elapsed, step, phase>>

\* The flush may still fail after the last byte.
WriterReports(outcome) ==
    /\ phase = "serving"
    /\ \/ writer = "written" /\ outcome \in {"Complete", "Refused"}
       \/ writer = "busy" /\ outcome \in {"Expired", "Refused"}
    /\ writer' = outcome
    /\ UNCHANGED <<clientVars, requestVars, workerVars, outputVars, writing, intakeVars,
                   elapsed, step, phase>>

Runs(deadline) ==
    CASE deadline = "write" -> writing # NoLine
      [] deadline = "shutdown" -> inputEnded
      [] deadline = "pressure" -> pressured

Elapse(deadline) ==
    /\ phase = "serving" /\ Runs(deadline) /\ deadline \notin elapsed
    /\ elapsed' = elapsed \cup {deadline}
    /\ UNCHANGED <<clientVars, requestVars, workerVars, outputVars, streamVars, intakeVars,
                   step, phase>>

-----------------------------------------------------------------------------
(* The coordinator: deliveries, completions and deadlines. *)

At(place) == phase = "serving" /\ step = place

\* The process was told to stop.
Interrupted ==
    /\ At("deliver")
    /\ Finish("ended")
    /\ UNCHANGED <<clientVars, lifecycle, workerVars, streamVars, intakeVars, elapsed, step>>

Acknowledged(i) ==
    active' = [active EXCEPT ![i] = IF @ = "Answered" THEN "none" ELSE @]

ReceiveDelivery ==
    /\ At("deliver")
    /\ step' = "complete"
    /\ CASE writer = "Complete" ->
                /\ writing' = NoLine /\ writer' = "idle"
                /\ elapsed' = elapsed \ {"write"}
                /\ IF writing.kind = "response"
                   THEN Acknowledged(writing.id)
                   ELSE UNCHANGED active
                /\ UNCHANGED outputVars
         [] writer = "Expired" ->
                Fail("WriteExpired") /\ UNCHANGED <<streamVars, elapsed, active>>
         [] writer = "Refused" ->
                Fail("SinkFailed") /\ UNCHANGED <<streamVars, elapsed, active>>
         [] OTHER -> UNCHANGED <<streamVars, elapsed, active, outputVars>>
    /\ UNCHANGED <<clientVars, lifecycle, pending, flagged, workerVars, intakeVars, phase>>

Response(i, bytes) == [kind |-> "response", id |-> i, bytes |-> bytes]

\* A worker's answer: suppressed when its request was cancelled, queued otherwise.
Completed ==
    /\ At("complete") /\ completions # <<>>
    /\ LET done == Head(completions)
       IN  /\ pending' = pending \ {done.id}
           /\ flagged' = flagged \ {done.id}
           /\ CASE done.id \notin pending -> UNCHANGED <<active, outputVars>>
                [] done.id \in pending /\ done.id \in flagged ->
                       /\ active' = [active EXCEPT ![done.id] =
                                         IF @ = "Cancelling" THEN "none" ELSE @]
                       /\ UNCHANGED outputVars
                [] OTHER ->
                       /\ active' = [active EXCEPT ![done.id] =
                                         IF @ = "Reserved" THEN "Answered" ELSE @]
                       /\ Enqueue(Response(done.id, done.bytes))
    /\ completions' = Tail(completions)
    /\ UNCHANGED <<clientVars, lifecycle, running, streamVars, intakeVars, elapsed, step, phase>>

\* Slip: the drain after the end of input has no deadline.
ExpiredUnlessDraining == elapsed \ {"shutdown"} # {}

Expired == elapsed # {}

Settled == At("complete") /\ completions = <<>>

GoesOn == Settled /\ ~Expired /\ failure = "none"

GiveUp ==
    /\ Settled /\ (Expired \/ failure # "none")
    /\ Finish("ended")
    /\ UNCHANGED <<clientVars, lifecycle, workerVars, streamVars, intakeVars, elapsed, step>>

-----------------------------------------------------------------------------
(* The coordinator: one line of input. *)

\* Slip: the answers of running workers are not counted.
HasRoomForQueued ==
    /\ waitingBytes + writing.bytes + MaxLine <= MaxQueuedBytes
    /\ Len(waiting) + 1 < MaxQueuedMessages

\* Every worker that runs may answer with a whole line.
HasRoom ==
    /\ waitingBytes + Cardinality(pending) * MaxLine + writing.bytes + MaxLine
           <= MaxQueuedBytes
    /\ Len(waiting) + Cardinality(pending) + 1 < MaxQueuedMessages

NextLine == IF held # NoLine THEN held ELSE IF input # <<>> THEN Head(input) ELSE NoLine

\* Slip: an identifier is thought free as soon as its answer left the queue.
AwaitsNothing(line) == FALSE

\* A client can have read the answer being written, and use its identifier again.
AwaitsDelivery(line) ==
    /\ line.kind \in Requests
    /\ writing.kind = "response" /\ writing.id = line.id

\* No line is taken: input is over, or there is no room, or nothing has come.
PassIntake ==
    /\ GoesOn
    /\ step' = "write"
    /\ \/ inputEnded /\ UNCHANGED <<pressured, elapsed>>
       \/ ~inputEnded /\ ~HasRoom /\ pressured' = TRUE /\ UNCHANGED elapsed
       \/ /\ ~inputEnded /\ HasRoom /\ NextLine = NoLine
          /\ pressured' = FALSE /\ elapsed' = elapsed \ {"pressure"}
    /\ UNCHANGED <<clientVars, requestVars, workerVars, outputVars, streamVars, held, inputEnded,
                   phase>>

\* The next line leaves the mailbox, or the place where it was held.
Take(line) ==
    /\ GoesOn /\ step' = "write"
    /\ ~inputEnded /\ HasRoom
    /\ pressured' = FALSE /\ elapsed' = elapsed \ {"pressure"}
    /\ input' = IF held = NoLine THEN Tail(input) ELSE input
    /\ UNCHANGED <<client, sends, streamVars, completions, phase>>

Hold(line) ==
    /\ Take(line) /\ AwaitsDelivery(line)
    /\ held' = line
    /\ UNCHANGED <<requestVars, running, outputVars, inputEnded>>

Dispatch(line) ==
    /\ Take(line) /\ ~AwaitsDelivery(line)
    /\ held' = NoLine

\* The refusal repeats no identifier, so it fits a line.
Unreadable(line, bytes) ==
    /\ line.kind \in {"unreadable", "tooLong"}
    /\ Dispatch(line)
    /\ bytes <= MaxLine
    /\ Enqueue([kind |-> "unreadable", id |-> NoIdentifier, bytes |-> bytes])
    /\ inputEnded' = (line.kind = "tooLong")
    /\ UNCHANGED <<requestVars, running>>

End(line) ==
    /\ line.kind = "end"
    /\ Dispatch(line)
    /\ inputEnded' = TRUE
    /\ UNCHANGED <<requestVars, running, outputVars>>

Initialized(line) ==
    /\ line.kind = "initialized"
    /\ Dispatch(line)
    /\ lifecycle' = IF lifecycle = "Offered" THEN "Ready" ELSE lifecycle
    /\ UNCHANGED <<active, pending, flagged, running, outputVars, inputEnded>>

\* Slip: the registry is told of any cancellation, answered requests included.
CancelledAnyway(line) ==
    /\ line.kind = "cancel"
    /\ Dispatch(line)
    /\ flagged' = flagged \cup (pending \cap {line.id})
    /\ active' = [active EXCEPT ![line.id] = IF @ = "none" THEN @ ELSE "Cancelling"]
    /\ UNCHANGED <<lifecycle, pending, running, outputVars, inputEnded>>

\* A request that was answered is past cancelling.
Cancelled(line) ==
    /\ line.kind = "cancel"
    /\ Dispatch(line)
    /\ IF line.id \in pending
       THEN /\ flagged' = flagged \cup {line.id}
            /\ active' = [active EXCEPT ![line.id] = "Cancelling"]
       ELSE UNCHANGED <<flagged, active>>
    /\ UNCHANGED <<lifecycle, pending, running, outputVars, inputEnded>>

Refusal(i) ==
    IF active[i] # "none" THEN "duplicate"
    ELSE IF Cardinality({j \in Identifiers : active[j] # "none"}) >= MaxActive THEN "saturated"
    ELSE "none"

\* The reservation comes first; what it refuses touches nothing else.
Refused(line, bytes) ==
    /\ line.kind \in Requests
    /\ Dispatch(line)
    /\ Refusal(line.id) # "none"
    /\ Enqueue([kind |-> Refusal(line.id), id |-> line.id, bytes |-> bytes])
    /\ UNCHANGED <<requestVars, running, inputEnded>>

Answered(i, bytes) ==
    /\ active' = [active EXCEPT ![i] = "Answered"]
    /\ Enqueue(Response(i, bytes))

\* Requests the coordinator answers itself; the first initialize changes the era.
Requested(line, bytes) ==
    /\ line.kind \in {"control", "initialize"}
    /\ Dispatch(line)
    /\ Refusal(line.id) = "none"
    /\ Answered(line.id, bytes)
    /\ lifecycle' = IF line.kind = "initialize" THEN "Offered" ELSE lifecycle
    /\ UNCHANGED <<pending, flagged, running, inputEnded>>

\* The older era looks at the handshake. The stateless one looks at the revision the
\* call names: a call that names another is among those DeferSettled answers.
Actionable == lifecycle \in {"Fresh", "Ready"}

\* A call refused by its era, for want of a worker, or whose thread did not start.
DeferSettled(line, bytes) ==
    /\ line.kind = "call"
    /\ Dispatch(line)
    /\ Refusal(line.id) = "none"
    /\ Answered(line.id, bytes)
    /\ UNCHANGED <<lifecycle, pending, flagged, running, inputEnded>>

Defer(line) ==
    /\ line.kind = "call"
    /\ Dispatch(line)
    /\ Refusal(line.id) = "none"
    /\ Actionable /\ Cardinality(pending) < MaxWorkers
    /\ active' = [active EXCEPT ![line.id] = "Reserved"]
    /\ pending' = pending \cup {line.id}
    /\ running' = running \cup {line.id}
    /\ UNCHANGED <<lifecycle, flagged, outputVars, inputEnded>>

-----------------------------------------------------------------------------
(* The coordinator: one line of output, and whether that was all. *)

\* Slip: a call still with its worker does not keep the session open.
DrainedOfLines == inputEnded /\ waiting = <<>> /\ writing = NoLine

Drained ==
    /\ inputEnded
    /\ \A i \in Identifiers : active[i] = "none"
    /\ waiting = <<>> /\ writing = NoLine

\* The line is the writer's before it is delivered.
TakeNext ==
    /\ waiting' = Tail(waiting)
    /\ waitingBytes' = waitingBytes - Head(waiting).bytes

StartWrite ==
    /\ At("write") /\ writing = NoLine /\ waiting # <<>>
    /\ writing' = Head(waiting) /\ writer' = "busy"
    /\ TakeNext
    /\ step' = "deliver"
    /\ UNCHANGED <<clientVars, requestVars, workerVars, failure, intakeVars, elapsed, phase>>

NoWrite ==
    /\ At("write") /\ (writing # NoLine \/ waiting = <<>>)
    /\ step' = "deliver"
    /\ IF Drained
       THEN Finish("drained")
       ELSE UNCHANGED <<phase, outputVars, flagged, pending, active>>
    /\ UNCHANGED <<clientVars, lifecycle, workerVars, streamVars, intakeVars, elapsed>>

Intake ==
    \/ PassIntake
    \/ \E line \in {NextLine} \ {NoLine} :
          \/ Hold(line)
          \/ End(line)
          \/ Initialized(line)
          \/ Cancelled(line)
          \/ Defer(line)
          \/ \E bytes \in Bytes :
                \/ Unreadable(line, bytes)
                \/ Refused(line, bytes)
                \/ Requested(line, bytes)
                \/ DeferSettled(line, bytes)

Coordinator ==
    ReceiveDelivery \/ Completed \/ GiveUp \/ Intake \/ StartWrite \/ NoWrite

Next ==
    \/ Coordinator
    \/ Interrupted
    \/ \E line \in Inputs : Send(line)
    \/ \E i \in Identifiers, bytes \in Bytes : WorkerReports(i, bytes)
    \/ WriterWrites
    \/ \E outcome \in {"Complete", "Expired", "Refused"} : WriterReports(outcome)
    \/ \E deadline \in {"write", "shutdown", "pressure"} : Elapse(deadline)

\* The coordinator polls and time passes. Workers, the writer and the client owe nothing.
Fairness ==
    /\ WF_vars(Coordinator)
    /\ \A deadline \in {"write", "shutdown", "pressure"} : WF_vars(Elapse(deadline))

Spec == Init /\ [][Next]_vars /\ Fairness

-----------------------------------------------------------------------------
(* Properties. *)

OnTheWay(i) ==
    Cardinality({k \in DOMAIN waiting : waiting[k].kind = "response" /\ waiting[k].id = i})
        + (IF writing.kind = "response" /\ writing.id = i THEN 1 ELSE 0)

(* An identifier names one thing at a time: a worker while it is reserved or   *)
(* being cancelled, the one answer on its way once it is answered, and nothing  *)
(* when a client may use it again (active_request_registry.rs, acknowledged and  *)
(* cancelled). Two answers under one identifier could not be told apart.         *)
IdentifierNamesOneThing ==
    failure = "none" =>
        \A i \in Identifiers :
            /\ OnTheWay(i) = IF active[i] = "Answered" THEN 1 ELSE 0
            /\ i \in pending <=> active[i] \in {"Reserved", "Cancelling"}
            /\ i \in flagged <=> active[i] = "Cancelling"

(* The bytes that wait are counted as lines come and go, and never added up    *)
(* anew (standard_stream_transport.rs, enqueue_line, take_next and fail).         *)
BytesAreCounted ==
    \E sum \in [0 .. Len(waiting) -> 0 .. MaxQueuedBytes] :
        /\ sum[0] = 0 /\ sum[Len(waiting)] = waitingBytes
        /\ \A k \in 1 .. Len(waiting) : sum[k] = sum[k - 1] + waiting[k].bytes

RoomIsLeft ==
    phase = "serving" =>
        /\ waitingBytes + Cardinality(pending) * MaxLine + writing.bytes
               <= MaxQueuedBytes
        /\ Len(waiting) + Cardinality(pending) <= MaxQueuedMessages

(* Answers of running workers, queued answers and the answer being written     *)
(* share the output budget (process_session.rs, has_room), so that a worker     *)
(* that comes back never finds the queue full, which would end the session.     *)
(* The running count by which the budget is measured does not drift from the     *)
(* lines that wait, whatever is written, refused or given up.                    *)
RoomIsReserved == RoomIsLeft /\ BytesAreCounted

(* A client that uses an identifier again only after it read the answer is     *)
(* never told that the identifier is in use (process_session.rs,                *)
(* awaits_delivery), however late the coordinator learns of the delivery.       *)
NoFalseDuplicate ==
    \A k \in DOMAIN waiting :
        waiting[k].kind = "duplicate" => client[waiting[k].id] = "spoiled"

(* A session that ends because its input ended and everything is settled       *)
(* leaves no request it read without its answer (process_session.rs, the last   *)
(* condition of step).  Not followed: what the client withdrew, and identifiers *)
(* it used again while they waited; behind an oversized line nothing is read.   *)
DrainAnswersEverything ==
    phase = "drained" => \A i \in Identifiers : client[i] # "open"

(* Once input has ended the session ends, though workers never report and the  *)
(* writer is stuck in a write (process_session.rs, expired).                    *)
InputEndEndsSession == inputEnded ~> phase # "serving"
=============================================================================
