------------------------ MODULE AgentSubscriptionProofs ------------------------
(***************************************************************************)
(* What one subscription promises for every set of jobs and every bound:   *)
(* the position never passes an event that an open operation has not       *)
(* taken, an operation is settled only by its author's word, and what is   *)
(* known of a job only grows.                                              *)
(***************************************************************************)
EXTENDS AgentSubscription, FiniteSetTheorems, SequenceTheorems, TLAPS

(* The record types of TypeOK, by name.                                    *)
Places == {"idle", "streaming", "folding", "terminal", "answered",
           "capturing", "looking", "handoff"}
Event  == [job : Jobs, seq : 1..MaxEvents, ends : BOOLEAN]
Answer == [seq : 0..MaxEvents, ends : BOOLEAN, mark : 0..MaxEvents]
Ledger == [there : BOOLEAN, cursor : 0..MaxEvents, digest : BOOLEAN \cup {None},
           incident : BOOLEAN, rows : 0..EventRows, events : SUBSET (0..MaxEvents)]
Child  == [state : {"none", "open", "ended"}, applied : 0..MaxEvents]
Row    == [state : {"open", "removed"} \cup Ended, revision : 0..MaxRevision]

(* The author's stream: only jobs it was given, numbered in order, nothing *)
(* after an ending.                                                        *)
AuthorInv ==
    /\ log \in Seq(Event) /\ Len(log) <= MaxEvents /\ sent \subseteq Jobs
    /\ \A j \in Jobs : \A i \in EventsOf(j) : j \in sent /\ log[i].seq <= Reported(j)
    /\ \A j \in Jobs : \A i, k \in EventsOf(j) :
          i < k => log[i].seq < log[k].seq /\ ~log[i].ends

(* What the author said of job j at some time.                             *)
AnswerOK(j, a) ==
    /\ a \in Answer /\ a.seq <= Reported(j) /\ a.mark <= Len(log)
    /\ a.ends => Finished(j)
    /\ \A i \in EventsOf(j) : i <= a.mark => log[i].seq <= a.seq
    /\ ~a.ends => \A i \in EventsOf(j) : log[i].ends => a.seq < log[i].seq

(* The position is one the author has reached; as many events are kept as  *)
(* are counted (SubscriptionLedgerRow).                                    *)
LedgerInv ==
    /\ ledger \in Ledger /\ ledger.cursor <= Len(log)
    /\ Cardinality(ledger.events) <= ledger.rows

(* The last position the attachment has folded, or passed over.            *)
Reach == CASE consumer.at = "streaming" -> consumer.pos
           [] consumer.at = "folding" -> consumer.pos - 1
           [] OTHER -> 0

(* An operation whose end is not known on either side.                     *)
Open(j) == child[j].state = "open" /\ row[j].state = "open"

(* What holds of one job: its request goes out once, an end on either side *)
(* is the author's, and while it is open the child holds every event that  *)
(* the ledger or the attachment has passed, and no ending.                 *)
JobOK(j) ==
    /\ child[j] \in Child /\ row[j] \in Row
    /\ row[j].state = "open" /\ (child[j].state = "none" \/ j \in scheduled) => j \notin sent
    /\ child[j].state = "ended" => row[j].state # "open" /\ Finished(j)
    /\ child[j].applied <= Reported(j)
    /\ Open(j) => \A i \in EventsOf(j) :
          /\ i <= ledger.cursor \/ i <= Reach => log[i].seq <= child[j].applied
          /\ log[i].ends => child[j].applied < log[i].seq

(* Answers that are held are the author's: in a reset they were asked for  *)
(* after the position was captured, and only a handoff holds an ending.    *)
ConsumerInv ==
    /\ consumer \in [at : Places, pos : 0..MaxEvents, forged : BOOLEAN, view : {consumer.view},
                     mark : 0..MaxEvents, answers : [Jobs -> {None} \cup Answer]]
    /\ consumer.pos <= Len(log) /\ consumer.mark <= Len(log)
    /\ consumer.at \in {"folding", "terminal", "answered"} => consumer.pos > 0
    /\ consumer.at = "capturing" => Answered = {}
    /\ consumer.at = "answered" => \A j \in Jobs :
          log[consumer.pos].job = j =>
             /\ consumer.answers[j] \in Answer
             /\ \A a \in Answer : consumer.answers[j] = a => AnswerOK(j, a)
    /\ \A j \in Jobs, a \in Answer : consumer.answers[j] = a /\ a # None =>
          /\ AnswerOK(j, a)
          /\ consumer.at = "looking" => ~a.ends /\ consumer.mark <= a.mark
          /\ consumer.at = "handoff" => a.ends

(* An answer to a lookup that is still on its way is the author's, and the *)
(* rows it was asked for are rows.                                         *)
LookupInv ==
    lookup # None =>
       /\ lookup \in [job : Jobs, answer : Answer, child : Child, row : Row]
       /\ \A j \in Jobs, a \in Answer : lookup.job = j /\ lookup.answer = a => AnswerOK(j, a)

(* The inductive invariant.                                                *)
SubInv ==
    /\ AuthorInv /\ LedgerInv /\ ConsumerInv /\ LookupInv /\ scheduled \subseteq Jobs
    /\ child \in [Jobs -> Child] /\ row \in [Jobs -> Row]
    /\ \A j \in Jobs : JobOK(j)

-----------------------------------------------------------------------------
(* The author's stream.                                                    *)

(* The events of a job are among the positions of the stream.              *)
LEMMA EventsFacts ==
    ASSUME log \in Seq(Event), NEW j
    PROVE  /\ Len(log) \in Nat /\ DOMAIN log = 1..Len(log)
           /\ EventsOf(j) \subseteq 1..Len(log) /\ IsFiniteSet(EventsOf(j))
           /\ Reported(j) \in Nat /\ Reported(j) <= Len(log)
<1>1. Len(log) \in Nat /\ DOMAIN log = 1..Len(log) BY LenProperties
<1>2. EventsOf(j) \subseteq 1..Len(log) BY <1>1 DEF EventsOf
<1>3. IsFiniteSet(1..Len(log)) /\ Cardinality(1..Len(log)) = Len(log)
  BY <1>1, FS_Interval
<1>4. IsFiniteSet(EventsOf(j)) /\ Cardinality(EventsOf(j)) <= Cardinality(1..Len(log))
  BY <1>2, <1>3, FS_Subset
<1>5. Cardinality(EventsOf(j)) \in Nat BY <1>4, FS_CardinalityType
<1> QED BY <1>1, <1>2, <1>3, <1>4, <1>5 DEF Reported

(* An event of the stream is typed, and one of its job's.                  *)
LEMMA EventFacts ==
    ASSUME log \in Seq(Event), NEW i \in 1..Len(log)
    PROVE  /\ log[i] \in Event /\ i \in Nat
           /\ log[i].job \in Jobs /\ log[i].seq \in Nat /\ log[i].ends \in BOOLEAN
           /\ i \in EventsOf(log[i].job)
<1>1. log[i] \in Event BY ElementOfSeq
<1>2. Len(log) \in Nat /\ DOMAIN log = 1..Len(log) BY LenProperties
<1> QED BY <1>1, <1>2, BoundsAssumption DEF Event, EventsOf

(* What the author says next leaves what it has said.                      *)
LEMMA EmitFacts ==
    ASSUME AuthorInv, NEW j \in Jobs, NEW ends \in BOOLEAN, Emit(j, ends)
    PROVE  /\ AuthorInv'
           /\ Len(log') = Len(log) + 1
           /\ \A i \in 1..Len(log) : log'[i] = log[i]
           /\ log'[Len(log) + 1] = [job |-> j, seq |-> Reported(j) + 1, ends |-> ends]
           /\ \A k : EventsOf(k)' = IF k = j THEN EventsOf(k) \cup {Len(log) + 1} ELSE EventsOf(k)
           /\ \A k : Reported(k)' = IF k = j THEN Reported(k) + 1 ELSE Reported(k)
<1> DEFINE n == Len(log) + 1
           e == [job |-> j, seq |-> Reported(j) + 1, ends |-> ends]
<1>1. /\ log \in Seq(Event) /\ Len(log) \in Nat /\ DOMAIN log = 1..Len(log)
      /\ \A k : /\ EventsOf(k) \subseteq 1..Len(log) /\ IsFiniteSet(EventsOf(k))
                /\ Reported(k) \in Nat /\ Reported(k) <= Len(log)
  BY EventsFacts DEF AuthorInv
<1>2. /\ j \in sent /\ ~Finished(j) /\ Len(log) < MaxEvents /\ log' = Append(log, e) /\ sent' = sent
  BY DEF Emit
<1>3. e \in Event BY <1>1, <1>2, BoundsAssumption DEF Event
<1>4. /\ log' \in Seq(Event) /\ Len(log') = n /\ log'[n] = e
      /\ \A i \in 1..Len(log) : log'[i] = log[i]
  <2> HIDE DEF e
  <2> QED BY <1>1, <1>2, <1>3, AppendProperties
<1>5. DOMAIN log' = 1..n /\ n \in Nat /\ n \notin 1..Len(log) /\ 1..n = 1..Len(log) \cup {n}
  BY <1>1, <1>4, LenProperties
<1>6. ASSUME NEW k PROVE EventsOf(k)' = IF k = j THEN EventsOf(k) \cup {n} ELSE EventsOf(k)
  <2>1. EventsOf(k)' = {i \in 1..n : log'[i].job = k} BY <1>5 DEF EventsOf
  <2>2. EventsOf(k) = {i \in 1..Len(log) : log[i].job = k} BY <1>1 DEF EventsOf
  <2>3. log'[n].job = j BY <1>4
  <2> HIDE DEF n, e
  <2> QED BY <1>4, <1>5, <2>1, <2>2, <2>3
<1>7. ASSUME NEW k PROVE Reported(k)' = IF k = j THEN Reported(k) + 1 ELSE Reported(k)
  <2>1. n \notin EventsOf(k) BY <1>1, <1>5
  <2>2. Cardinality(EventsOf(k) \cup {n}) = Cardinality(EventsOf(k)) + 1
    BY <1>1, <2>1, FS_AddElement
  <2> HIDE DEF n
  <2> QED BY <1>6, <2>2 DEF Reported
<1> HIDE DEF n
<1>8. ASSUME NEW k \in Jobs, NEW i \in EventsOf(k)'
      PROVE  \/ i \in EventsOf(k) /\ i \in 1..Len(log) /\ log'[i] = log[i] /\ log[i].seq \in Nat
             \/ k = j /\ i = n
  BY <1>1, <1>4, <1>6, <1>8, EventFacts
<1>9. ASSUME NEW k \in Jobs, NEW i \in EventsOf(k)'
      PROVE  k \in sent' /\ log'[i].seq <= Reported(k)'
  <2>1. CASE k = j /\ i = n BY <1>1, <1>2, <1>4, <1>7, <2>1
  <2>2. CASE i \in EventsOf(k) /\ log'[i] = log[i] /\ log[i].seq \in Nat
    <3>1. k \in sent /\ log[i].seq <= Reported(k) BY <2>2 DEF AuthorInv
    <3> QED BY <1>1, <1>2, <1>7, <2>2, <3>1
  <2> QED BY <1>8, <1>9, <2>1, <2>2
<1>10. ASSUME NEW k \in Jobs, NEW i \in EventsOf(k)', NEW m \in EventsOf(k)', i < m
       PROVE  log'[i].seq < log'[m].seq /\ ~log'[i].ends
  <2>1. n \in Nat /\ \A x \in 1..Len(log) : x < n BY <1>1 DEF n
  <2>2. /\ i \in EventsOf(k) /\ i \in 1..Len(log) /\ log'[i] = log[i] /\ log[i].seq \in Nat
        /\ log[i].seq <= Reported(k)
    BY <1>1, <1>8, <1>10, <2>1 DEF AuthorInv
  <2>3. CASE k = j /\ m = n
    <3>1. ~log[i].ends BY <1>2, <2>2, <2>3 DEF Finished
    <3> QED BY <1>1, <1>4, <2>2, <2>3, <3>1
  <2>4. CASE m \in EventsOf(k) /\ log'[m] = log[m]
    BY <1>10, <2>2, <2>4 DEF AuthorInv
  <2> QED BY <1>8, <1>10, <2>3, <2>4
<1>11. Len(log') <= MaxEvents BY <1>1, <1>2, <1>4, BoundsAssumption DEF n
<1>12. AuthorInv' BY <1>2, <1>4, <1>9, <1>10, <1>11 DEF AuthorInv
<1> QED BY <1>4, <1>6, <1>7, <1>12 DEF n

(* A job that has ended has not unended.                                   *)
LEMMA EmitKeepsEnd ==
    ASSUME AuthorInv, NEW j \in Jobs, NEW ends \in BOOLEAN, Emit(j, ends), NEW k, Finished(k)
    PROVE  Finished(k)'
<1>1. PICK i \in EventsOf(k) : log[i].ends BY DEF Finished
<1>2. i \in 1..Len(log) BY EventsFacts DEF AuthorInv
<1>3. i \in EventsOf(k)' /\ log'[i] = log[i] BY <1>2, EmitFacts
<1> QED BY <1>1, <1>3 DEF Finished

(* An answer stays true of what the author had said.                       *)
LEMMA EmitKeepsAnswer ==
    ASSUME AuthorInv, NEW j \in Jobs, NEW ends \in BOOLEAN, Emit(j, ends),
           NEW k, NEW a, AnswerOK(k, a)
    PROVE  AnswerOK(k, a)'
<1>1. /\ Len(log) \in Nat /\ EventsOf(k) \subseteq 1..Len(log) /\ Reported(k) \in Nat
      /\ a \in Answer /\ a.seq \in Nat /\ a.mark \in Nat
  BY EventsFacts, BoundsAssumption DEF AuthorInv, AnswerOK, Answer
<1>2. a.ends => Finished(k)' BY EmitKeepsEnd DEF AnswerOK
<1>3. ASSUME NEW i \in EventsOf(k)'
      PROVE  \/ i \in EventsOf(k) /\ log'[i] = log[i] /\ log[i].seq \in Nat
             \/ i = Len(log) + 1 /\ log'[i].seq = Reported(k) + 1
  <2>1. CASE i \in EventsOf(k)
    BY <1>1, <2>1, EmitFacts, EventFacts DEF AuthorInv
  <2>2. CASE i \notin EventsOf(k)
    <3>1. EventsOf(k)' = IF k = j THEN EventsOf(k) \cup {Len(log) + 1} ELSE EventsOf(k)
      BY EmitFacts
    <3>2. k = j /\ i = Len(log) + 1 BY <1>3, <2>2, <3>1
    <3>3. log'[Len(log) + 1] = [job |-> j, seq |-> Reported(j) + 1, ends |-> ends] BY EmitFacts
    <3> QED BY <3>2, <3>3
  <2> QED BY <2>1, <2>2
<1>4. \A i \in EventsOf(k)' : i <= a.mark => log'[i].seq <= a.seq
  BY <1>1, <1>3 DEF AnswerOK
<1>5. ~a.ends => \A i \in EventsOf(k)' : log'[i].ends => a.seq < log'[i].seq
  BY <1>1, <1>3 DEF AnswerOK
<1>6. a.seq <= Reported(k)' /\ a.mark <= Len(log')
  <2>1. a.seq <= Reported(k) /\ a.mark <= Len(log) BY DEF AnswerOK
  <2>2. Len(log') = Len(log) + 1 BY EmitFacts
  <2>3. Reported(k)' \in {Reported(k), Reported(k) + 1} BY EmitFacts
  <2> QED BY <1>1, <2>1, <2>2, <2>3
<1> QED BY <1>1, <1>2, <1>4, <1>5, <1>6 DEF AnswerOK, Answer

(* A lookup says what the author has said.                                 *)
LEMMA SnapshotFacts ==
    ASSUME AuthorInv, NEW j \in Jobs
    PROVE  AnswerOK(j, Snapshot(j))
<1>1. /\ log \in Seq(Event) /\ Len(log) \in Nat /\ Len(log) <= MaxEvents
      /\ EventsOf(j) \subseteq 1..Len(log)
      /\ Reported(j) \in Nat /\ Reported(j) <= Len(log)
  BY EventsFacts DEF AuthorInv
<1>2. Snapshot(j) \in Answer BY <1>1, BoundsAssumption DEF Snapshot, Answer, Finished
<1>3. \A i \in EventsOf(j) : log[i].seq <= Reported(j) BY DEF AuthorInv
<1>4. /\ Snapshot(j).seq = Reported(j) /\ Snapshot(j).ends = Finished(j)
      /\ Snapshot(j).mark = Len(log)
  BY DEF Snapshot
<1>5. ~Finished(j) => \A i \in EventsOf(j) : ~log[i].ends BY DEF Finished
<1> QED BY <1>1, <1>2, <1>3, <1>4, <1>5 DEF AnswerOK

-----------------------------------------------------------------------------
(* Jobs.                                                                   *)

(* What depends on the stream alone.                                       *)
LEMMA SameLog ==
    ASSUME log' = log
    PROVE  \A j : /\ EventsOf(j)' = EventsOf(j) /\ Reported(j)' = Reported(j)
                  /\ Finished(j)' <=> Finished(j)
                  /\ \A a : AnswerOK(j, a)' <=> AnswerOK(j, a)
<1> TAKE j
<1>1. EventsOf(j)' = EventsOf(j) BY DEF EventsOf
<1>2. Reported(j)' = Reported(j) BY <1>1 DEF Reported
<1>3. Finished(j)' <=> Finished(j) BY <1>1 DEF Finished
<1> QED BY <1>1, <1>2, <1>3 DEF AnswerOK, Answer

(* A job whose child is kept.                                              *)
LEMMA JobKept ==
    ASSUME log' = log, NEW j \in Jobs, JobOK(j),
           child'[j] = child[j], row'[j] \in Row, row'[j].state = "open" => row[j].state = "open",
           row[j].state = "open" /\ (child[j].state = "none" \/ j \in scheduled') => j \notin sent',
           Open(j) => \A i \in EventsOf(j) :
               i <= ledger'.cursor \/ i <= Reach' => log[i].seq <= child[j].applied
    PROVE  JobOK(j)'
<1>1. /\ EventsOf(j)' = EventsOf(j) /\ Reported(j)' = Reported(j)
      /\ Finished(j)' <=> Finished(j)
  BY SameLog
<1>2. Open(j)' => Open(j) BY DEF Open
<1> HIDE DEF Open
<1> QED BY <1>1, <1>2 DEF JobOK, Child, Row

(* A job that ends by its author's word.                                   *)
LEMMA JobSettled ==
    ASSUME log' = log, NEW j \in Jobs, NEW a \in Answer, AnswerOK(j, a), a.ends,
           child'[j] = [state |-> "ended", applied |-> a.seq],
           row'[j] \in Row, row'[j].state = "settled"
    PROVE  JobOK(j)'
<1>1. /\ EventsOf(j)' = EventsOf(j) /\ Reported(j)' = Reported(j)
      /\ Finished(j)' <=> Finished(j)
  BY SameLog
<1> QED BY <1>1 DEF JobOK, Open, AnswerOK, Answer, Child, Row

(* A job whose child is removed with or after its row.                     *)
LEMMA JobRemoved ==
    ASSUME log' = log, log \in Seq(Event), NEW j \in Jobs, child'[j] = NoChild,
           row'[j] \in Row, row'[j].state # "open"
    PROVE  JobOK(j)'
<1>1. Reported(j)' = Reported(j) /\ Reported(j) \in Nat BY SameLog, EventsFacts
<1> QED BY <1>1, BoundsAssumption DEF JobOK, Open, NoChild, Child, Row

(* A job whose child takes an answer.                                      *)
LEMMA JobCaught ==
    ASSUME log' = log, sent' = sent, scheduled' = scheduled, NEW j \in Jobs, JobOK(j),
           NEW a \in Answer, AnswerOK(j, a), ~a.ends,
           child'[j] = Caught(j, a), row'[j] = row[j],
           Open(j) => \A i \in EventsOf(j) :
               i <= ledger'.cursor \/ i <= Reach' => log[i].seq <= a.seq
    PROVE  JobOK(j)'
<1>1. /\ EventsOf(j)' = EventsOf(j) /\ Reported(j)' = Reported(j)
      /\ Finished(j)' <=> Finished(j)
  BY SameLog
<1>2. child'[j] \in Child /\ child'[j].state = child[j].state /\ child'[j].applied = a.seq
  BY DEF JobOK, Caught, Child, Answer
<1>3. Open(j)' <=> Open(j) BY <1>2 DEF Open
<1>4. a.seq <= Reported(j) /\ \A i \in EventsOf(j) : log[i].ends => a.seq < log[i].seq
  BY DEF AnswerOK
<1> HIDE DEF Open
<1> QED BY <1>1, <1>2, <1>3, <1>4 DEF JobOK, Row

-----------------------------------------------------------------------------
(* The parts of the invariant that a step leaves.                          *)

(* The author says nothing.                                                *)
LEMMA AuthorKept ==
    ASSUME AuthorInv, log' = log, sent \subseteq sent', sent' \subseteq Jobs
    PROVE  AuthorInv'
<1>1. \A j : EventsOf(j)' = EventsOf(j) /\ Reported(j)' = Reported(j) BY SameLog
<1> QED BY <1>1 DEF AuthorInv, Event

(* The ledger row is not written.                                          *)
LEMMA LedgerKept ==
    ASSUME LedgerInv, log' = log, ledger' = ledger
    PROVE  LedgerInv'
BY DEF LedgerInv, Ledger

(* A lookup stays on its way, or is gone.                                  *)
LEMMA LookupKept ==
    ASSUME LookupInv, log' = log, lookup' = lookup \/ lookup' = None
    PROVE  LookupInv'
<1>1. \A j, a : AnswerOK(j, a)' <=> AnswerOK(j, a) BY SameLog
<1> QED BY <1>1 DEF LookupInv, Answer, Child, Row

(* The attachment does not move.                                           *)
LEMMA ConsumerKept ==
    ASSUME ConsumerInv, log' = log, consumer' = consumer
    PROVE  ConsumerInv' /\ Reach' = Reach
<1>1. \A j, a : AnswerOK(j, a)' <=> AnswerOK(j, a) BY SameLog
<1>2. Reach' = Reach BY DEF Reach
<1> QED BY <1>1, <1>2 DEF ConsumerInv, Answer, Answered

(* An attachment that is over holds nothing.                               *)
LEMMA ConsumerRests ==
    ASSUME log' \in Seq(Event), consumer' = Idle
    PROVE  ConsumerInv' /\ Reach' = 0
<1>1. Len(log') \in Nat BY LenProperties
<1>2. Reach' = 0 BY DEF Reach, Idle
<1>3. Answered' = {} BY DEF Answered, Idle
<1>4. consumer'.answers = [j \in Jobs |-> None] /\ consumer'.at = "idle" BY DEF Idle
<1>5. consumer' \in [at : Places, pos : 0..MaxEvents, forged : BOOLEAN, view : {consumer'.view},
                     mark : 0..MaxEvents, answers : [Jobs -> {None} \cup Answer]]
  BY BoundsAssumption DEF Idle, Places
<1>6. consumer'.pos = 0 /\ consumer'.mark = 0 BY DEF Idle
<1> QED BY <1>1, <1>2, <1>3, <1>4, <1>5, <1>6 DEF ConsumerInv, Answer

(* The position the attachment has come to is one of the stream.           *)
LEMMA ReachFacts ==
    ASSUME ConsumerInv, log \in Seq(Event)
    PROVE  Reach \in Nat /\ consumer.pos \in Nat
<1>1. consumer.pos \in Nat /\ (consumer.at = "folding" => consumer.pos > 0)
  BY BoundsAssumption DEF ConsumerInv
<1> QED BY <1>1 DEF Reach

(* A step of the attachment that goes no further than the ledger or it had *)
(* been.                                                                   *)
LEMMA ConsumerMoves ==
    ASSUME SubInv, UNCHANGED <<author, records, scheduled, lookup>>, ConsumerInv',
           Reach' \in Nat, Reach' <= ledger.cursor \/ Reach' <= Reach
    PROVE  SubInv'
<1>1. /\ log' = log /\ sent' = sent /\ ledger' = ledger /\ child' = child /\ row' = row
      /\ scheduled' = scheduled /\ lookup' = lookup
  BY DEF author, records
<1>2. AuthorInv' /\ LedgerInv' /\ LookupInv'
  BY <1>1, AuthorKept, LedgerKept, LookupKept DEF SubInv, AuthorInv
<1>3. ASSUME NEW j \in Jobs PROVE JobOK(j)'
  <2>1. JobOK(j) BY DEF SubInv
  <2>2. Reach \in Nat /\ ledger.cursor \in Nat
    BY ReachFacts, BoundsAssumption DEF SubInv, AuthorInv, LedgerInv, Ledger
  <2>3. EventsOf(j) \subseteq Nat BY EventsFacts DEF SubInv, AuthorInv
  <2>4. \A i \in EventsOf(j) : i <= ledger'.cursor \/ i <= Reach' => i <= ledger.cursor \/ i <= Reach
    BY <1>1, <2>2, <2>3
  <2> QED BY <1>1, <2>1, <2>4, JobKept DEF JobOK
<1> QED BY <1>1, <1>2, <1>3 DEF SubInv, Child, Row

(* What the invariant says of the numbers.                                 *)
LEMMA Basics ==
    ASSUME SubInv
    PROVE  /\ log \in Seq(Event) /\ Len(log) \in Nat /\ Len(log) <= MaxEvents /\ MaxEvents \in Nat
           /\ ledger \in Ledger /\ ledger.cursor \in Nat /\ ledger.cursor <= Len(log)
           /\ Reach \in Nat /\ consumer.pos \in Nat /\ consumer.pos <= Len(log)
           /\ sent \subseteq Jobs
           /\ \A j \in Jobs : EventsOf(j) \subseteq Nat \ {0}
BY ReachFacts, EventsFacts, BoundsAssumption DEF SubInv, AuthorInv, LedgerInv, Ledger, ConsumerInv

(* A job that a step leaves, while the ledger and the attachment stay or   *)
(* start again.                                                            *)
LEMMA JobStays ==
    ASSUME SubInv, UNCHANGED author, scheduled' \subseteq scheduled, NEW j \in Jobs,
           child'[j] = child[j], row'[j] \in Row, row'[j].state = "open" => row[j].state = "open",
           ledger'.cursor \in {ledger.cursor, 0}, Reach' \in {Reach, 0}
    PROVE  JobOK(j)'
<1>1. JobOK(j) BY DEF SubInv
<1>2. \A i \in EventsOf(j) : i <= ledger'.cursor \/ i <= Reach' => i <= ledger.cursor \/ i <= Reach
  BY Basics
<1>3. Open(j) => \A i \in EventsOf(j) :
               i <= ledger'.cursor \/ i <= Reach' => log[i].seq <= child[j].applied
  BY <1>1, <1>2 DEF JobOK
<1>4. row[j].state = "open" /\ (child[j].state = "none" \/ j \in scheduled') => j \notin sent'
  BY <1>1 DEF JobOK, author
<1> QED BY <1>1, <1>3, <1>4, JobKept DEF author

(* The invariant of a step that says nothing new for the author.           *)
LEMMA Together ==
    ASSUME SubInv, log' = log, sent \subseteq sent', sent' \subseteq Jobs,
           LedgerInv', ConsumerInv', LookupInv', scheduled' \subseteq Jobs,
           child' \in [Jobs -> Child], row' \in [Jobs -> Row], \A j \in Jobs : JobOK(j)'
    PROVE  SubInv'
<1>1. AuthorInv' BY AuthorKept DEF SubInv
<1> QED BY <1>1 DEF SubInv, Child, Row

-----------------------------------------------------------------------------
(* Operations are submitted.                                               *)

(* A ledger row is what its columns are.                                   *)
LEMMA LedgerRow ==
    ASSUME NEW there \in BOOLEAN, NEW cursor \in 0..MaxEvents, NEW digest \in BOOLEAN \cup {None},
           NEW incident \in BOOLEAN, NEW rows \in 0..EventRows, NEW events \in SUBSET (0..MaxEvents)
    PROVE  [there |-> there, cursor |-> cursor, digest |-> digest, incident |-> incident,
            rows |-> rows, events |-> events] \in Ledger
BY DEF Ledger

(* A row that has seen no event since its position.                        *)
LEMMA FreshRow ==
    ASSUME NEW there \in BOOLEAN, NEW cursor \in 0..MaxEvents, NEW rows \in 0..EventRows,
           NEW events \in SUBSET (0..MaxEvents)
    PROVE  [there |-> there, cursor |-> cursor, digest |-> None, incident |-> FALSE,
            rows |-> rows, events |-> events] \in Ledger
<1>1. PICK digest \in BOOLEAN \cup {None} : digest = None OBVIOUS
<1>2. PICK incident \in BOOLEAN : incident = FALSE OBVIOUS
<1>3. [there |-> there, cursor |-> cursor, digest |-> digest, incident |-> incident,
       rows |-> rows, events |-> events] \in Ledger
  BY LedgerRow
<1> QED BY <1>1, <1>2, <1>3, Zenon

(* A subscription that is opened, or gone.                                 *)
LEMMA EmptyLedger ==
    ASSUME log' \in Seq(Event), NEW there \in BOOLEAN,
           ledger' = [there |-> there, cursor |-> 0, digest |-> None, incident |-> FALSE,
                      rows |-> 0, events |-> {}]
    PROVE  LedgerInv' /\ ledger'.cursor = 0
<1>1. Len(log') \in Nat BY LenProperties
<1>2. ledger' \in Ledger
  <2>1. 0 \in 0..MaxEvents /\ 0 \in 0..EventRows BY BoundsAssumption
  <2>2. {} \in SUBSET (0..MaxEvents) OBVIOUS
  <2>3. [there |-> there, cursor |-> 0, digest |-> None, incident |-> FALSE,
         rows |-> 0, events |-> {}] \in Ledger
    BY <2>1, <2>2, FreshRow
  <2> QED BY <2>3, Zenon
<1>3. ledger'.cursor = 0 /\ ledger'.events = {} /\ ledger'.rows = 0 OBVIOUS
<1>4. Cardinality(ledger'.events) = 0
  <2>1. Cardinality({}) = 0 BY FS_EmptySet
  <2> QED BY <1>3, <2>1, Zenon
<1> QED BY <1>1, <1>2, <1>3, <1>4 DEF LedgerInv, Ledger

(* An operation is scheduled and its subscription opened                   *)
(* (open_subscription).                                                    *)
LEMMA ScheduleKeeps ==
    ASSUME SubInv, NEW j \in Jobs, Schedule(j)
    PROVE  SubInv'
<1>1. /\ log' = log /\ sent' = sent /\ child' = child /\ row' = row /\ consumer' = consumer
      /\ lookup' = lookup /\ scheduled' = scheduled \cup {j}
      /\ row[j].state = "open" /\ child[j].state = "none"
  BY DEF Schedule, author
<1>2. LookupInv' /\ ConsumerInv' /\ Reach' = Reach BY <1>1, LookupKept, ConsumerKept DEF SubInv
<1>3. LedgerInv' /\ ledger'.cursor \in {ledger.cursor, 0}
  <2>1. CASE ledger' = ledger BY <1>1, <2>1, LedgerKept DEF SubInv
  <2>2. CASE ledger' = [NoLedger EXCEPT !.there = TRUE]
    <3>1. ledger' = [there |-> TRUE, cursor |-> 0, digest |-> None, incident |-> FALSE,
                     rows |-> 0, events |-> {}]
      BY <2>2 DEF NoLedger
    <3> QED BY <1>1, <3>1, EmptyLedger, Basics
  <2> QED BY <2>1, <2>2 DEF Schedule
<1>4. ASSUME NEW k \in Jobs PROVE JobOK(k)'
  <2>1. JobOK(k) BY DEF SubInv
  <2>2. \A i \in EventsOf(k) : i <= ledger'.cursor \/ i <= Reach' => i <= ledger.cursor \/ i <= Reach
    BY <1>2, <1>3, Basics
  <2>3. row[k].state = "open" /\ (child[k].state = "none" \/ k \in scheduled') => k \notin sent'
    BY <1>1, <2>1 DEF JobOK
  <2> QED BY <1>1, <2>1, <2>2, <2>3, JobKept DEF JobOK
<1> QED BY <1>1, <1>2, <1>3, <1>4, Together, Basics DEF SubInv, Child, Row

(* The child is made and the command sent (schedule_invocation).           *)
LEMMA SubmitKeeps ==
    ASSUME SubInv, NEW j \in Jobs, Submit(j)
    PROVE  SubInv'
<1>1. /\ log' = log /\ sent' = sent \cup {j} /\ ledger' = ledger /\ row' = row
      /\ consumer' = consumer /\ lookup' = lookup /\ scheduled' = scheduled \ {j}
      /\ child' = [child EXCEPT ![j].state = "open"]
      /\ row[j].state = "open" /\ j \in scheduled
  BY DEF Submit
<1>2. LookupInv' /\ ConsumerInv' /\ Reach' = Reach /\ LedgerInv'
  BY <1>1, LookupKept, ConsumerKept, LedgerKept DEF SubInv
<1>3. /\ child' \in [Jobs -> Child] /\ child[j] \in Child /\ row' \in [Jobs -> Row]
      /\ child'[j].state = "open" /\ child'[j].applied = child[j].applied
      /\ \A k \in Jobs \ {j} : child'[k] = child[k]
  BY <1>1 DEF SubInv, Child
<1>4. JobOK(j)'
  <2>1. JobOK(j) /\ j \notin sent BY <1>1 DEF SubInv, JobOK
  <2>2. EventsOf(j) = {} BY <2>1 DEF SubInv, AuthorInv
  <2>3. EventsOf(j)' = {} /\ Reported(j)' = Reported(j) BY <1>1, <2>2, SameLog
  <2> QED BY <1>1, <1>3, <2>1, <2>3 DEF JobOK, Child, Row
<1>5. ASSUME NEW k \in Jobs, k # j PROVE JobOK(k)'
  <2>1. JobOK(k) BY DEF SubInv
  <2>2. row[k].state = "open" /\ (child[k].state = "none" \/ k \in scheduled') => k \notin sent'
    BY <1>1, <1>5, <2>1 DEF JobOK
  <2> QED BY <1>1, <1>2, <1>3, <1>5, <2>1, <2>2, JobKept DEF JobOK
<1>6. \A k \in Jobs : JobOK(k)' BY <1>4, <1>5
<1> QED BY <1>1, <1>2, <1>3, <1>6, Together, Basics DEF SubInv

(* The author reports progress or an ending.                               *)
LEMMA EmitKeeps ==
    ASSUME SubInv, NEW j \in Jobs, NEW ends \in BOOLEAN, Emit(j, ends)
    PROVE  SubInv'
<1>1. /\ AuthorInv /\ sent' = sent /\ ledger' = ledger /\ child' = child /\ row' = row
      /\ scheduled' = scheduled /\ consumer' = consumer /\ lookup' = lookup
  BY DEF Emit, SubInv, records
<1>2. AuthorInv' /\ Len(log') = Len(log) + 1 /\ Len(log) \in Nat
  BY <1>1, EmitFacts, Basics
<1>3. \A k, a : AnswerOK(k, a) => AnswerOK(k, a)' BY <1>1, EmitKeepsAnswer
<1>4. LookupInv' BY <1>1, <1>3 DEF SubInv, LookupInv, Answer, Child, Row
<1>5. LedgerInv' BY <1>1, <1>2, Basics DEF SubInv, LedgerInv, Ledger
<1>6. ConsumerInv'
  <2>1. consumer.pos <= Len(log') /\ consumer.mark <= Len(log')
    BY <1>2, BoundsAssumption DEF SubInv, ConsumerInv
  <2>2. consumer.at \in {"folding", "terminal", "answered"} => log'[consumer.pos] = log[consumer.pos]
    <3>1. ASSUME consumer.pos > 0 PROVE consumer.pos \in 1..Len(log)
      BY <3>1, Basics DEF SubInv, ConsumerInv
    <3>2. \A i \in 1..Len(log) : log'[i] = log[i] BY <1>1, EmitFacts
    <3> QED BY <3>1, <3>2 DEF SubInv, ConsumerInv
  <2> QED BY <1>1, <1>3, <2>1, <2>2 DEF SubInv, ConsumerInv, Answer, Answered
<1>7. ASSUME NEW k \in Jobs PROVE JobOK(k)'
  <2>1. JobOK(k) /\ child[k].applied \in Nat /\ Reported(k) \in Nat
    BY EventsFacts, BoundsAssumption DEF SubInv, JobOK, Child, AuthorInv
  <2>2. Reported(k)' \in {Reported(k), Reported(k) + 1} BY <1>1, EmitFacts
  <2>3. Finished(k) => Finished(k)' BY <1>1, EmitKeepsEnd
  <2>4. Reach' = Reach BY <1>1 DEF Reach
  <2>5. ASSUME NEW i \in EventsOf(k)'
        PROVE  \/ i \in EventsOf(k) /\ log'[i] = log[i]
               \/ i = Len(log) + 1 /\ log'[i].seq = Reported(k) + 1
    <3>1. CASE i \in EventsOf(k)
      <4>1. i \in 1..Len(log) BY <1>1, <3>1, EventsFacts DEF AuthorInv
      <4>2. \A m \in 1..Len(log) : log'[m] = log[m] BY <1>1, EmitFacts
      <4> QED BY <3>1, <4>1, <4>2
    <3>2. CASE i \notin EventsOf(k)
      <4>1. EventsOf(k)' = IF k = j THEN EventsOf(k) \cup {Len(log) + 1} ELSE EventsOf(k)
        BY <1>1, EmitFacts
      <4>2. k = j /\ i = Len(log) + 1 BY <2>5, <3>2, <4>1
      <4>3. log'[Len(log) + 1] = [job |-> j, seq |-> Reported(j) + 1, ends |-> ends]
        BY <1>1, EmitFacts
      <4> QED BY <4>2, <4>3
    <3> QED BY <3>1, <3>2
  <2>6. Reach <= Len(log)
    BY <1>2, Basics DEF Reach
  <2>7. ASSUME Open(k), NEW i \in EventsOf(k)'
        PROVE  /\ i <= ledger'.cursor \/ i <= Reach' => log'[i].seq <= child'[k].applied
               /\ log'[i].ends => child'[k].applied < log'[i].seq
    <3>1. CASE i \in EventsOf(k) /\ log'[i] = log[i]
      BY <1>1, <2>1, <2>4, <2>7, <3>1 DEF JobOK
    <3>2. CASE i = Len(log) + 1 /\ log'[i].seq = Reported(k) + 1
      <4>1. ~(i <= ledger'.cursor) /\ ~(i <= Reach') BY <1>1, <1>2, <2>4, <2>6, <3>2, Basics
      <4>2. child[k].applied < log'[i].seq BY <2>1, <3>2 DEF JobOK
      <4> QED BY <1>1, <4>1, <4>2
    <3> QED BY <2>5, <2>7, <3>1, <3>2
  <2>8. Open(k)' <=> Open(k) BY <1>1 DEF Open
  <2>9. child[k].applied <= Reported(k)' BY <2>1, <2>2 DEF JobOK
  <2> HIDE DEF Open
  <2> QED BY <1>1, <2>1, <2>3, <2>7, <2>8, <2>9 DEF JobOK, Child, Row
<1> QED BY <1>1, <1>2, <1>4, <1>5, <1>6, <1>7 DEF SubInv, Child, Row

-----------------------------------------------------------------------------
(* The attachment reads the stream.                                        *)

(* An attachment starts at a position the ledger has reached               *)
(* (attach_selected_events_with_authentication).                           *)
LEMMA AttachKeeps ==
    ASSUME SubInv, NEW p \in 0..MaxEvents, Attach(p)
    PROVE  SubInv'
<1>1. /\ UNCHANGED <<author, records, scheduled, lookup>> /\ p <= ledger.cursor /\ p \in Nat
      /\ consumer' = [Idle EXCEPT !.at = "streaming", !.pos = p]
  BY Basics DEF Attach
<1>2. consumer' = [at |-> "streaming", pos |-> p, forged |-> FALSE, view |-> None, mark |-> 0,
                   answers |-> [j \in Jobs |-> None]]
  BY <1>1 DEF Idle
<1>3. Reach' = p BY <1>2 DEF Reach
<1>4. Answered' = {} BY <1>2 DEF Answered
<1>5. consumer' \in [at : Places, pos : 0..MaxEvents, forged : BOOLEAN, view : {consumer'.view},
                     mark : 0..MaxEvents, answers : [Jobs -> {None} \cup Answer]]
  BY <1>2, BoundsAssumption DEF Places
<1>6. log' = log /\ p <= Len(log) BY <1>1, Basics DEF author
<1>7. ConsumerInv' BY <1>2, <1>4, <1>5, <1>6, Basics DEF ConsumerInv, Answer
<1> QED BY <1>1, <1>3, <1>7, ConsumerMoves

(* The next event of the stream is taken                                   *)
(* (attach_selected_events_with_authentication).                           *)
LEMMA ReceiveKeeps ==
    ASSUME SubInv, NEW forged \in BOOLEAN, Receive(forged)
    PROVE  SubInv'
<1>1. /\ UNCHANGED <<author, records, scheduled, lookup>>
      /\ consumer.at = "streaming" /\ consumer.pos < Len(log)
      /\ consumer' = [consumer EXCEPT !.at = "folding", !.pos = @ + 1,
                                      !.forged = forged, !.view = View]
  BY DEF Receive, Holds
<1>2. ConsumerInv BY DEF SubInv
<1>3. /\ consumer'.at = "folding" /\ consumer'.pos = consumer.pos + 1
      /\ consumer'.mark = consumer.mark /\ consumer'.answers = consumer.answers
      /\ consumer' \in [at : Places, pos : 0..MaxEvents, forged : BOOLEAN, view : {consumer'.view},
                     mark : 0..MaxEvents, answers : [Jobs -> {None} \cup Answer]]
  <2>1. consumer.pos + 1 \in 0..MaxEvents BY <1>1, Basics
  <2> QED BY <1>1, <1>2, <2>1 DEF ConsumerInv, Places
<1>4. Reach = consumer.pos BY <1>1 DEF Reach
<1>5. Reach' = consumer.pos BY <1>3, Basics DEF Reach
<1>6. log' = log BY <1>1 DEF author
<1>7. \A j, a : AnswerOK(j, a)' <=> AnswerOK(j, a) BY <1>6, SameLog
<1>8. ConsumerInv' BY <1>1, <1>2, <1>3, <1>6, <1>7, Basics DEF ConsumerInv, Answer
<1> QED BY <1>1, <1>4, <1>5, <1>8, Basics, ConsumerMoves

(* Whatever the attachment gives up, it starts again from nothing.         *)
LEMMA RestKeeps ==
    ASSUME SubInv, UNCHANGED <<author, records, scheduled, lookup>>, Rest
    PROVE  SubInv'
<1>1. log' \in Seq(Event) BY Basics DEF author
<1>2. ConsumerInv' /\ Reach' = 0 BY <1>1, ConsumerRests DEF Rest
<1> QED BY <1>2, Basics, ConsumerMoves

(* A step that changes only the place and what was read.                   *)
LEMMA PlaceKeeps ==
    ASSUME SubInv, UNCHANGED <<author, records, scheduled, lookup>>,
           NEW place \in {"terminal"}, consumer.at = "folding",
           consumer' = [consumer EXCEPT !.at = place, !.view = View]
    PROVE  SubInv'
<1>1. ConsumerInv BY DEF SubInv
<1>2. /\ consumer'.at = place /\ consumer'.pos = consumer.pos
      /\ consumer'.mark = consumer.mark /\ consumer'.answers = consumer.answers
      /\ consumer' \in [at : Places, pos : 0..MaxEvents, forged : BOOLEAN, view : {consumer'.view},
                     mark : 0..MaxEvents, answers : [Jobs -> {None} \cup Answer]]
  BY <1>1 DEF ConsumerInv, Places
<1>3. Reach' = 0 BY <1>2 DEF Reach
<1>4. log' = log BY DEF author
<1>5. \A j, a : AnswerOK(j, a)' <=> AnswerOK(j, a) BY <1>4, SameLog
<1>6. ConsumerInv' BY <1>1, <1>2, <1>4, <1>5 DEF ConsumerInv, Answer
<1> QED BY <1>3, <1>6, Basics, ConsumerMoves

(* A fold that goes back to the stream has reached its position.           *)
LEMMA StreamsFacts ==
    ASSUME SubInv, log' = log, consumer.at = "folding", Streams
    PROVE  ConsumerInv' /\ Reach' = consumer.pos
<1>1. ConsumerInv BY DEF SubInv
<1>2. /\ consumer'.at = "streaming" /\ consumer'.pos = consumer.pos
      /\ consumer'.mark = consumer.mark /\ consumer'.answers = consumer.answers
      /\ consumer' \in [at : Places, pos : 0..MaxEvents, forged : BOOLEAN, view : {consumer'.view},
                     mark : 0..MaxEvents, answers : [Jobs -> {None} \cup Answer]]
  BY <1>1 DEF ConsumerInv, Places, Streams
<1>3. Reach' = consumer.pos BY <1>2 DEF Reach
<1>4. \A j, a : AnswerOK(j, a)' <=> AnswerOK(j, a) BY SameLog
<1> QED BY <1>1, <1>2, <1>3, <1>4 DEF ConsumerInv, Answer

(* record_event_within keeps the ledger's count, and moves it to p or not  *)
(* at all.                                                                 *)
LEMMA RecordedFacts ==
    ASSUME LedgerInv, log \in Seq(Event), NEW p \in 1..MaxEvents, p <= Len(log), NEW d \in BOOLEAN,
           HasRoom(ledger, p, d), ledger' = Recorded(ledger, p, d), log' = log
    PROVE  /\ LedgerInv'
           /\ classify(ledger, p, d) = "advanced" => ledger'.cursor = p
           /\ classify(ledger, p, d) # "advanced" =>
                  ledger'.cursor = ledger.cursor /\ p <= ledger.cursor
<1>1. /\ ledger \in Ledger /\ ledger.cursor \in Nat /\ p \in Nat /\ ledger.rows \in Nat
      /\ EventRows \in Nat /\ ledger.cursor <= Len(log)
  BY BoundsAssumption DEF LedgerInv, Ledger
<1>2. classify(ledger, p, d) # "advanced" => p <= ledger.cursor
  BY <1>1 DEF classify
<1>3. CASE classify(ledger, p, d) = "advanced"
  <2>1. ledger' = Advanced(ledger, p, d) /\ ledger.rows < EventRows BY <1>3 DEF Recorded, HasRoom
  <2>2. /\ ledger' \in Ledger /\ ledger'.cursor = p /\ ledger'.rows = ledger.rows + 1
        /\ ledger'.events = ledger.events \cup {p}
    <3>1. ledger' = [there |-> ledger.there, cursor |-> p, digest |-> d,
                     incident |-> ledger.incident, rows |-> ledger.rows + 1,
                     events |-> ledger.events \cup {p}]
      BY <1>1, <2>1 DEF Advanced, Ledger
    <3>2. /\ p \in 0..MaxEvents /\ ledger.rows + 1 \in 0..EventRows
          /\ ledger.events \cup {p} \in SUBSET (0..MaxEvents)
      BY <1>1, <2>1 DEF Ledger
    <3>3. ledger.there \in BOOLEAN /\ ledger.incident \in BOOLEAN BY <1>1, Zenon DEF Ledger
    <3>4. ledger' \in Ledger BY <3>1, <3>2, <3>3, LedgerRow
    <3> QED BY <3>1, <3>4
  <2>3. Cardinality(ledger'.events) <= ledger'.rows
    <3>1. IsFiniteSet(ledger.events)
      <4>1. IsFiniteSet(0..MaxEvents) BY FS_Interval, BoundsAssumption
      <4> QED BY <1>1, <4>1, FS_Subset DEF Ledger
    <3>2. Cardinality(ledger.events) \in Nat BY <3>1, FS_CardinalityType
    <3>3. Cardinality(ledger'.events) \in {Cardinality(ledger.events), Cardinality(ledger.events) + 1}
      BY <2>2, <3>1, FS_AddElement
    <3>4. Cardinality(ledger.events) <= ledger.rows BY DEF LedgerInv
    <3> QED BY <1>1, <2>2, <3>2, <3>3, <3>4
  <2> QED BY <1>3, <2>2, <2>3 DEF LedgerInv, Ledger
<1>4. CASE classify(ledger, p, d) # "advanced"
  <2>1. ledger' = Incident(ledger) \/ ledger' = ledger BY <1>4 DEF Recorded
  <2>2. /\ ledger' \in Ledger /\ ledger'.cursor = ledger.cursor /\ ledger'.rows = ledger.rows
        /\ ledger'.events = ledger.events
    BY <1>1, <2>1 DEF Incident, Ledger
  <2>3. LedgerInv' BY <2>2 DEF LedgerInv, Ledger
  <2> QED BY <1>2, <1>4, <2>2, <2>3
<1> QED BY <1>3, <1>4

(* The view that is current is the records themselves.                     *)
LEMMA CurrentFacts ==
    ASSUME NEW v, Current(v)
    PROVE  /\ v.ledger = ledger /\ DOMAIN v.members = Members
           /\ \A j \in Members : v.members[j].child = child[j] /\ v.members[j].row = row[j]
BY DEF Current, View

(* What an event that the fold passes over or takes means for its job: the *)
(* child has it, or takes it as the next.                                  *)
LEMMA JudgedFacts ==
    ASSUME NEW e \in Event, NEW p, NEW d \in BOOLEAN, NEW v, Current(v), JobOK(e.job),
           Judged(e, p, d, v) \in {"applied", "replay", "stale"}
    PROVE  /\ Judged(e, p, d, v) = "applied" =>
                  e.job \in Members /\ ~e.ends /\ e.seq = child[e.job].applied + 1
           /\ Judged(e, p, d, v) # "applied" /\ Open(e.job) => e.seq <= child[e.job].applied
<1>1. /\ v.ledger = ledger /\ DOMAIN v.members = Members
      /\ \A j \in Members : v.members[j].child = child[j]
  BY CurrentFacts
<1>2. e.seq \in Nat /\ child[e.job].applied \in Nat /\ e.job \in Jobs /\ e.ends \in BOOLEAN
  BY BoundsAssumption DEF Event, JobOK, Child
<1> DEFINE r == reduce(child[e.job], e.seq, d)
<1>3. r \in {"conflict", "replay", "stale", "gap", "applied"} BY DEF reduce
<1>4. /\ r = "applied" => e.seq = child[e.job].applied + 1
      /\ r \in {"replay", "stale"} => e.seq <= child[e.job].applied
  BY <1>2 DEF reduce
<1>5. CASE e.job \in Members
  <2>1. Judged(e, p, d, v) = r \/ Judged(e, p, d, v) \in {"incident", "conflict", "ending"}
    BY <1>1, <1>5 DEF Judged
  <2>2. Judged(e, p, d, v) = "applied" => ~e.ends BY <1>1, <1>2, <1>5 DEF Judged
  <2> HIDE DEF r
  <2> QED BY <1>3, <1>4, <1>5, <2>1, <2>2
<1>6. CASE e.job \notin Members
  <2>1. Judged(e, p, d, v) # "applied" BY <1>1, <1>6 DEF Judged
  <2>2. ~Open(e.job) BY <1>2, <1>6 DEF Members, Open, Ended
  <2> QED BY <2>1, <2>2
<1> QED BY <1>5, <1>6

(* A fold that is recorded.                                                *)
LEMMA FoldRecords ==
    ASSUME SubInv, UNCHANGED <<author, row, scheduled, lookup>>, consumer.at = "folding",
           NEW e, e = log[consumer.pos],
           NEW judged, judged = Judged(e, consumer.pos, consumer.forged, consumer.view),
           judged \in {"applied", "replay", "stale"}, Current(consumer.view),
           HasRoom(ledger, consumer.pos, consumer.forged),
           ledger' = Recorded(ledger, consumer.pos, consumer.forged),
           child' = IF judged = "applied" /\ classify(ledger, consumer.pos, consumer.forged) = "advanced"
                      THEN [child EXCEPT ![e.job].applied = e.seq] ELSE child,
           IF classify(ledger, consumer.pos, consumer.forged) = "conflict" THEN Rest ELSE Streams
    PROVE  SubInv'
<1> DEFINE p == consumer.pos
           d == consumer.forged
           advanced == classify(ledger, p, d) = "advanced"
<1>1. /\ log' = log /\ sent' = sent /\ log \in Seq(Event)
      /\ p \in 1..MaxEvents /\ p \in 1..Len(log) /\ p <= Len(log) /\ d \in BOOLEAN
  BY Basics DEF author, SubInv, ConsumerInv
<1>2. e \in Event /\ e.job \in Jobs /\ e.seq \in Nat /\ e.seq \in 0..MaxEvents /\ p \in EventsOf(e.job)
  BY <1>1, EventFacts DEF Event
<1>3. /\ LedgerInv'
      /\ advanced => ledger'.cursor = p
      /\ ~advanced => ledger'.cursor = ledger.cursor /\ p <= ledger.cursor
  BY <1>1, RecordedFacts DEF SubInv
<1>4. ConsumerInv' /\ Reach' \in {p, 0}
  <2>1. CASE Rest BY <1>1, <2>1, ConsumerRests DEF Rest
  <2>2. CASE Streams BY <1>1, <2>2, StreamsFacts
  <2> QED BY <2>1, <2>2
<1>5. LookupInv' BY <1>1, LookupKept DEF SubInv
<1>6. Reach = p - 1 BY DEF Reach
<1> HIDE DEF p, d, advanced
<1>7. ASSUME NEW j \in Jobs PROVE JobOK(j)'
  <2>1. JobOK(j) /\ EventsOf(j) \subseteq Nat \ {0} /\ ledger.cursor \in Nat /\ p \in Nat
    BY <1>1, Basics DEF SubInv
  <2>2. JobOK(e.job) /\ child[e.job] \in Child BY <1>2 DEF SubInv, JobOK
  <2>3. /\ judged = "applied" => e.job \in Members /\ ~e.ends /\ e.seq = child[e.job].applied + 1
        /\ judged # "applied" /\ Open(e.job) => e.seq <= child[e.job].applied
    BY <1>1, <1>2, <2>2, JudgedFacts DEF p, d
  <2>4. \A i \in EventsOf(j) : i <= ledger'.cursor \/ i <= Reach'
                                 => i <= ledger.cursor \/ i <= Reach \/ i = p
    <3>1. ledger'.cursor \in {p, ledger.cursor} BY <1>3
    <3>2. Reach' \in {p, 0} /\ Reach = p - 1 BY <1>4, <1>6 DEF p
    <3> QED BY <2>1, <3>1, <3>2
  <2>5. \A i \in EventsOf(j) : i = p => j = e.job BY DEF EventsOf, p
  <2>6. CASE ~(j = e.job /\ judged = "applied" /\ advanced)
    <3>1. child'[j] = child[j] BY <2>6, <1>2 DEF SubInv, advanced, p, d
    <3>2. ASSUME Open(j), NEW i \in EventsOf(j), i <= ledger'.cursor \/ i <= Reach'
          PROVE  log[i].seq <= child[j].applied
      <4>1. CASE i <= ledger.cursor \/ i <= Reach BY <2>1, <3>2, <4>1 DEF JobOK
      <4>2. CASE i = p /\ ~(i <= ledger.cursor)
        <5>1. j = e.job /\ log[i] = e BY <2>5, <4>2, <3>2 DEF p
        <5>2. advanced BY <1>3, <4>2
        <5> QED BY <2>3, <2>6, <3>2, <5>1, <5>2
      <4> QED BY <2>4, <3>2, <4>1, <4>2
    <3>3. row'[j] = row[j] /\ scheduled' = scheduled OBVIOUS
    <3> QED BY <1>1, <2>1, <3>1, <3>2, <3>3, JobKept DEF JobOK
  <2>7. CASE j = e.job /\ judged = "applied" /\ advanced
    <3>1. child' = [child EXCEPT ![j].applied = e.seq] BY <2>7 DEF advanced, p, d
    <3>2. child[j] \in Child /\ j \in DOMAIN child /\ e.seq \in 0..MaxEvents
      BY <1>2, <2>2, <2>7 DEF SubInv
    <3>3. child'[j] \in Child /\ child'[j].state = child[j].state /\ child'[j].applied = e.seq
      BY <3>1, <3>2 DEF Child
    <3>4. child[j].state = "open" /\ ~e.ends /\ e.seq = child[j].applied + 1 BY <2>3, <2>7 DEF Members
    <3>5. /\ EventsOf(j)' = EventsOf(j) /\ Reported(j)' = Reported(j)
          /\ Finished(j)' <=> Finished(j)
      BY <1>1, SameLog
    <3>6. e.seq <= Reported(j) BY <1>2, <2>7 DEF SubInv, AuthorInv, p
    <3>7. ASSUME Open(j), NEW i \in EventsOf(j)
          PROVE  /\ i <= ledger'.cursor \/ i <= Reach' => log[i].seq <= e.seq
                 /\ log[i].ends => e.seq < log[i].seq
      <4>0. i \in Nat /\ p \in Nat /\ i \in EventsOf(j) /\ p \in EventsOf(j) /\ log[p] = e
        BY <1>2, <2>1, <2>7 DEF p
      <4>1. log[i].seq \in Nat
        BY <1>1, EventFacts, EventsFacts
      <4>2. i < p => log[i].seq < e.seq /\ ~log[i].ends BY <4>0 DEF SubInv, AuthorInv
      <4>3. p < i => e.seq < log[i].seq BY <4>0 DEF SubInv, AuthorInv
      <4>4. i <= ledger.cursor \/ i <= Reach => log[i].seq <= child[j].applied
        BY <2>1, <3>7 DEF JobOK
      <4>5. i <= ledger'.cursor \/ i <= Reach' => i <= p
        <5>1. ledger'.cursor = p BY <1>3, <2>7
        <5>2. Reach' \in {p, 0} BY <1>4
        <5> QED BY <4>0, <5>1, <5>2
      <4>6. CASE i < p BY <1>2, <4>1, <4>2, <4>6
      <4>7. CASE i = p BY <1>2, <3>4, <4>0, <4>7
      <4>8. CASE i > p BY <4>0, <4>3, <4>5, <4>8
      <4> QED BY <4>0, <4>6, <4>7, <4>8
    <3>8. Open(j)' <=> Open(j) BY <3>3 DEF Open
    <3> HIDE DEF Open
    <3> QED BY <1>1, <2>1, <3>3, <3>4, <3>5, <3>6, <3>7, <3>8 DEF JobOK, Child, Row
  <2> QED BY <2>6, <2>7
<1>8. child' \in [Jobs -> Child] /\ row' \in [Jobs -> Row]
  BY <1>2 DEF SubInv, Child
<1>9. sent \subseteq sent' /\ sent' \subseteq Jobs /\ scheduled' \subseteq Jobs BY <1>1, Basics DEF SubInv
<1> QED BY <1>1, <1>3, <1>4, <1>5, <1>7, <1>8, <1>9, Together

(* An event is judged, and recorded only in the view it was judged in      *)
(* (record_active_event).                                                  *)
LEMMA FoldKeeps ==
    ASSUME SubInv, Fold
    PROVE  SubInv'
<1> DEFINE p == consumer.pos
           e == log[p]
           d == consumer.forged
           v == consumer.view
           judged == Judged(e, p, d, v)
<1>1. consumer.at = "folding" /\ UNCHANGED <<author, row, scheduled, lookup>> BY DEF Fold, Holds
<1>2. CASE Rest /\ UNCHANGED <<ledger, child>> BY <1>1, <1>2, RestKeeps DEF records
<1>3. CASE Rest /\ ledger' = Incident(ledger) /\ UNCHANGED child
  <2>1. log' = log /\ log \in Seq(Event) BY <1>1, Basics DEF author
  <2>2. ConsumerInv' /\ Reach' = 0 BY <1>3, <2>1, ConsumerRests DEF Rest
  <2>3. /\ ledger' \in Ledger /\ ledger'.cursor = ledger.cursor /\ ledger'.rows = ledger.rows
        /\ ledger'.events = ledger.events
    BY <1>3, Basics DEF Incident, Ledger
  <2>4. LedgerInv' BY <2>1, <2>3 DEF SubInv, LedgerInv, Ledger
  <2>5. LookupInv' BY <1>1, <2>1, LookupKept DEF SubInv
  <2>6. \A j \in Jobs : JobOK(j)' BY <1>1, <1>3, <2>2, <2>3, JobStays DEF SubInv
  <2> QED BY <1>1, <1>3, <2>1, <2>2, <2>4, <2>5, <2>6, Together, Basics DEF SubInv, author
<1>4. CASE /\ consumer' = [consumer EXCEPT !.at = "terminal", !.view = View]
           /\ UNCHANGED <<ledger, child>>
  BY <1>1, <1>4, PlaceKeeps DEF records
<1>5. CASE /\ judged \in {"applied", "replay", "stale"}
           /\ Current(v) /\ HasRoom(ledger, p, d)
           /\ ledger' = Recorded(ledger, p, d)
           /\ child' = IF judged = "applied" /\ classify(ledger, p, d) = "advanced"
                         THEN [child EXCEPT ![e.job].applied = e.seq] ELSE child
           /\ IF classify(ledger, p, d) = "conflict" THEN Rest ELSE Streams
  BY <1>1, <1>5, FoldRecords
<1> QED BY <1>2, <1>3, <1>4, <1>5 DEF Fold

-----------------------------------------------------------------------------
(* Endings, lookups and resets.                                            *)

(* The job of the event that is held.                                      *)
LEMMA HeldEvent ==
    ASSUME SubInv, consumer.at \in {"folding", "terminal", "answered"}
    PROVE  log[consumer.pos].job \in Jobs
<1>1. consumer.pos \in 1..Len(log) BY Basics DEF SubInv, ConsumerInv
<1> QED BY <1>1, Basics, EventFacts

(* What a step does to the job that is settled, and to the others.         *)
LEMMA SettlesFacts ==
    ASSUME SubInv, UNCHANGED <<author, ledger>>, scheduled' = scheduled,
           NEW j \in Jobs, NEW a \in Answer, AnswerOK(j, a), a.ends, Settles(j, a.seq),
           Reach' \in {Reach, 0}
    PROVE  /\ child' \in [Jobs -> Child] /\ row' \in [Jobs -> Row]
           /\ \A k \in Jobs : JobOK(k)'
<1>1. /\ child' = [child EXCEPT ![j] = [state |-> "ended", applied |-> a.seq]]
      /\ row' = [row EXCEPT ![j].state = "settled"]
      /\ log' = log /\ ledger' = ledger
  BY DEF Settles, author
<1>2. /\ child' \in [Jobs -> Child] /\ row' \in [Jobs -> Row]
      /\ child'[j] = [state |-> "ended", applied |-> a.seq]
      /\ row'[j].state = "settled"
  BY <1>1 DEF SubInv, Child, Row, Answer, Ended
<1>3. JobOK(j)' BY <1>1, <1>2, JobSettled
<1>4. ASSUME NEW k \in Jobs, k # j PROVE JobOK(k)'
  <2>1. child'[k] = child[k] /\ row'[k] = row[k] /\ row[k] \in Row BY <1>1, <1>4 DEF SubInv
  <2> QED BY <1>1, <2>1, JobStays
<1> QED BY <1>2, <1>3, <1>4

(* Rows that have a failure recorded, and children that stay.              *)
LEMMA RowsStay ==
    ASSUME SubInv, UNCHANGED <<author, ledger, child>>, scheduled' \subseteq scheduled,
           row' \in [Jobs -> Row], Reach' \in {Reach, 0},
           \A j \in Jobs : row'[j].state = "open" => row[j].state = "open"
    PROVE  \A j \in Jobs : JobOK(j)'
BY JobStays DEF SubInv

(* A failed exchange is noted in the row, which stays as open or as ended  *)
(* as it was (record_exchange_failure).                                    *)
LEMMA RetriedFacts ==
    ASSUME SubInv, NEW j \in Jobs, Retried(j) \/ UNCHANGED row
    PROVE  /\ row' \in [Jobs -> Row]
           /\ \A k \in Jobs : row'[k].state = "open" => row[k].state = "open"
<1>1. row \in [Jobs -> Row] BY DEF SubInv
<1>2. CASE UNCHANGED row BY <1>1, <1>2
<1>3. CASE row[j].revision < MaxRevision /\ row' = [row EXCEPT ![j].revision = @ + 1]
  BY <1>1, <1>3, BoundsAssumption DEF Row
<1> QED BY <1>2, <1>3 DEF Retried

(* The author is asked for the job whose ending it streamed                *)
(* (CapturedTerminalEvent::capture).                                       *)
LEMMA AskEndingKeeps ==
    ASSUME SubInv, AskEnding
    PROVE  SubInv'
<1> DEFINE h == log[consumer.pos].job
<1>1. consumer.at = "terminal" /\ UNCHANGED <<author, records, scheduled, lookup>>
  BY DEF AskEnding, Holds
<1>2. CASE Rest BY <1>1, <1>2, RestKeeps
<1>3. CASE consumer' = [consumer EXCEPT !.at = "answered", !.answers[h] = Snapshot(h)]
  <2>1. ConsumerInv BY DEF SubInv
  <2>2. PICK j \in Jobs : j = h BY <1>1, HeldEvent
  <2>3. AnswerOK(j, Snapshot(j)) /\ Snapshot(j) \in Answer
    BY SnapshotFacts DEF SubInv, AnswerOK
  <2>4. consumer' = [consumer EXCEPT !.at = "answered", !.answers[j] = Snapshot(j)]
    BY <1>3, <2>2
  <2> HIDE DEF h
  <2>5. /\ consumer'.at = "answered" /\ consumer'.pos = consumer.pos
        /\ consumer'.mark = consumer.mark
        /\ consumer'.answers = [consumer.answers EXCEPT ![j] = Snapshot(j)]
    BY <2>1, <2>4 DEF ConsumerInv
  <2>6. consumer' \in [at : Places, pos : 0..MaxEvents, forged : BOOLEAN, view : {consumer'.view},
                     mark : 0..MaxEvents, answers : [Jobs -> {None} \cup Answer]]
    BY <2>1, <2>3, <2>4 DEF ConsumerInv, Places
  <2>7. /\ consumer'.answers[j] = Snapshot(j)
        /\ \A k \in Jobs \ {j} : consumer'.answers[k] = consumer.answers[k]
    BY <2>1, <2>5 DEF ConsumerInv
  <2>8. log' = log BY <1>1 DEF author
  <2>9. \A k, a : AnswerOK(k, a)' <=> AnswerOK(k, a) BY <2>8, SameLog
  <2>10. \A k \in Jobs, a \in Answer : consumer'.answers[k] = a /\ a # None => AnswerOK(k, a)
    BY <2>1, <2>3, <2>7 DEF ConsumerInv
  <2>11. ConsumerInv'
    BY <1>1, <2>1, <2>2, <2>3, <2>5, <2>6, <2>7, <2>8, <2>9, <2>10 DEF ConsumerInv, h, Answer
  <2>12. Reach' = 0 BY <2>5 DEF Reach
  <2> QED BY <1>1, <2>11, <2>12, Basics, ConsumerMoves
<1> QED BY <1>2, <1>3 DEF AskEnding

(* The author does not answer (reconcile_using).                           *)
LEMMA AskEndingFailsKeeps ==
    ASSUME SubInv, AskEndingFails
    PROVE  SubInv'
<1>1. /\ consumer.at = "terminal" /\ UNCHANGED <<author, ledger, child, scheduled, lookup>> /\ Rest
      /\ Retried(log[consumer.pos].job) \/ UNCHANGED row
  BY DEF AskEndingFails, Holds
<1>2. log' = log /\ sent' = sent /\ log \in Seq(Event) BY <1>1, Basics DEF author
<1>3. ConsumerInv' /\ Reach' = 0 BY <1>1, <1>2, ConsumerRests DEF Rest
<1>4. /\ row' \in [Jobs -> Row]
      /\ \A k \in Jobs : row'[k].state = "open" => row[k].state = "open"
  BY <1>1, HeldEvent, RetriedFacts
<1>5. \A j \in Jobs : JobOK(j)' BY <1>1, <1>3, <1>4, RowsStay
<1>6. LedgerInv' /\ LookupInv' BY <1>1, <1>2, LedgerKept, LookupKept DEF SubInv
<1> QED BY <1>1, <1>2, <1>3, <1>4, <1>5, <1>6, Together, Basics DEF SubInv

(* An answer that covers the ending settles the operation                  *)
(* (reconcile_using).                                                      *)
LEMMA TakeEndingKeeps ==
    ASSUME SubInv, TakeEnding
    PROVE  SubInv'
<1>1. consumer.at = "answered" /\ UNCHANGED <<author, ledger, scheduled, lookup>> /\ Rest
  BY DEF TakeEnding, Holds
<1>2. log' = log /\ sent' = sent /\ log \in Seq(Event) BY <1>1, Basics DEF author
<1>3. ConsumerInv' /\ Reach' = 0 BY <1>1, <1>2, ConsumerRests DEF Rest
<1>4. LedgerInv' /\ LookupInv' BY <1>1, <1>2, LedgerKept, LookupKept DEF SubInv
<1>5. PICK j \in Jobs : j = log[consumer.pos].job BY <1>1, HeldEvent
<1>6. PICK a \in Answer : a = consumer.answers[j] /\ AnswerOK(j, a)
  BY <1>1, <1>5 DEF SubInv, ConsumerInv
<1>7. /\ child' \in [Jobs -> Child] /\ row' \in [Jobs -> Row]
      /\ \A k \in Jobs : JobOK(k)'
  <2>1. CASE a.ends /\ Settles(j, a.seq)
    BY <1>1, <1>3, <1>6, <2>1, SettlesFacts
  <2>2. CASE (Retried(j) \/ UNCHANGED row) /\ UNCHANGED child
    <3>1. /\ row' \in [Jobs -> Row]
          /\ \A k \in Jobs : row'[k].state = "open" => row[k].state = "open"
      BY <2>2, RetriedFacts
    <3>2. \A k \in Jobs : JobOK(k)' BY <1>1, <1>3, <2>2, <3>1, RowsStay
    <3> QED BY <2>2, <3>1, <3>2 DEF SubInv
  <2> QED BY <1>5, <1>6, <2>1, <2>2 DEF TakeEnding, Covers
<1> QED BY <1>1, <1>2, <1>3, <1>4, <1>7, Together, Basics DEF SubInv

(* A reset begins (reset_active_subscription_with_authentication).         *)
LEMMA BeginResetKeeps ==
    ASSUME SubInv, BeginReset
    PROVE  SubInv'
<1>1. /\ UNCHANGED <<author, records, scheduled, lookup>>
      /\ consumer' = [Idle EXCEPT !.at = "capturing", !.view = View]
  BY DEF BeginReset
<1>2. consumer' = [at |-> "capturing", pos |-> 0, forged |-> FALSE, view |-> View, mark |-> 0,
                   answers |-> [j \in Jobs |-> None]]
  BY <1>1 DEF Idle
<1>3. Reach' = 0 BY <1>2 DEF Reach
<1>4. Answered' = {} BY <1>2 DEF Answered
<1>5. consumer' \in [at : Places, pos : 0..MaxEvents, forged : BOOLEAN, view : {consumer'.view},
                     mark : 0..MaxEvents, answers : [Jobs -> {None} \cup Answer]]
  BY <1>2, BoundsAssumption DEF Places
<1>6. log' = log BY <1>1 DEF author
<1>7. ConsumerInv' BY <1>2, <1>4, <1>5, <1>6, Basics DEF ConsumerInv, Answer
<1> QED BY <1>1, <1>3, <1>7, Basics, ConsumerMoves

(* The reset captures where the author's stream is and who is a member     *)
(* (reset_active_subscription_with_authentication).                        *)
LEMMA CaptureKeeps ==
    ASSUME SubInv, Capture
    PROVE  SubInv'
<1>1. /\ UNCHANGED <<author, records, scheduled, lookup>> /\ consumer.at = "capturing"
      /\ consumer' = [consumer EXCEPT !.at = "looking", !.mark = Len(log)]
  BY DEF Capture, Holds
<1>2. ConsumerInv BY DEF SubInv
<1>3. /\ consumer'.at = "looking" /\ consumer'.pos = consumer.pos
      /\ consumer'.mark = Len(log) /\ consumer'.answers = consumer.answers
      /\ consumer' \in [at : Places, pos : 0..MaxEvents, forged : BOOLEAN, view : {consumer'.view},
                     mark : 0..MaxEvents, answers : [Jobs -> {None} \cup Answer]]
  <2>1. Len(log) \in 0..MaxEvents BY Basics
  <2> QED BY <1>1, <1>2, <2>1 DEF ConsumerInv, Places
<1>4. Reach' = 0 BY <1>3 DEF Reach
<1>5. \A j \in Jobs : consumer.answers[j] = None BY <1>1, <1>2 DEF ConsumerInv, Answered
<1>6. log' = log BY <1>1 DEF author
<1>7. ConsumerInv' BY <1>2, <1>3, <1>5, <1>6, Basics DEF ConsumerInv, Answer
<1> QED BY <1>1, <1>4, <1>7, Basics, ConsumerMoves

(* A member is looked up; one that has ended is handed off                 *)
(* (reset_active_subscription_with_authentication).                        *)
LEMMA LookAtMemberKeeps ==
    ASSUME SubInv, NEW j \in Jobs, LookAtMember(j)
    PROVE  SubInv'
<1>1. consumer.at = "looking" /\ UNCHANGED <<author, records, scheduled, lookup>>
  BY DEF LookAtMember, Holds
<1>2. CASE consumer' = Idle BY <1>1, <1>2, RestKeeps DEF Rest
<1>3. ConsumerInv BY DEF SubInv
<1>4. PICK a \in Answer : a = Snapshot(j) /\ AnswerOK(j, a) BY SnapshotFacts DEF SubInv, AnswerOK
<1>5. a.mark = Len(log) /\ a.ends = Finished(j) BY <1>4 DEF Snapshot
<1>6. log' = log BY <1>1 DEF author
<1>7. \A k, b : AnswerOK(k, b)' <=> AnswerOK(k, b) BY <1>6, SameLog
<1>8. CASE ~Finished(j) /\ consumer' = [consumer EXCEPT !.answers[j] = a]
  <2>1. /\ consumer'.at = "looking" /\ consumer'.pos = consumer.pos
        /\ consumer'.mark = consumer.mark
        /\ consumer'.answers = [consumer.answers EXCEPT ![j] = a]
        /\ consumer' \in [at : Places, pos : 0..MaxEvents, forged : BOOLEAN, view : {consumer'.view},
                     mark : 0..MaxEvents, answers : [Jobs -> {None} \cup Answer]]
    BY <1>1, <1>3, <1>8 DEF ConsumerInv
  <2>2. /\ consumer'.answers[j] = a
        /\ \A k \in Jobs \ {j} : consumer'.answers[k] = consumer.answers[k]
    BY <1>3, <2>1 DEF ConsumerInv
  <2>3. Reach' = 0 BY <2>1 DEF Reach
  <2>4. \A k \in Jobs, b \in Answer : consumer'.answers[k] = b /\ b # None =>
           AnswerOK(k, b) /\ ~b.ends /\ consumer.mark <= b.mark
    BY <1>1, <1>3, <1>4, <1>5, <1>8, <2>2 DEF ConsumerInv
  <2>5. ConsumerInv' BY <1>3, <1>6, <1>7, <2>1, <2>4 DEF ConsumerInv, Answer
  <2> QED BY <1>1, <2>3, <2>5, Basics, ConsumerMoves
<1>9. CASE /\ Finished(j)
           /\ consumer' = [consumer EXCEPT !.at = "handoff",
                             !.answers = [Idle.answers EXCEPT ![j] = a]]
  <2>1. /\ consumer'.at = "handoff" /\ consumer'.pos = consumer.pos
        /\ consumer'.mark = consumer.mark
        /\ consumer'.answers = [[k \in Jobs |-> None] EXCEPT ![j] = a]
        /\ consumer' \in [at : Places, pos : 0..MaxEvents, forged : BOOLEAN, view : {consumer'.view},
                     mark : 0..MaxEvents, answers : [Jobs -> {None} \cup Answer]]
    BY <1>1, <1>3, <1>9 DEF ConsumerInv, Idle, Places
  <2>2. /\ consumer'.answers[j] = a
        /\ \A k \in Jobs \ {j} : consumer'.answers[k] = None
    BY <2>1
  <2>3. Reach' = 0 BY <2>1 DEF Reach
  <2>4. \A k \in Jobs, b \in Answer : consumer'.answers[k] = b /\ b # None =>
           AnswerOK(k, b) /\ b.ends
    BY <1>4, <1>5, <1>9, <2>2
  <2>5. ConsumerInv' BY <1>3, <1>6, <1>7, <2>1, <2>4 DEF ConsumerInv, Answer
  <2> QED BY <1>1, <2>3, <2>5, Basics, ConsumerMoves
<1> QED BY <1>2, <1>4, <1>8, <1>9 DEF LookAtMember

(* A member found ended is settled                                         *)
(* (CapturedResetRecovery::reconcile_using).                               *)
LEMMA SettleHandoffKeeps ==
    ASSUME SubInv, SettleHandoff
    PROVE  SubInv'
<1>1. consumer.at = "handoff" /\ UNCHANGED <<author, ledger, scheduled, lookup>> /\ Rest
  BY DEF SettleHandoff, Holds
<1>2. log' = log /\ sent' = sent /\ log \in Seq(Event) BY <1>1, Basics DEF author
<1>3. ConsumerInv' /\ Reach' = 0 BY <1>1, <1>2, ConsumerRests DEF Rest
<1>4. LedgerInv' /\ LookupInv' BY <1>1, <1>2, LedgerKept, LookupKept DEF SubInv
<1>5. PICK j \in Answered : \/ Settles(j, consumer.answers[j].seq)
                             \/ UNCHANGED <<child, row>>
  BY DEF SettleHandoff
<1>6. j \in Jobs BY DEF Answered
<1>7. PICK a \in Answer : a = consumer.answers[j] /\ AnswerOK(j, a) /\ a.ends
  BY <1>1, <1>6 DEF SubInv, ConsumerInv, Answered
<1>8. /\ child' \in [Jobs -> Child] /\ row' \in [Jobs -> Row]
      /\ \A k \in Jobs : JobOK(k)'
  <2>1. CASE Settles(j, a.seq) BY <1>1, <1>3, <1>6, <1>7, <2>1, SettlesFacts
  <2>2. CASE UNCHANGED <<child, row>> BY <1>1, <1>3, <2>2, RowsStay DEF SubInv
  <2> QED BY <1>5, <1>7, <2>1, <2>2
<1> QED BY <1>1, <1>2, <1>3, <1>4, <1>8, Together, Basics DEF SubInv

(* The position is installed with answers that cover it for every job that *)
(* is open.                                                                *)
LEMMA InstallKeeps ==
    ASSUME SubInv, Install
    PROVE  SubInv'
<1>1. /\ consumer.at = "looking" /\ DOMAIN consumer.view.members = Answered /\ Rest
      /\ UNCHANGED <<author, row, scheduled, lookup>>
  BY DEF Install, Holds
<1>2. log' = log /\ sent' = sent /\ log \in Seq(Event) BY <1>1, Basics DEF author
<1>3. ConsumerInv' /\ Reach' = 0 BY <1>1, <1>2, ConsumerRests DEF Rest
<1>4. CASE UNCHANGED <<ledger, child>> BY <1>1, <1>4, RestKeeps DEF records
<1>5. CASE /\ Current(consumer.view)
           /\ ledger' = Boundary(consumer.mark)
           /\ child' = [j \in Jobs |-> IF j \in Answered
                          THEN Caught(j, consumer.answers[j]) ELSE child[j]]
  <2>1. ConsumerInv /\ consumer.mark \in 0..MaxEvents /\ consumer.mark <= Len(log)
    BY DEF SubInv, ConsumerInv
  <2>2. ledger' \in Ledger /\ ledger'.cursor = consumer.mark /\ ledger'.rows = 0 /\ ledger'.events = {}
    <3>1. ledger' = [there |-> ledger.there, cursor |-> consumer.mark, digest |-> None,
                     incident |-> FALSE, rows |-> 0, events |-> {}]
      BY <1>5, Basics DEF Boundary, Ledger
    <3>2. ledger.there \in BOOLEAN BY Basics, Zenon DEF Ledger
    <3>3. 0 \in 0..EventRows /\ {} \in SUBSET (0..MaxEvents) BY BoundsAssumption
    <3>4. [there |-> ledger.there, cursor |-> consumer.mark, digest |-> None,
           incident |-> FALSE, rows |-> 0, events |-> {}] \in Ledger
      BY <2>1, <3>2, <3>3, FreshRow
    <3> QED BY <3>1, <3>4, Zenon
  <2>3. LedgerInv'
    <3>1. Cardinality({}) = 0 BY FS_EmptySet
    <3>2. Cardinality(ledger'.events) = 0 BY <2>2, <3>1, Zenon
    <3> QED BY <1>2, <2>1, <2>2, <3>2 DEF LedgerInv, Ledger
  <2>4. Members = Answered BY <1>1, <1>5, CurrentFacts
  <2>5. ASSUME NEW j \in Jobs PROVE child'[j] \in Child /\ JobOK(j)'
    <3>1. JobOK(j) /\ EventsOf(j) \subseteq Nat \ {0} BY Basics DEF SubInv
    <3>2. CASE j \in Answered
      <4>1. PICK a \in Answer : a = consumer.answers[j] /\ AnswerOK(j, a) /\ ~a.ends
                                   /\ consumer.mark <= a.mark
        BY <1>1, <2>1, <3>2 DEF ConsumerInv, Answered
      <4>2. child'[j] = Caught(j, a) BY <1>5, <3>2, <4>1
      <4>3. child'[j] \in Child BY <3>1, <4>2 DEF JobOK, Caught, Child, Answer
      <4>4. \A i \in EventsOf(j) : i <= ledger'.cursor \/ i <= Reach' => i <= a.mark
        BY <1>3, <2>1, <2>2, <3>1, <4>1 DEF Answer
      <4>5. \A i \in EventsOf(j) : i <= ledger'.cursor \/ i <= Reach' => log[i].seq <= a.seq
        BY <4>1, <4>4 DEF AnswerOK
      <4>6. row'[j] = row[j] /\ scheduled' = scheduled BY <1>1
      <4> QED BY <1>2, <3>1, <4>1, <4>2, <4>3, <4>5, <4>6, JobCaught
    <3>3. CASE j \notin Answered
      <4>1. child'[j] = child[j] BY <1>5, <3>3
      <4>2. ~Open(j) BY <2>4, <3>3 DEF Members, Open, Ended
      <4> QED BY <1>1, <1>2, <3>1, <4>1, <4>2, JobKept DEF JobOK
    <3> QED BY <3>2, <3>3
  <2>6. child' \in [Jobs -> Child] BY <1>5, <2>5
  <2>7. LookupInv' BY <1>1, <1>2, LookupKept DEF SubInv
  <2> QED BY <1>1, <1>2, <1>3, <2>3, <2>5, <2>6, <2>7, Together, Basics DEF SubInv
<1> QED BY <1>4, <1>5 DEF Install

(* Events below a floor are compacted away (compact_below).                *)
LEMMA CompactKeeps ==
    ASSUME SubInv, NEW floor \in 0..MaxEvents, Compact(floor)
    PROVE  SubInv'
<1> DEFINE kept == {p \in ledger.events : p >= floor}
<1>1. /\ UNCHANGED <<author, child, row, scheduled, consumer, lookup>>
      /\ ledger' = [ledger EXCEPT !.events = kept, !.rows = Cardinality(kept)]
  BY DEF Compact
<1>2. log' = log /\ sent' = sent BY <1>1 DEF author
<1>3. LookupInv' /\ ConsumerInv' /\ Reach' = Reach BY <1>1, <1>2, LookupKept, ConsumerKept DEF SubInv
<1>4. Cardinality(kept) \in 0..EventRows
  <2>1. ledger.events \subseteq 0..MaxEvents /\ ledger.rows \in 0..EventRows
    BY Basics DEF Ledger
  <2>2. IsFiniteSet(0..MaxEvents) BY FS_Interval, BoundsAssumption
  <2>3. IsFiniteSet(ledger.events) BY <2>1, <2>2, FS_Subset
  <2>4. IsFiniteSet(kept) /\ Cardinality(kept) <= Cardinality(ledger.events) BY <2>3, FS_Subset
  <2>5. Cardinality(kept) \in Nat /\ Cardinality(ledger.events) \in Nat
    BY <2>3, <2>4, FS_CardinalityType
  <2>6. Cardinality(ledger.events) <= ledger.rows BY DEF SubInv, LedgerInv
  <2> HIDE DEF kept
  <2> QED BY <2>1, <2>4, <2>5, <2>6, BoundsAssumption
<1>5. kept \in SUBSET (0..MaxEvents) BY Basics DEF Ledger
<1> HIDE DEF kept
<1>6. /\ ledger' \in Ledger /\ ledger'.cursor = ledger.cursor /\ ledger'.events = kept
      /\ ledger'.rows = Cardinality(kept)
  BY <1>1, <1>4, <1>5, Basics DEF Ledger
<1>7. Cardinality(ledger'.events) <= ledger'.rows BY <1>4, <1>6, BoundsAssumption
<1>8. LedgerInv' BY <1>2, <1>6, <1>7, Basics DEF LedgerInv, Ledger
<1>9. \A j \in Jobs : JobOK(j)' BY <1>1, <1>3, <1>6, JobStays DEF SubInv
<1> QED BY <1>1, <1>2, <1>3, <1>8, <1>9, Together, Basics DEF SubInv

(* An operation is looked up                                               *)
(* (lookup_retained_operation_with_authentication).                        *)
LEMMA AskLookupKeeps ==
    ASSUME SubInv, NEW j \in Jobs, AskLookup(j)
    PROVE  SubInv'
<1>1. /\ UNCHANGED <<author, records, scheduled, consumer>>
      /\ lookup' = [job |-> j, answer |-> Snapshot(j), child |-> child[j], row |-> row[j]]
  BY DEF AskLookup
<1>2. log' = log /\ sent' = sent /\ ledger' = ledger /\ child' = child /\ row' = row
  BY <1>1 DEF author, records
<1>3. LedgerInv' /\ ConsumerInv' /\ Reach' = Reach BY <1>1, <1>2, LedgerKept, ConsumerKept DEF SubInv
<1>4. AnswerOK(j, Snapshot(j)) /\ Snapshot(j) \in Answer BY SnapshotFacts DEF SubInv, AnswerOK
<1>5. \A k, a : AnswerOK(k, a)' <=> AnswerOK(k, a) BY <1>2, SameLog
<1>6. lookup' \in [job : Jobs, answer : Answer, child : Child, row : Row]
  BY <1>1, <1>4 DEF SubInv
<1>7. LookupInv' BY <1>1, <1>4, <1>5, <1>6 DEF LookupInv, Answer, Child, Row
<1>8. \A k \in Jobs : JobOK(k)' BY <1>1, <1>2, <1>3, RowsStay DEF SubInv
<1> QED BY <1>1, <1>2, <1>3, <1>7, <1>8, Together, Basics DEF SubInv

(* The answer is applied, if the rows are still those it was asked for     *)
(* (reconcile_active_snapshot_for_operation).                              *)
LEMMA ApplyLookupKeeps ==
    ASSUME SubInv, ApplyLookup
    PROVE  SubInv'
<1>1. lookup # None /\ lookup' = None /\ UNCHANGED <<author, ledger, scheduled, consumer>>
  BY DEF ApplyLookup
<1>2. log' = log /\ sent' = sent BY <1>1 DEF author
<1>3. LedgerInv' /\ LookupInv' /\ ConsumerInv' /\ Reach' = Reach
  BY <1>1, <1>2, LedgerKept, LookupKept, ConsumerKept DEF SubInv
<1>4. PICK j \in Jobs, a \in Answer : j = lookup.job /\ a = lookup.answer /\ AnswerOK(j, a)
  BY <1>1 DEF SubInv, LookupInv
<1>5. \/ Extends(j, a) /\ a.ends /\ Settles(j, a.seq)
      \/ Extends(j, a) /\ ~a.ends /\ child' = [child EXCEPT ![j] = Caught(j, a)] /\ UNCHANGED row
      \/ UNCHANGED <<child, row>>
  BY <1>4 DEF ApplyLookup
<1>6. /\ child' \in [Jobs -> Child] /\ row' \in [Jobs -> Row]
      /\ \A k \in Jobs : JobOK(k)'
  <2>1. CASE a.ends /\ Settles(j, a.seq) BY <1>1, <1>3, <1>4, <2>1, SettlesFacts
  <2>2. CASE UNCHANGED <<child, row>> BY <1>1, <1>3, <2>2, RowsStay DEF SubInv
  <2>3. CASE Extends(j, a) /\ ~a.ends /\ child' = [child EXCEPT ![j] = Caught(j, a)] /\ UNCHANGED row
    <3>1. JobOK(j) /\ child[j] \in Child /\ child[j].applied \in Nat /\ a.seq \in Nat
      BY BoundsAssumption DEF SubInv, JobOK, Child, Answer
    <3>2. child' \in [Jobs -> Child] /\ child'[j] = Caught(j, a)
      BY <2>3, <3>1 DEF SubInv, Caught, Child, Answer
    <3>3. child[j].applied <= a.seq BY <2>3, <3>1 DEF Extends
    <3>4. ASSUME Open(j), NEW i \in EventsOf(j), i <= ledger'.cursor \/ i <= Reach'
          PROVE  log[i].seq <= a.seq
      <4>1. log[i].seq <= child[j].applied BY <1>1, <1>3, <3>1, <3>4 DEF JobOK
      <4>2. log[i].seq \in Nat BY Basics, EventFacts, EventsFacts
      <4> QED BY <3>1, <3>3, <4>1, <4>2
    <3>5. JobOK(j)' BY <1>1, <1>2, <1>4, <2>3, <3>1, <3>2, <3>4, JobCaught
    <3>6. ASSUME NEW k \in Jobs, k # j PROVE JobOK(k)'
      <4>1. child'[k] = child[k] BY <2>3, <3>6 DEF SubInv
      <4> QED BY <1>1, <1>3, <2>3, <4>1, JobStays DEF SubInv
    <3> QED BY <2>3, <3>2, <3>5, <3>6 DEF SubInv
  <2> QED BY <1>5, <2>1, <2>2, <2>3
<1> QED BY <1>1, <1>2, <1>3, <1>6, Together, Basics DEF SubInv

(* A row is given up without word from the author (apply_terminal).        *)
LEMMA GiveUpKeeps ==
    ASSUME SubInv, NEW j \in Jobs, NEW kind \in {"lost", "exhausted"}, GiveUp(j, kind)
    PROVE  SubInv'
<1>1. /\ UNCHANGED <<author, ledger, child, scheduled, consumer, lookup>>
      /\ row' = [row EXCEPT ![j].state = kind]
  BY DEF GiveUp
<1>2. log' = log /\ sent' = sent BY <1>1 DEF author
<1>3. LedgerInv' /\ LookupInv' /\ ConsumerInv' /\ Reach' = Reach
  BY <1>1, <1>2, LedgerKept, LookupKept, ConsumerKept DEF SubInv
<1>4. row' \in [Jobs -> Row] /\ \A k \in Jobs : row'[k].state = "open" => row[k].state = "open"
  BY <1>1 DEF SubInv, Row, Ended
<1>5. \A k \in Jobs : JobOK(k)' BY <1>1, <1>3, <1>4, RowsStay
<1> QED BY <1>1, <1>2, <1>3, <1>4, <1>5, Together, Basics DEF SubInv

-----------------------------------------------------------------------------
(* Maintenance and the next start.                                         *)

(* Maintenance removes rows, children and the subscription nobody needs    *)
(* (remove_and_record).                                                    *)
LEMMA MaintainKeeps ==
    ASSUME SubInv, NEW rows \in SUBSET Jobs, NEW old \in SUBSET Jobs, Maintain(rows, old)
    PROVE  SubInv'
<1> DEFINE gone == RemovableChildren(old, rows)
<1>1. /\ UNCHANGED <<author, scheduled, consumer, lookup>> /\ rows \subseteq RemovableRows
      /\ child' = [j \in Jobs |-> IF j \in gone THEN NoChild ELSE child[j]]
      /\ row' = [j \in Jobs |-> IF j \in rows THEN [Accepted EXCEPT !.state = "removed"] ELSE row[j]]
      /\ ledger' \in {NoLedger, ledger}
  BY DEF Maintain
<1>2. log' = log /\ sent' = sent /\ log \in Seq(Event) BY <1>1, Basics DEF author
<1>3. LookupInv' /\ ConsumerInv' /\ Reach' = Reach BY <1>1, <1>2, LookupKept, ConsumerKept DEF SubInv
<1>4. LedgerInv' /\ ledger'.cursor \in {ledger.cursor, 0}
  <2>1. CASE ledger' = ledger BY <1>2, <2>1, LedgerKept DEF SubInv
  <2>2. CASE ledger' = NoLedger
    <3>1. ledger' = [there |-> FALSE, cursor |-> 0, digest |-> None, incident |-> FALSE,
                     rows |-> 0, events |-> {}]
      BY <2>2 DEF NoLedger
    <3> QED BY <1>2, <3>1, EmptyLedger
  <2> QED BY <1>1, <2>1, <2>2
<1>5. NoChild \in Child /\ [Accepted EXCEPT !.state = "removed"] \in Row
      /\ [Accepted EXCEPT !.state = "removed"].state = "removed"
  BY BoundsAssumption DEF NoChild, Child, Accepted, Row
<1> HIDE DEF gone
<1>6. child' \in [Jobs -> Child] /\ row' \in [Jobs -> Row] BY <1>1, <1>5 DEF SubInv
<1>7. ASSUME NEW j \in Jobs PROVE JobOK(j)'
  <2>1. row'[j] \in Row /\ (row'[j].state = "open" => row[j].state = "open" /\ j \notin rows)
    BY <1>1, <1>5, <1>6 DEF SubInv
  <2>2. CASE j \in gone
    <3>1. child'[j] = NoChild BY <1>1, <2>2
    <3>2. row'[j].state # "open" BY <2>1, <2>2 DEF gone, RemovableChildren, SubInv, JobOK
    <3> QED BY <1>2, <2>1, <3>1, <3>2, JobRemoved
  <2>3. CASE j \notin gone
    <3>1. child'[j] = child[j] BY <1>1, <2>3
    <3> QED BY <1>1, <1>3, <1>4, <2>1, <3>1, JobStays
  <2> QED BY <2>2, <2>3
<1> QED BY <1>1, <1>2, <1>3, <1>4, <1>6, <1>7, Together, Basics DEF SubInv

(* A restart forgets the attachment and the lookup, and what was scheduled *)
(* (audit_existing_binding).                                               *)
LEMMA RestartKeeps ==
    ASSUME SubInv, Restart
    PROVE  SubInv'
<1>1. /\ consumer' = Idle /\ lookup' = None /\ scheduled' = {}
      /\ UNCHANGED author /\ ledger' = ledger /\ child' = child /\ row' = row
  BY DEF Restart, records
<1>2. log' = log /\ sent' = sent /\ log \in Seq(Event) BY <1>1, Basics DEF author
<1>3. ConsumerInv' /\ Reach' = 0 BY <1>1, <1>2, ConsumerRests
<1>4. LedgerInv' /\ LookupInv' BY <1>1, <1>2, LedgerKept, LookupKept DEF SubInv
<1>5. \A j \in Jobs : JobOK(j)' BY <1>1, <1>3, RowsStay DEF SubInv
<1> QED BY <1>1, <1>2, <1>3, <1>4, <1>5, Together, Basics DEF SubInv

-----------------------------------------------------------------------------
(* Before anything is scheduled, with or without the ledger of an earlier  *)
(* daemon.                                                                 *)
LEMMA SubInit == Init => SubInv
<1> SUFFICES ASSUME Init PROVE SubInv OBVIOUS
<1>1. /\ log = <<>> /\ sent = {} /\ ledger \in {NoLedger, Earlier}
      /\ child = [j \in Jobs |-> NoChild] /\ row = [j \in Jobs |-> Accepted]
      /\ lookup = None /\ scheduled = {} /\ consumer = Idle
  BY DEF Init
<1>2. log \in Seq(Event) /\ Len(log) = 0 BY <1>1, EmptySeq
<1>3. \A j : EventsOf(j) = {} /\ Reported(j) \in Nat BY <1>2, EventsFacts
<1>4. AuthorInv BY <1>1, <1>2, <1>3, BoundsAssumption DEF AuthorInv
<1>5. LedgerInv
  <2>1. /\ NoLedger.cursor = 0 /\ NoLedger.rows = 0 /\ NoLedger.events = {}
        /\ Earlier.cursor = 0 /\ Earlier.rows = 1 /\ Earlier.events = {0}
    BY DEF NoLedger, Earlier
  <2>2. Cardinality({}) = 0 /\ Cardinality({0}) = 1 BY FS_EmptySet, FS_Singleton
  <2>3. 0 \in 0..EventRows /\ 1 \in 0..EventRows /\ 0 \in 0..MaxEvents
        /\ {} \in SUBSET (0..MaxEvents) /\ {0} \in SUBSET (0..MaxEvents)
    BY BoundsAssumption
  <2>4. CASE ledger = NoLedger
    <3>1. ledger = [there |-> FALSE, cursor |-> 0, digest |-> None, incident |-> FALSE,
                    rows |-> 0, events |-> {}]
      BY <2>4 DEF NoLedger
    <3>2. ledger \in Ledger BY <2>3, <3>1, FreshRow
    <3>3. Cardinality(ledger.events) = 0 BY <2>1, <2>2, <2>4, Zenon
    <3> QED BY <1>2, <2>1, <2>4, <3>2, <3>3 DEF LedgerInv
  <2>5. CASE ledger = Earlier
    <3>1. ledger = [there |-> TRUE, cursor |-> 0, digest |-> None, incident |-> FALSE,
                    rows |-> 1, events |-> {0}]
      BY <2>5 DEF NoLedger, Earlier
    <3>2. ledger \in Ledger BY <2>3, <3>1, FreshRow
    <3>3. Cardinality(ledger.events) = 1 BY <2>1, <2>2, <2>5, Zenon
    <3> QED BY <1>2, <2>1, <2>5, <3>2, <3>3 DEF LedgerInv
  <2> QED BY <1>1, <2>4, <2>5
<1>6. ConsumerInv
  <2>1. Answered = {} BY <1>1 DEF Answered, Idle
  <2>2. consumer \in [at : Places, pos : 0..MaxEvents, forged : BOOLEAN, view : {consumer.view},
                     mark : 0..MaxEvents, answers : [Jobs -> {None} \cup Answer]]
    BY <1>1, BoundsAssumption DEF Idle, Places
  <2> QED BY <1>1, <1>2, <2>1, <2>2 DEF ConsumerInv, Idle
<1>7. child \in [Jobs -> Child] /\ row \in [Jobs -> Row]
  BY <1>1, BoundsAssumption DEF NoChild, Child, Accepted, Row
<1>8. \A j \in Jobs : JobOK(j) BY <1>1, <1>3, <1>7 DEF JobOK, NoChild
<1> QED BY <1>1, <1>4, <1>5, <1>6, <1>7, <1>8 DEF SubInv, LookupInv

(* Every step preserves the invariant.                                     *)
LEMMA SubStep == SubInv /\ [Next]_vars => SubInv'
<1> SUFFICES ASSUME SubInv, [Next]_vars PROVE SubInv' OBVIOUS
<1>1. ASSUME NEW j \in Jobs, Schedule(j) PROVE SubInv' BY <1>1, ScheduleKeeps
<1>2. ASSUME NEW j \in Jobs, Submit(j) PROVE SubInv' BY <1>2, SubmitKeeps
<1>3. ASSUME NEW j \in Jobs, NEW ends \in BOOLEAN, Emit(j, ends) PROVE SubInv' BY <1>3, EmitKeeps
<1>4. ASSUME NEW j \in Jobs, LookAtMember(j) PROVE SubInv' BY <1>4, LookAtMemberKeeps
<1>5. ASSUME NEW j \in Jobs, AskLookup(j) PROVE SubInv' BY <1>5, AskLookupKeeps
<1>6. ASSUME NEW j \in Jobs, NEW kind \in {"lost", "exhausted"}, GiveUp(j, kind) PROVE SubInv'
  BY <1>6, GiveUpKeeps
<1>7. ASSUME NEW p \in 0..MaxEvents, Attach(p) PROVE SubInv' BY <1>7, AttachKeeps
<1>8. ASSUME NEW p \in 0..MaxEvents, Compact(p) PROVE SubInv' BY <1>8, CompactKeeps
<1>9. ASSUME NEW forged \in BOOLEAN, Receive(forged) PROVE SubInv' BY <1>9, ReceiveKeeps
<1>10. CASE ApplyLookup BY <1>10, ApplyLookupKeeps
<1>11. CASE Fold BY <1>11, FoldKeeps
<1>12. CASE Detach BY <1>12, RestKeeps DEF Detach
<1>13. CASE AskEnding BY <1>13, AskEndingKeeps
<1>14. CASE AskEndingFails BY <1>14, AskEndingFailsKeeps
<1>15. CASE TakeEnding BY <1>15, TakeEndingKeeps
<1>16. CASE BeginReset BY <1>16, BeginResetKeeps
<1>17. CASE Capture BY <1>17, CaptureKeeps
<1>18. CASE SettleHandoff BY <1>18, SettleHandoffKeeps
<1>19. CASE Install BY <1>19, InstallKeeps
<1>20. ASSUME NEW rows \in SUBSET Jobs, NEW old \in SUBSET Jobs, Maintain(rows, old) PROVE SubInv'
  BY <1>20, MaintainKeeps
<1>21. CASE Restart BY <1>21, RestartKeeps
<1>22. CASE UNCHANGED vars
  <2>1. UNCHANGED <<author, records, scheduled, lookup>> /\ consumer' = consumer BY <1>22 DEF vars
  <2>2. ConsumerInv' /\ Reach' = Reach BY <2>1, ConsumerKept DEF SubInv, author
  <2> QED BY <2>1, <2>2, ConsumerMoves, Basics
<1> QED BY <1>1, <1>2, <1>3, <1>4, <1>5, <1>6, <1>7, <1>8, <1>9, <1>10, <1>11, <1>12, <1>13, <1>14,
           <1>15, <1>16, <1>17, <1>18, <1>19, <1>20, <1>21, <1>22 DEF Next

-----------------------------------------------------------------------------
(* The invariant holds of every behaviour.                                 *)
LEMMA SubscriptionInvariant == Spec => []SubInv
BY SubInit, SubStep, PTL DEF Spec

(* Stream, ledger, children, rows and attachment keep their types for any  *)
(* jobs and any bounds; the events of a subscription never outgrow         *)
(* event_rows (require_event_room).                                        *)
THEOREM SubscriptionTypeCorrect == Spec => []TypeOK
<1>1. SubInv => TypeOK
  BY DEF SubInv, AuthorInv, LedgerInv, ConsumerInv, LookupInv, TypeOK, Event, Ledger, Child, Row,
         Places
<1> QED BY <1>1, SubscriptionInvariant, PTL

(* The position is never past an event that an open operation has not      *)
(* taken, whatever is compacted, reset, replayed or restarted              *)
(* (record_event_within, install_boundary_within).                         *)
THEOREM SubscriptionNothingIsPassed == Spec => []NothingIsPassed
<1>1. SubInv => NothingIsPassed BY DEF SubInv, JobOK, Open, NothingIsPassed
<1> QED BY <1>1, SubscriptionInvariant, PTL

(* A child ends only when its author reported the end, never claims more   *)
(* events than there were, and while open is short of every ending         *)
(* (write_terminal_snapshot, classify).                                    *)
THEOREM SubscriptionSettledIsReported == Spec => []SettledIsReported
<1>1. SubInv => SettledIsReported BY DEF SubInv, JobOK, Open, SettledIsReported
<1> QED BY <1>1, SubscriptionInvariant, PTL

-----------------------------------------------------------------------------
(* What is known of a job only grows.                                      *)

(* What is known of a job does not shrink while its child is there.        *)
Grows(j) == child'[j].state # "none" => child'[j].applied >= child[j].applied

(* What is known of a job is a number.                                     *)
LEMMA KnownIsNumber ==
    ASSUME SubInv
    PROVE  \A j \in Jobs : child[j] \in Child /\ child[j].applied \in Nat
BY BoundsAssumption DEF SubInv, Child

(* An answer that extends what is held is at least as far on.              *)
LEMMA SettlesGrows ==
    ASSUME SubInv, NEW j \in Jobs, NEW a \in Answer, Extends(j, a),
           \/ Settles(j, a.seq)
           \/ child' = [child EXCEPT ![j] = Caught(j, a)]
    PROVE  \A k \in Jobs : Grows(k)
<1>1. a.seq \in Nat /\ child \in [Jobs -> Child] BY BoundsAssumption DEF Answer, SubInv
<1>2. child[j] \in Child /\ child[j].applied \in Nat BY KnownIsNumber
<1>3. a.seq >= child[j].applied BY <1>1, <1>2 DEF Extends
<1>4. child'[j].applied = a.seq /\ \A k \in Jobs \ {j} : child'[k] = child[k]
  BY <1>1, <1>2 DEF Settles, Caught, Child
<1> QED BY <1>3, <1>4, KnownIsNumber DEF Grows

(* No step takes back what was known: a snapshot or an event that does not *)
(* extend the child is refused (associate_snapshot_within, reduce).        *)
LEMMA GrowsStep == SubInv /\ [Next]_vars => \A j \in Jobs : Grows(j)
<1> SUFFICES ASSUME SubInv, [Next]_vars PROVE \A j \in Jobs : Grows(j) OBVIOUS
<1>1. CASE UNCHANGED child BY <1>1, KnownIsNumber DEF Grows
<1>2. ASSUME NEW j \in Jobs, Submit(j) PROVE \A k \in Jobs : Grows(k)
  <2>1. \A k \in Jobs : child'[k].applied = child[k].applied
    BY <1>2 DEF Submit, SubInv, Child
  <2> QED BY <2>1, KnownIsNumber DEF Grows
<1>3. CASE Fold
  <2> DEFINE p == consumer.pos
             e == log[p]
  <2>1. CASE UNCHANGED child BY <1>1, <2>1
  <2>2. CASE /\ Judged(e, p, consumer.forged, consumer.view) = "applied" /\ Current(consumer.view)
             /\ child' = [child EXCEPT ![e.job].applied = e.seq]
    <3>1. p \in 1..Len(log) /\ consumer.forged \in BOOLEAN
      BY <1>3, Basics DEF Fold, Holds, SubInv, ConsumerInv
    <3>2. e \in Event /\ e.job \in Jobs BY <3>1, Basics, EventFacts
    <3>3. JobOK(e.job) /\ child[e.job] \in Child BY <3>2 DEF SubInv
    <3> HIDE DEF e, p
    <3>4. e.seq = child[e.job].applied + 1 BY <2>2, <3>1, <3>2, <3>3, JudgedFacts
    <3>5. \A k \in Jobs : child'[k].applied = IF k = e.job THEN e.seq ELSE child[k].applied
      BY <2>2, <3>2, <3>3 DEF SubInv, Child
    <3> QED BY <3>2, <3>4, <3>5, KnownIsNumber DEF Grows
  <2> QED BY <1>3, <2>1, <2>2 DEF Fold
<1>4. CASE TakeEnding
  <2>1. consumer.at = "answered" BY <1>4 DEF TakeEnding, Holds
  <2>2. PICK j \in Jobs : j = log[consumer.pos].job BY <2>1, HeldEvent
  <2>3. PICK a \in Answer : a = consumer.answers[j] BY <2>1, <2>2 DEF SubInv, ConsumerInv
  <2>4. UNCHANGED child \/ (Extends(j, a) /\ Settles(j, a.seq))
    <3> DEFINE h == log[consumer.pos].job
    <3>1. \/ UNCHANGED child
          \/ Extends(h, consumer.answers[h]) /\ Settles(h, consumer.answers[h].seq)
      BY <1>4, Zenon DEF TakeEnding
    <3> QED BY <2>2, <2>3, <3>1
  <2> QED BY <1>1, <2>4, SettlesGrows
<1>5. CASE SettleHandoff
  <2>1. PICK j \in Answered :
            \/ Extends(j, consumer.answers[j]) /\ Settles(j, consumer.answers[j].seq)
            \/ UNCHANGED child
    BY <1>5 DEF SettleHandoff
  <2>2. j \in Jobs /\ consumer.answers[j] \in Answer BY DEF SubInv, ConsumerInv, Answered
  <2> QED BY <1>1, <2>1, <2>2, SettlesGrows
<1>6. CASE Install
  <2>1. CASE UNCHANGED child BY <1>1, <2>1
  <2>2. CASE /\ \A j \in Answered : Extends(j, consumer.answers[j])
             /\ child' = [j \in Jobs |-> IF j \in Answered
                            THEN Caught(j, consumer.answers[j]) ELSE child[j]]
    <3> SUFFICES ASSUME NEW j \in Jobs PROVE Grows(j) OBVIOUS
    <3>1. child[j] \in Child /\ child[j].applied \in Nat BY KnownIsNumber
    <3>2. CASE j \in Answered
      <4>1. consumer.answers[j] \in Answer BY <3>2 DEF SubInv, ConsumerInv, Answered
      <4>2. consumer.answers[j].seq \in Nat BY <4>1, BoundsAssumption DEF Answer
      <4>3. child'[j].applied = consumer.answers[j].seq BY <2>2, <3>1, <3>2 DEF Caught, Child
      <4> QED BY <2>2, <3>1, <3>2, <4>2, <4>3 DEF Extends, Grows
    <3>3. CASE j \notin Answered BY <2>2, <3>1, <3>3 DEF Grows
    <3> QED BY <3>2, <3>3
  <2> QED BY <1>6, <2>1, <2>2 DEF Install
<1>7. CASE ApplyLookup
  <2>1. lookup.job \in Jobs /\ lookup.answer \in Answer
    BY <1>7 DEF ApplyLookup, SubInv, LookupInv
  <2>2. \/ UNCHANGED child
        \/ /\ Extends(lookup.job, lookup.answer)
           /\ \/ Settles(lookup.job, lookup.answer.seq)
              \/ child' = [child EXCEPT ![lookup.job] = Caught(lookup.job, lookup.answer)]
    BY <1>7 DEF ApplyLookup
  <2> QED BY <1>1, <2>1, <2>2, SettlesGrows
<1>8. ASSUME NEW rows \in SUBSET Jobs, NEW old \in SUBSET Jobs, Maintain(rows, old)
      PROVE  \A j \in Jobs : Grows(j)
  <2>1. \A j \in Jobs : child'[j] = NoChild \/ child'[j] = child[j] BY <1>8 DEF Maintain
  <2> QED BY <2>1, KnownIsNumber DEF Grows, NoChild
<1>9. CASE UNCHANGED vars BY <1>1, <1>9 DEF vars, records
<1>10. ASSUME NEW j \in Jobs, \/ Schedule(j) \/ LookAtMember(j) \/ AskLookup(j)
                               \/ \E ends \in BOOLEAN : Emit(j, ends)
                               \/ \E kind \in {"lost", "exhausted"} : GiveUp(j, kind)
       PROVE  UNCHANGED child
  BY <1>10 DEF Schedule, LookAtMember, AskLookup, Emit, GiveUp, records
<1>11. ASSUME NEW p \in 0..MaxEvents, Attach(p) \/ Compact(p) PROVE UNCHANGED child
  BY <1>11 DEF Attach, Compact, records
<1>12. ASSUME NEW forged \in BOOLEAN, Receive(forged) PROVE UNCHANGED child
  BY <1>12 DEF Receive, records
<1>13. CASE Detach \/ AskEnding \/ AskEndingFails \/ BeginReset \/ Capture \/ Restart
  BY <1>1, <1>13 DEF Detach, AskEnding, AskEndingFails, BeginReset, Capture, Restart, records
<1> HIDE DEF Grows
<1> QED BY <1>1, <1>2, <1>3, <1>4, <1>5, <1>6, <1>7, <1>8, <1>9, <1>10, <1>11, <1>12, <1>13 DEF Next

(* What has been applied of a job never goes back, however late an answer  *)
(* or an event comes.                                                      *)
THEOREM SubscriptionAppliedOnlyGrows == Spec => AppliedOnlyGrows
<1>1. SubInv /\ [Next]_vars
         => [\A j \in Jobs : child'[j].state # "none" => child'[j].applied >= child[j].applied]_vars
  BY GrowsStep DEF Grows
<1> QED BY <1>1, SubscriptionInvariant, PTL DEF Spec, AppliedOnlyGrows
=============================================================================
