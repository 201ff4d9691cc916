------------------------ MODULE SchedulerQueueProofs ------------------------
(***************************************************************************)
(* Proofs about the queue of a target, for any number of operations,       *)
(* producers, executions in the air, claims and restarts: one executor per *)
(* operation, no claim without its task, and no producer passed twice.     *)
(* The inductive invariant is QueueInv.                                    *)
(***************************************************************************)
EXTENDS SchedulerQueue, FiniteSetTheorems, FunctionTheorems, WellFoundedInduction, TLAPS

(* Fences tell the tasks of one process apart, and no task outlives it.    *)
FencesTellTasks ==
    /\ IsFiniteSet(tasks)
    /\ \A t \in tasks : t.fence < nextFence
    /\ \A t, u \in tasks : t.fence = u.fence => t = u
    /\ daemon = "down" => tasks = {}

(* A task is about an admitted row, and knows its outcome when it settles. *)
TasksAreAdmitted ==
    \A t \in tasks :
        /\ row[t.op].status # "absent"
        /\ t.phase = "settling" => t.outcome # "none"

(* Only a queued row is held for a person, and only one whose claim, if    *)
(* any, has its checkpoint.                                                *)
HeldRows ==
    \A o \in Operations :
        /\ row[o].manual => Queued(o)
        /\ row[o].manual /\ row[o].fence # 0 => row[o].started

(* What an execution in progress has over its row: its claim, until        *)
(* somebody takes the claim from a row no one else can be given.  A        *)
(* running one has not put its row on hold.                                *)
ExecutorHolds ==
    \A t \in Executing :
        /\ \/ Holds(t)
           \/ row[t.op].fence = 0 /\ (row[t.op].manual \/ row[t.op].status = "ended")
        /\ t.phase = "running" => ~row[t.op].manual

(* ClaimHasTask, while the tasks are awaited too.                          *)
ClaimsCovered ==
    daemon \in {"up", "draining"} =>
        \A o \in Operations :
            (Queued(o) /\ ~row[o].manual /\ row[o].fence # 0) =>
                \E t \in tasks : t.op = o /\ t.fence = row[o].fence

(* Admission numbers rows apart, and no two producers share a turn.        *)
NumbersDiffer ==
    /\ \A o, x \in Operations :
          o # x /\ row[o].status # "absent" => row[o].seq # row[x].seq
    /\ \A p, q \in Producers : p # q /\ turns[p] # 0 => turns[p] # turns[q]

(* A producer that has been passed still waits, ahead of whoever passed it.*)
PassedIsAhead ==
    \A p, q \in Producers : passes[p][q] # 0 =>
        /\ p # q /\ p \in Waiting /\ turns[p] # 0
        /\ turns[q] = 0 \/ turns[p] < turns[q]

ClaimInv ==
    /\ TypeOK /\ FencesTellTasks /\ TasksAreAdmitted /\ HeldRows
    /\ ExecutorHolds /\ OneExecutor /\ ClaimsCovered

QueueInv == ClaimInv /\ NumbersDiffer /\ PassedIsAhead /\ PassedAtMostOnce

-----------------------------------------------------------------------------
(* Finite sets of numbered things.                                         *)

(* Every nonempty subset of a finite set that is numbered has a member     *)
(* with the largest number: otherwise a smallest one without would be left *)
(* with none after losing a member.                                        *)
LEMMA GreatestExists ==
    ASSUME NEW S, IsFiniteSet(S), S # {}, NEW f \in [S -> Int]
    PROVE  \E x \in S : \A y \in S : f[y] <= f[x]
<1> DEFINE R == StrictSubsetOrdering(S)
           Greatest(U) == \E x \in U : \A y \in U : f[y] <= f[x]
           Bad == {U \in FiniteSubsetsOf(S) : U # {} /\ ~Greatest(U)}
<1>1. S \in FiniteSubsetsOf(S) BY DEF FiniteSubsetsOf
<1>2. SUFFICES Bad = {} BY <1>1
<1>3. SUFFICES ASSUME Bad # {} PROVE FALSE OBVIOUS
<1>4. PICK U \in Bad : \A V \in Bad : <<V, U>> \notin R
  <2>1. IsWellFoundedOn(R, FiniteSubsetsOf(S)) BY FS_StrictSubsetOrderingWellFounded
  <2>2. Bad \subseteq FiniteSubsetsOf(S) OBVIOUS
  <2> HIDE DEF R, Bad
  <2> QED BY <1>3, <2>1, <2>2, WFMin
<1>5. PICK u \in U : TRUE OBVIOUS
<1>6. U \subseteq S /\ IsFiniteSet(U) BY DEF FiniteSubsetsOf
<1>7. U \ {u} \in FiniteSubsetsOf(S) BY <1>6, FS_RemoveElement DEF FiniteSubsetsOf
<1>8. <<U \ {u}, U>> \in R BY <1>5, <1>6, <1>7 DEF StrictSubsetOrdering, FiniteSubsetsOf
<1>9. U \ {u} \notin Bad BY <1>4, <1>8
<1>10. CASE U \ {u} = {}
  <2>1. \A y \in U : y = u BY <1>10
  <2> QED BY <1>5, <1>6, <2>1
<1>11. CASE U \ {u} # {}
  <2>1. PICK x \in U \ {u} : \A y \in U \ {u} : f[y] <= f[x] BY <1>7, <1>9, <1>11
  <2>2. CASE f[x] <= f[u]
    <3>1. \A y \in U : f[y] <= f[u] BY <1>5, <1>6, <2>1, <2>2
    <3> QED BY <1>5, <3>1
  <2>3. CASE ~(f[x] <= f[u])
    <3>1. \A y \in U : f[y] <= f[x] BY <1>5, <1>6, <2>1, <2>3
    <3> QED BY <2>1, <3>1
  <2> QED BY <2>2, <2>3
<1> QED BY <1>10, <1>11

(* The same for the smallest number.                                       *)
LEMMA LeastExists ==
    ASSUME NEW S, IsFiniteSet(S), S # {}, NEW f \in [S -> Int]
    PROVE  \E x \in S : \A y \in S : f[x] <= f[y]
<1> DEFINE g == [x \in S |-> 0 - f[x]]
<1>1. g \in [S -> Int] OBVIOUS
<1> HIDE DEF g
<1>2. PICK x \in S : \A y \in S : g[y] <= g[x] BY <1>1, GreatestExists
<1>3. \A y \in S : f[x] <= f[y] BY <1>2 DEF g
<1> QED BY <1>3

-----------------------------------------------------------------------------
(* Rows and tasks.                                                         *)

(* Clearing the claim columns leaves the rest of a row.                    *)
LEMMA UnclaimedFacts ==
    ASSUME NEW r \in Row
    PROVE  /\ Unclaimed(r) \in Row
           /\ Unclaimed(r).status = r.status /\ Unclaimed(r).manual = r.manual
           /\ Unclaimed(r).delay = r.delay /\ Unclaimed(r).seq = r.seq
           /\ Unclaimed(r).fence = 0 /\ ~Unclaimed(r).started
BY DEF Unclaimed, Row

(* A fact folded into a row leaves its claim columns, and an ended row     *)
(* altogether.                                                             *)
LEMMA FoldedFacts ==
    ASSUME NEW r \in Row, NEW outcome \in {"retry", "hold", "ended"}
    PROVE  LET f == Folded(r, outcome) IN
           /\ f \in Row
           /\ f.fence = r.fence /\ f.started = r.started /\ f.seq = r.seq
           /\ r.status # "queued" => f = r
           /\ r.status = "queued" =>
                /\ f.manual = (outcome = "hold")
                /\ f.status = IF outcome = "ended" THEN "ended" ELSE "queued"
<1>1. CASE r.status # "queued" BY <1>1 DEF Folded
<1>2. CASE r.status = "queued" /\ outcome = "ended"
  <2>1. Folded(r, outcome) = [r EXCEPT !.status = "ended", !.manual = FALSE, !.delay = "none"]
    BY <1>2 DEF Folded
  <2> QED BY <1>2, <2>1 DEF Row
<1>3. CASE r.status = "queued" /\ outcome = "hold"
  <2>1. Folded(r, outcome) = [r EXCEPT !.manual = TRUE, !.delay = "running"]
    BY <1>3 DEF Folded
  <2> QED BY <1>3, <2>1 DEF Row
<1>4. CASE r.status = "queued" /\ outcome = "retry"
  <2>1. Folded(r, outcome) = [r EXCEPT !.manual = FALSE, !.delay = "running"]
    BY <1>4 DEF Folded
  <2> QED BY <1>4, <2>1 DEF Row
<1> QED BY <1>1, <1>2, <1>3, <1>4

(* A release under a fence clears the claim it names, or nothing.          *)
LEMMA FreedFacts ==
    ASSUME TypeOK, NEW t \in tasks
    PROVE  LET r == row[t.op] IN
           /\ t \in Task /\ r \in Row /\ Freed(t) \in Row
           /\ Freed(t).status = r.status /\ Freed(t).manual = r.manual /\ Freed(t).seq = r.seq
           /\ r.fence # t.fence => Freed(t) = r
           /\ r.fence = t.fence => Freed(t).fence = 0 /\ ~Freed(t).started
<1>1. t \in Task BY DEF TypeOK
<1>2. row[t.op] \in Row BY <1>1 DEF TypeOK, Task
<1> QED BY <1>1, <1>2, UnclaimedFacts DEF Freed

(* A task that goes on is still the one task with its fence.               *)
LEMMA BecomesFacts ==
    ASSUME TypeOK, IsFiniteSet(tasks), NEW t \in tasks,
           NEW phase \in {"spawned", "running", "settling", "releasing"},
           NEW outcome \in {"none", "retry", "hold", "ended"}, Becomes(t, phase, outcome)
    PROVE  \E n \in Task :
             /\ n.op = t.op /\ n.fence = t.fence /\ n.phase = phase /\ n.outcome = outcome
             /\ tasks' = (tasks \ {t}) \cup {n}
             /\ IsFiniteSet(tasks') /\ Cardinality(tasks') <= MaxInFlight
<1> DEFINE n == [t EXCEPT !.phase = phase, !.outcome = outcome]
<1>1. t \in Task BY DEF TypeOK
<1>2. n \in Task /\ n.op = t.op /\ n.fence = t.fence /\ n.phase = phase /\ n.outcome = outcome
  BY <1>1 DEF Task
<1>3. tasks' = (tasks \ {t}) \cup {n} BY DEF Becomes
<1> HIDE DEF n
<1>4. /\ IsFiniteSet(tasks \ {t}) /\ Cardinality(tasks \ {t}) = Cardinality(tasks) - 1
      /\ Cardinality(tasks) \in Nat
  BY FS_RemoveElement, FS_CardinalityType
<1>5. /\ IsFiniteSet(tasks')
      /\ Cardinality(tasks') = Cardinality(tasks) - 1 \/ Cardinality(tasks') = Cardinality(tasks)
  BY <1>3, <1>4, FS_AddElement
<1>6. Cardinality(tasks) <= MaxInFlight /\ MaxInFlight \in Nat BY QueueAssumption DEF TypeOK
<1>7. Cardinality(tasks') <= MaxInFlight BY <1>4, <1>5, <1>6
<1> QED BY <1>2, <1>3, <1>5, <1>7

(* A task that is over leaves room.                                        *)
LEMMA TaskGone ==
    ASSUME TypeOK, IsFiniteSet(tasks), NEW t \in tasks, tasks' = tasks \ {t}
    PROVE  tasks' \subseteq Task /\ IsFiniteSet(tasks') /\ Cardinality(tasks') <= MaxInFlight
<1>1. /\ IsFiniteSet(tasks') /\ Cardinality(tasks') = Cardinality(tasks) - 1
      /\ Cardinality(tasks) \in Nat
  BY FS_RemoveElement, FS_CardinalityType
<1>2. Cardinality(tasks) <= MaxInFlight /\ MaxInFlight \in Nat BY QueueAssumption DEF TypeOK
<1> QED BY <1>1, <1>2 DEF TypeOK

-----------------------------------------------------------------------------
(* The steps keep who has claimed and executes what.                       *)

PassesTyped == passes \in [Producers -> [Producers -> 0..2]]

(* The history counts to two.                                              *)
LEMMA RememberTyped == ASSUME TypeOK, Remember PROVE PassesTyped'
<1> DEFINE served == { ProducerOf[t.op] : t \in { u \in tasks' : u.fence = nextFence } }
           kept(p) == p \in (Waiting \cap Waiting') \ served
           new(p) == [q \in Producers |-> IF q \in served /\ passes[p][q] < 2
                                          THEN passes[p][q] + 1 ELSE passes[p][q]]
<1>1. passes' = [p \in Producers |-> IF kept(p) THEN new(p) ELSE NoPasses]
  BY DEF Remember
<1>2. NoPasses \in [Producers -> 0..2] BY DEF NoPasses
<1>3. ASSUME NEW p \in Producers PROVE new(p) \in [Producers -> 0..2]
  <2>1. \A q \in Producers : passes[p][q] \in 0..2 BY DEF TypeOK
  <2> QED BY <2>1
<1> HIDE DEF kept, new
<1> QED BY <1>1, <1>2, <1>3 DEF PassesTyped

(* A step that moves one row, and no task.                                 *)
LEMMA RowMoves ==
    ASSUME ClaimInv, PassesTyped', UNCHANGED <<turns, tasks, nextFence, daemon, restarts>>,
           NEW o \in Operations, NEW r \in Row, row' = [row EXCEPT ![o] = r],
           r.status # "absent",
           r.manual => r.status = "queued" /\ (r.fence # 0 => r.started),
           \A t \in Executing : t.op = o =>
              /\ \/ r.fence = t.fence /\ r.started
                 \/ r.fence = 0 /\ (r.manual \/ r.status = "ended")
              /\ t.phase = "running" => ~r.manual,
           r.status = "queued" /\ ~r.manual /\ r.fence # 0 =>
              r.fence = row[o].fence /\ Queued(o) /\ ~row[o].manual
    PROVE  ClaimInv'
<1> USE DEF ClaimInv
<1>1. row' \in [Operations -> Row] /\ row'[o] = r
      /\ \A x \in Operations : x # o => row'[x] = row[x]
  BY DEF TypeOK
<1>2. \A t \in tasks : t.op \in Operations BY DEF TypeOK, Task
<1>3. TypeOK' BY <1>1 DEF TypeOK, PassesTyped
<1>4. FencesTellTasks' BY DEF FencesTellTasks
<1>5. TasksAreAdmitted' BY <1>1, <1>2 DEF TasksAreAdmitted
<1>6. HeldRows' BY <1>1 DEF HeldRows, Queued
<1>7. ExecutorHolds' /\ OneExecutor'
  BY <1>1, <1>2 DEF ExecutorHolds, OneExecutor, Executing, Holds
<1>8. ClaimsCovered' BY <1>1 DEF ClaimsCovered, Queued
<1> QED BY <1>3, <1>4, <1>5, <1>6, <1>7, <1>8

(* A step that ends a task and gives up its claim, if the row is not held. *)
LEMMA TaskEnds ==
    ASSUME ClaimInv, PassesTyped', UNCHANGED <<turns, nextFence, restarts>>,
           daemon # "down", daemon' = daemon \/ daemon' = "abandoning",
           NEW t \in tasks, tasks' = tasks \ {t},
           NEW r \in Row, row' = [row EXCEPT ![t.op] = r],
           r.status # "absent",
           r.manual => r.status = "queued" /\ (r.fence # 0 => r.started),
           \/ r = row[t.op] /\ (row[t.op].fence # t.fence \/ r.manual)
           \/ Holds(t) /\ t \in Executing /\ (r.fence = 0 \/ r.manual)
           \/ row[t.op].fence = t.fence /\ r.fence = 0 /\ t \notin Executing
    PROVE  ClaimInv'
<1> USE DEF ClaimInv
<1>1. /\ row' \in [Operations -> Row] /\ row'[t.op] = r
      /\ \A x \in Operations : x # t.op => row'[x] = row[x]
  BY DEF TypeOK, Task
<1>2. \A u \in tasks : u.op \in Operations /\ u.fence # 0 BY DEF TypeOK, Task
<1>3. TypeOK' BY <1>1, TaskGone DEF TypeOK, FencesTellTasks, PassesTyped
<1>4. FencesTellTasks' BY TaskGone DEF FencesTellTasks
<1>5. TasksAreAdmitted' BY <1>1, <1>2 DEF TasksAreAdmitted
<1>6. HeldRows' BY <1>1 DEF HeldRows, Queued
<1>7. \A u \in tasks : u # t => u.fence # t.fence BY DEF FencesTellTasks
<1>8. OneExecutor' BY DEF OneExecutor, Executing
<1>9. ExecutorHolds'
  <2> SUFFICES ASSUME NEW u \in Executing'
               PROVE  /\ \/ Holds(u)'
                         \/ row'[u.op].fence = 0 /\ (row'[u.op].manual \/ row'[u.op].status = "ended")
                      /\ u.phase = "running" => ~row'[u.op].manual
    BY DEF ExecutorHolds
  <2>1. u \in Executing /\ u # t /\ u \in tasks BY DEF Executing
  <2>2. CASE u.op # t.op BY <1>1, <1>2, <2>1, <2>2 DEF ExecutorHolds, Holds
  <2>3. CASE u.op = t.op
    <3>1. t \notin Executing BY <2>1, <2>3 DEF OneExecutor
    <3>2. row[t.op].fence # t.fence
      BY <1>2, <1>7, <2>1, <2>3 DEF ExecutorHolds, Holds
    <3> QED BY <1>1, <2>1, <2>3, <3>1, <3>2 DEF ExecutorHolds, Holds
  <2> QED BY <2>2, <2>3
<1>10. ClaimsCovered' BY <1>1, <1>2, <1>7 DEF ClaimsCovered, Queued, Holds
<1> QED BY <1>3, <1>4, <1>5, <1>6, <1>8, <1>9, <1>10

(* A step that takes a task on, with a row that keeps its claim.           *)
LEMMA TaskGoesOn ==
    ASSUME ClaimInv, PassesTyped', UNCHANGED <<turns, nextFence, daemon, restarts>>,
           daemon # "down", NEW t \in tasks,
           NEW phase \in {"running", "settling", "releasing"},
           NEW outcome \in {"none", "retry", "hold", "ended"}, Becomes(t, phase, outcome),
           phase = "settling" => outcome # "none",
           NEW r \in Row, row' = [row EXCEPT ![t.op] = r],
           r.status # "absent", row[t.op].status = "ended" => r.status = "ended",
           r.manual => r.status = "queued",
           r.fence = row[t.op].fence,
           r.started = row[t.op].started \/ (row[t.op].fence = t.fence /\ r.started),
           r.manual = row[t.op].manual \/ (t.phase = "running" /\ phase = "settling"),
           \/ phase = "releasing"
           \/ phase = "settling" /\ t.phase = "running"
           \/ phase = "running" /\ row[t.op].fence = t.fence /\ ~row[t.op].started /\ r.started
    PROVE  ClaimInv'
<1> USE DEF ClaimInv
<1>1. /\ row' \in [Operations -> Row] /\ row'[t.op] = r
      /\ \A x \in Operations : x # t.op => row'[x] = row[x]
  BY DEF TypeOK, Task
<1>2. \A u \in tasks : u \in Task /\ u.op \in Operations /\ u.fence # 0 BY DEF TypeOK, Task
<1>3. PICK n \in Task :
        /\ n.op = t.op /\ n.fence = t.fence /\ n.phase = phase /\ n.outcome = outcome
        /\ tasks' = (tasks \ {t}) \cup {n}
        /\ IsFiniteSet(tasks') /\ Cardinality(tasks') <= MaxInFlight
  BY BecomesFacts DEF FencesTellTasks
<1>4. \A u \in tasks : u # t => u.fence # t.fence BY DEF FencesTellTasks
<1>5. TypeOK' BY <1>1, <1>3 DEF TypeOK, PassesTyped
<1>6. FencesTellTasks' BY <1>3, <1>4 DEF FencesTellTasks
<1>7. TasksAreAdmitted' BY <1>1, <1>2, <1>3 DEF TasksAreAdmitted
<1>a. row[t.op] \in Row /\ row[t.op].status # "absent" BY <1>2 DEF TypeOK, TasksAreAdmitted
<1>b. t.phase = "running" =>
        /\ ~row[t.op].manual
        /\ Holds(t) \/ (row[t.op].fence = 0 /\ row[t.op].status = "ended")
  BY DEF ExecutorHolds, Executing
<1>8. HeldRows'
  <2>1. r.manual /\ r.fence # 0 => r.started BY <1>2, <1>b DEF HeldRows, Holds
  <2> QED BY <1>1, <2>1 DEF HeldRows, Queued
<1>9. ASSUME NEW u \in Executing, u # t, u.op = t.op
      PROVE  t \notin Executing /\ phase = "releasing"
  BY <1>2, <1>4, <1>9 DEF OneExecutor, ExecutorHolds, Holds, Executing
<1>10. OneExecutor' BY <1>3, <1>9 DEF OneExecutor, Executing
<1>11. ExecutorHolds'
  <2> SUFFICES ASSUME NEW u \in Executing'
               PROVE  /\ \/ Holds(u)'
                         \/ row'[u.op].fence = 0 /\ (row'[u.op].manual \/ row'[u.op].status = "ended")
                      /\ u.phase = "running" => ~row'[u.op].manual
    BY DEF ExecutorHolds
  <2>1. CASE u # n
    <3>1. u \in Executing /\ u \in tasks /\ u # t BY <1>3, <2>1 DEF Executing
    <3>2. CASE u.op # t.op BY <1>1, <1>2, <3>1, <3>2 DEF ExecutorHolds, Holds
    <3>3. CASE u.op = t.op
      <4>1. t \notin Executing /\ phase = "releasing" BY <1>9, <3>1, <3>3
      <4>2. u.fence # t.fence /\ r.manual = row[t.op].manual BY <1>4, <3>1, <4>1
      <4> QED BY <1>1, <1>2, <3>1, <3>3, <4>2 DEF ExecutorHolds, Holds
    <3> QED BY <3>2, <3>3
  <2>2. CASE u = n
    <3>1. phase # "releasing" BY <1>3, <2>2 DEF Executing
    <3>2. CASE phase = "settling" BY <1>1, <1>3, <1>b, <2>2, <3>1, <3>2 DEF Holds
    <3>3. CASE phase = "running"
      BY <1>1, <1>2, <1>3, <2>2, <3>1, <3>3 DEF Holds, HeldRows
    <3> QED BY <3>1, <3>2, <3>3
  <2> QED BY <2>1, <2>2
<1>12. ClaimsCovered'
  <2> SUFFICES ASSUME daemon \in {"up", "draining"}, NEW o \in Operations,
                      Queued(o)', ~row'[o].manual, row'[o].fence # 0
               PROVE  \E u \in tasks' : u.op = o /\ u.fence = row'[o].fence
    BY DEF ClaimsCovered
  <2>1. Queued(o) /\ ~row[o].manual /\ row[o].fence = row'[o].fence
    BY <1>1, <1>a, <1>b DEF Queued, Row
  <2>2. PICK u \in tasks : u.op = o /\ u.fence = row[o].fence BY <2>1 DEF ClaimsCovered
  <2> QED BY <1>3, <2>1, <2>2
<1> QED BY <1>5, <1>6, <1>7, <1>8, <1>10, <1>11, <1>12

(* The largest number of a row, or of a turn, exists.                      *)
LEMMA MaxOf ==
    ASSUME NEW D, IsFiniteSet(D), D # {}, NEW f \in [D -> Nat]
    PROVE  /\ Max({ f[x] : x \in D }) \in Nat
           /\ \A x \in D : f[x] <= Max({ f[y] : y \in D })
<1> DEFINE S == { f[x] : x \in D }
<1>1. f \in [D -> Int] OBVIOUS
<1>2. PICK x \in D : \A y \in D : f[y] <= f[x] BY <1>1, GreatestExists
<1>3. f[x] \in S /\ \A n \in S : f[x] >= n BY <1>2
<1>4. Max(S) \in S /\ \A n \in S : Max(S) >= n BY <1>3 DEF Max
<1> QED BY <1>4

(* Admission (finish_execute) numbers the row past every other.            *)
LEMMA AdmitKeeps ==
    ASSUME ClaimInv, PassesTyped', NEW o \in Operations, Admit(o)
    PROVE  ClaimInv'
<1> DEFINE n == 1 + Max({ row[x].seq : x \in Operations })
           r == [NoRow EXCEPT !.status = "queued", !.seq = n]
           f == [x \in Operations |-> row[x].seq]
<1>1. f \in [Operations -> Nat] BY DEF ClaimInv, TypeOK, Row
<1>2. { row[x].seq : x \in Operations } = { f[x] : x \in Operations } OBVIOUS
<1>3. Max({ f[x] : x \in Operations }) \in Nat
  <2> HIDE DEF f
  <2> QED BY <1>1, MaxOf, QueueAssumption
<1>4. n \in Nat BY <1>2, <1>3
<1>5. row' = [row EXCEPT ![o] = r] BY DEF Admit
<1> HIDE DEF n
<1>6. r \in Row /\ r.status = "queued" /\ ~r.manual /\ r.fence = 0 BY <1>4 DEF NoRow, Row
<1>7. \A t \in tasks : t.op # o BY DEF Admit, ClaimInv, TasksAreAdmitted
<1> HIDE DEF r
<1> QED BY <1>5, <1>6, <1>7, RowMoves DEF Admit, Executing

(* The clock, over a retry delay or a lease.                               *)
LEMMA ClockKeeps ==
    ASSUME ClaimInv, PassesTyped', NEW o \in Operations, DelayOver(o) \/ LeaseLapses(o)
    PROVE  ClaimInv'
<1>1. PICK r \in Row :
        /\ row' = [row EXCEPT ![o] = r]
        /\ r.status = row[o].status /\ r.manual = row[o].manual
        /\ r.fence = row[o].fence /\ r.started = row[o].started
  <2>1. row[o] \in Row BY DEF ClaimInv, TypeOK
  <2>2. CASE DelayOver(o)
    <3> DEFINE r == [row[o] EXCEPT !.delay = "over"]
    <3>1. row' = [row EXCEPT ![o] = r] BY <2>1, <2>2 DEF DelayOver, Row
    <3>2. /\ r \in Row /\ r.status = row[o].status /\ r.manual = row[o].manual
          /\ r.fence = row[o].fence /\ r.started = row[o].started
      BY <2>1 DEF Row
    <3> QED BY <3>1, <3>2
  <2>3. CASE LeaseLapses(o)
    <3> DEFINE r == [row[o] EXCEPT !.lease = "lapsed"]
    <3>1. row' = [row EXCEPT ![o] = r] BY <2>1, <2>3 DEF LeaseLapses, Row
    <3>2. /\ r \in Row /\ r.status = row[o].status /\ r.manual = row[o].manual
          /\ r.fence = row[o].fence /\ r.started = row[o].started
      BY <2>1 DEF Row
    <3> QED BY <3>1, <3>2
  <2> QED BY <2>2, <2>3
<1>2. Queued(o) /\ UNCHANGED <<turns, tasks, nextFence, daemon, restarts>>
  BY DEF DelayOver, LeaseLapses
<1>3. r.manual => r.status = "queued" /\ (r.fence # 0 => r.started)
  BY <1>1 DEF ClaimInv, HeldRows, Queued
<1>4. \A t \in Executing : t.op = o =>
        /\ \/ r.fence = t.fence /\ r.started
           \/ r.fence = 0 /\ (r.manual \/ r.status = "ended")
        /\ t.phase = "running" => ~r.manual
  BY <1>1 DEF ClaimInv, ExecutorHolds, Holds
<1> QED BY <1>1, <1>2, <1>3, <1>4, RowMoves DEF Queued

(* Healing and resume take the claim from a row that is held.              *)
LEMMA HeldRowKeeps ==
    ASSUME ClaimInv, PassesTyped', NEW o \in Operations, Heal(o) \/ Resume(o)
    PROVE  ClaimInv'
<1>1. row[o] \in Row /\ row[o].manual /\ Queued(o) BY DEF ClaimInv, TypeOK, Heal, Resume
<1>2. PICK r \in Row :
        /\ row' = [row EXCEPT ![o] = r] /\ r.fence = 0
        /\ \/ r.status = "ended" /\ ~r.manual
           \/ r.status = "queued" /\ r.manual
  <2>1. CASE Heal(o)
    <3>1. /\ Folded(row[o], "ended") \in Row /\ ~Folded(row[o], "ended").manual
          /\ Folded(row[o], "ended").status = "ended"
      BY <1>1, FoldedFacts DEF Queued
    <3>2. row' = [row EXCEPT ![o] = Unclaimed(Folded(row[o], "ended"))] BY <2>1 DEF Heal
    <3> QED BY <3>1, <3>2, UnclaimedFacts
  <2>2. CASE Resume(o) BY <1>1, <2>2, UnclaimedFacts DEF Resume, Queued
  <2> QED BY <2>1, <2>2
<1>3. \A t \in Executing : t.op = o => t.phase # "running"
  BY <1>1 DEF ClaimInv, ExecutorHolds
<1> QED BY <1>2, <1>3, RowMoves DEF Heal, Resume

(* The least candidate in the order of turns and sequence numbers is taken *)
(* from Ready, or CHOOSE would have no witness: see ChosenIsFirst.         *)
LEMMA ClaimKeeps ==
    ASSUME ClaimInv, PassesTyped', Claim, Chosen \in Ready, Rotated(Chosen) \in [Producers -> Nat]
    PROVE  ClaimInv'
<1> DEFINE o == Chosen
           d == IF row[o].delay = "none" THEN row[o].delay ELSE "running"
           r == [row[o] EXCEPT !.fence = nextFence, !.lease = "live", !.delay = d]
           n == [op |-> o, fence |-> nextFence, phase |-> "spawned", outcome |-> "none"]
<1> HIDE DEF o
<1> USE DEF ClaimInv
<1>1. /\ o \in Operations /\ Queued(o) /\ ~row[o].manual /\ ~row[o].started
      /\ row[o] \in Row /\ nextFence \in Nat \ {0} /\ nextFence <= MaxFence
  BY QueueAssumption DEF o, Ready, Candidates, TypeOK, Claim
<1>2. /\ row' = [row EXCEPT ![o] = r] /\ tasks' = tasks \cup {n} /\ turns' = Rotated(o)
      /\ nextFence' = nextFence + 1 /\ daemon' = daemon /\ daemon = "up" /\ restarts' = restarts
  BY <1>1 DEF Claim, o, Row
<1>3. /\ r \in Row /\ r.status = "queued" /\ r.fence = nextFence /\ ~r.manual /\ ~r.started
  BY <1>1 DEF Row, Queued
<1>4. n \in Task /\ n.op = o /\ n.fence = nextFence /\ n.phase = "spawned"
  BY <1>1 DEF Task
<1> HIDE DEF r, n
<1>5. /\ row' \in [Operations -> Row] /\ row'[o] = r
      /\ \A x \in Operations : x # o => row'[x] = row[x]
  BY <1>1, <1>2, <1>3 DEF TypeOK
<1>6. \A t \in tasks : t \in Task /\ t.op \in Operations /\ t.fence # 0 /\ t.fence < nextFence
  BY DEF TypeOK, Task, FencesTellTasks
<1>7. n \notin tasks BY <1>1, <1>4, <1>6
<1>8. IsFiniteSet(tasks') /\ Cardinality(tasks') <= MaxInFlight
  <2>1. IsFiniteSet(tasks') /\ Cardinality(tasks') = Cardinality(tasks) + 1
    BY <1>2, <1>7, FS_AddElement DEF FencesTellTasks
  <2>2. Cardinality(tasks) \in Nat BY FS_CardinalityType DEF FencesTellTasks
  <2> QED BY <2>1, <2>2, QueueAssumption DEF Claim
<1>9. TypeOK'
  <2>1. nextFence' \in 1..(MaxFence + 1) BY <1>1, <1>2, QueueAssumption
  <2>2. turns' \in [Producers -> Nat] BY <1>2 DEF o
  <2> QED BY <1>2, <1>4, <1>5, <1>8, <2>1, <2>2 DEF TypeOK, PassesTyped
<1>10. FencesTellTasks' BY <1>1, <1>2, <1>4, <1>6, <1>8 DEF FencesTellTasks, Task
<1>11. TasksAreAdmitted' BY <1>2, <1>3, <1>4, <1>5, <1>6 DEF TasksAreAdmitted
<1>12. HeldRows' BY <1>3, <1>5 DEF HeldRows, Queued
<1>13. \A t \in Executing : t.op # o BY <1>1 DEF ExecutorHolds, Holds, Queued
<1>14. Executing' = Executing BY <1>2, <1>4 DEF Executing
<1>15. ExecutorHolds' BY <1>5, <1>6, <1>13, <1>14 DEF ExecutorHolds, Holds, Executing
<1>16. OneExecutor' BY <1>14 DEF OneExecutor
<1>17. ClaimsCovered' BY <1>2, <1>3, <1>4, <1>5 DEF ClaimsCovered, Queued
<1> QED BY <1>9, <1>10, <1>11, <1>12, <1>15, <1>16, <1>17

(* A poll that claims nothing, and a stop, leave rows and tasks.           *)
LEMMA PollAndStopKeep ==
    ASSUME ClaimInv, PassesTyped',
           (PollNothing /\ Ordered \in [Producers -> Nat]) \/ Stop \/ Drained
    PROVE  ClaimInv'
<1> USE DEF ClaimInv, PollNothing, Stop, Drained, durable
<1>1. TypeOK' BY DEF TypeOK, PassesTyped
<1>2. FencesTellTasks' /\ TasksAreAdmitted' /\ HeldRows'
  BY DEF FencesTellTasks, TasksAreAdmitted, HeldRows, Queued
<1>3. ExecutorHolds' /\ OneExecutor' BY DEF ExecutorHolds, OneExecutor, Executing, Holds
<1>4. ClaimsCovered' BY DEF ClaimsCovered, Queued
<1> QED BY <1>1, <1>2, <1>3, <1>4

(* A process that dies takes its tasks along.                              *)
LEMMA DieKeeps ==
    ASSUME ClaimInv, PassesTyped', Die
    PROVE  ClaimInv'
<1> USE DEF ClaimInv, Die, durable
<1>1. Cardinality(tasks') = 0 /\ IsFiniteSet(tasks') BY FS_EmptySet
<1>2. TypeOK' BY <1>1, QueueAssumption DEF TypeOK, PassesTyped
<1>3. FencesTellTasks' /\ TasksAreAdmitted' /\ HeldRows'
  BY <1>1 DEF FencesTellTasks, TasksAreAdmitted, HeldRows, Queued
<1>4. ExecutorHolds' /\ OneExecutor' /\ ClaimsCovered'
  BY DEF ExecutorHolds, OneExecutor, Executing, ClaimsCovered
<1> QED BY <1>2, <1>3, <1>4

(* A new process starts its fences over, with no task and no claim on a    *)
(* row it may be given (recover_abandoned_claims).                         *)
LEMMA RestartKeeps ==
    ASSUME ClaimInv, PassesTyped', Restart
    PROVE  ClaimInv'
<1> USE DEF ClaimInv
<1> DEFINE r(o) == [row[o] EXCEPT !.delay = IF @ = "over" THEN "running" ELSE @]
<1>1. tasks = {} /\ tasks' = {} BY DEF Restart, FencesTellTasks
<1>2. ASSUME NEW o \in Operations
      PROVE  /\ row'[o] \in Row /\ row'[o].status = row[o].status
             /\ row'[o].manual = row[o].manual /\ row'[o].seq = row[o].seq
             /\ Queued(o) /\ ~row[o].manual => row'[o].fence = 0
             /\ ~(Queued(o) /\ ~row[o].manual) =>
                  row'[o].fence = row[o].fence /\ row'[o].started = row[o].started
  <2>1. row[o] \in Row BY DEF TypeOK
  <2>2. /\ r(o) \in Row /\ r(o).status = row[o].status /\ r(o).manual = row[o].manual
        /\ r(o).fence = row[o].fence /\ r(o).started = row[o].started /\ r(o).seq = row[o].seq
    BY <2>1 DEF Row
  <2>3. row'[o] = IF Queued(o) /\ ~r(o).manual THEN Unclaimed(r(o)) ELSE r(o)
    BY DEF Restart
  <2> HIDE DEF r
  <2> QED BY <2>2, <2>3, UnclaimedFacts
<1>3. row' \in [Operations -> Row] BY <1>2 DEF Restart
<1>4. TypeOK' BY <1>3, QueueAssumption DEF Restart, TypeOK, PassesTyped
<1>5. FencesTellTasks' /\ TasksAreAdmitted'
  BY <1>1, FS_EmptySet DEF Restart, FencesTellTasks, TasksAreAdmitted
<1>6. HeldRows' BY <1>2 DEF HeldRows, Queued
<1>7. ExecutorHolds' /\ OneExecutor' BY <1>1 DEF ExecutorHolds, OneExecutor, Executing
<1>8. ClaimsCovered' BY <1>2 DEF ClaimsCovered, Queued
<1> QED BY <1>4, <1>5, <1>6, <1>7, <1>8

(* A claim that comes to no execution is given back.                       *)
LEMMA UnstartKeeps ==
    ASSUME ClaimInv, PassesTyped', NEW t \in tasks, Unstart(t) \/ OpenFails(t) \/ Release(t)
    PROVE  ClaimInv'
<1> DEFINE r == IF row[t.op].manual THEN row[t.op] ELSE Freed(t)
<1>1. t \notin Executing /\ t.op \in Operations
  BY DEF Unstart, OpenFails, Release, Executing, ClaimInv, TypeOK, Task
<1>2. /\ t \in Task /\ row[t.op] \in Row /\ Freed(t) \in Row
      /\ Freed(t).status = row[t.op].status /\ Freed(t).manual = row[t.op].manual
      /\ row[t.op].fence # t.fence => Freed(t) = row[t.op]
      /\ row[t.op].fence = t.fence => Freed(t).fence = 0 /\ ~Freed(t).started
  BY FreedFacts DEF ClaimInv
<1>3. /\ row[t.op].status # "absent"
      /\ row[t.op].manual => Queued(t.op)
      /\ row[t.op].manual /\ row[t.op].fence # 0 => row[t.op].started
  BY <1>1 DEF ClaimInv, TasksAreAdmitted, HeldRows
<1>4. /\ daemon # "down" /\ (daemon' = daemon \/ daemon' = "abandoning")
      /\ tasks' = tasks \ {t} /\ UNCHANGED <<turns, nextFence, restarts>>
  BY DEF Unstart, OpenFails, Release
<1>5. CASE OpenFails(t) \/ Release(t)
  <2>1. row' = [row EXCEPT ![t.op] = r] BY <1>5 DEF OpenFails, Release
  <2>2. /\ r \in Row /\ r.status # "absent"
        /\ r.manual => r.status = "queued" /\ (r.fence # 0 => r.started)
        /\ \/ r = row[t.op] /\ (row[t.op].fence # t.fence \/ r.manual)
           \/ row[t.op].fence = t.fence /\ r.fence = 0 /\ t \notin Executing
    BY <1>1, <1>2, <1>3 DEF Queued
  <2> HIDE DEF r
  <2> QED BY <1>4, <2>1, <2>2, TaskEnds
<1>6. CASE Unstart(t)
  <2>1. row' = [row EXCEPT ![t.op] = Freed(t)] BY <1>6 DEF Unstart
  <2>2. /\ Freed(t).status # "absent"
        /\ Freed(t).manual => Freed(t).status = "queued" /\ (Freed(t).fence # 0 => Freed(t).started)
        /\ \/ Freed(t) = row[t.op] /\ row[t.op].fence # t.fence
           \/ row[t.op].fence = t.fence /\ Freed(t).fence = 0 /\ t \notin Executing
    BY <1>1, <1>2, <1>3 DEF Queued
  <2> QED BY <1>2, <1>4, <2>1, <2>2, TaskEnds
<1> QED BY <1>5, <1>6

(* The checkpoint makes a claim an execution, or the task gives up.        *)
LEMMA StartKeeps ==
    ASSUME ClaimInv, PassesTyped', NEW t \in tasks, Start(t)
    PROVE  ClaimInv'
<1> DEFINE r == [row[t.op] EXCEPT !.started = TRUE]
<1>1. /\ t \in Task /\ row[t.op] \in Row /\ row[t.op].status # "absent"
      /\ row[t.op].manual => row[t.op].status = "queued"
  BY DEF ClaimInv, TypeOK, Task, TasksAreAdmitted, HeldRows, Queued
<1>2. daemon # "down" /\ UNCHANGED <<turns, nextFence, daemon, restarts>> BY DEF Start
<1>3. CASE row[t.op].fence = t.fence /\ ~row[t.op].started
  <2>1. row' = [row EXCEPT ![t.op] = r] /\ Becomes(t, "running", "none")
    BY <1>1, <1>3 DEF Start, Row
  <2>2. /\ r \in Row /\ r.status = row[t.op].status /\ r.manual = row[t.op].manual
        /\ r.fence = row[t.op].fence /\ r.started
    BY <1>1 DEF Row
  <2> HIDE DEF r
  <2> QED BY <1>1, <1>2, <1>3, <2>1, <2>2, TaskGoesOn
<1>4. CASE ~(row[t.op].fence = t.fence /\ ~row[t.op].started)
  <2>1. row' = [row EXCEPT ![t.op] = row[t.op]] /\ Becomes(t, "releasing", "none")
    BY <1>1, <1>4 DEF Start, ClaimInv, TypeOK
  <2> QED BY <1>1, <1>2, <2>1, TaskGoesOn
<1> QED BY <1>3, <1>4

(* An execution that is refused, or knows its outcome, goes on to release  *)
(* or to settle.                                                           *)
LEMMA ConcludeKeeps ==
    ASSUME ClaimInv, PassesTyped', NEW t \in tasks, NEW outcome \in {"retry", "ended"},
           Refuse(t) \/ Conclude(t, outcome)
    PROVE  ClaimInv'
<1>1. /\ t \in Task /\ row[t.op] \in Row /\ row[t.op].status # "absent"
      /\ row[t.op].manual => row[t.op].status = "queued"
  BY DEF ClaimInv, TypeOK, Task, TasksAreAdmitted, HeldRows, Queued
<1>2. /\ daemon # "down" /\ UNCHANGED <<turns, nextFence, daemon, restarts>>
      /\ t.phase = "running" /\ row' = [row EXCEPT ![t.op] = row[t.op]]
  BY <1>1 DEF Refuse, Conclude, durable, ClaimInv, TypeOK
<1>3. Becomes(t, "releasing", "none") \/ Becomes(t, "settling", outcome)
  BY DEF Refuse, Conclude
<1> QED BY <1>1, <1>2, <1>3, TaskGoesOn

(* An execution writes its row outside the fence.                          *)
LEMMA ReconcileKeeps ==
    ASSUME ClaimInv, PassesTyped', NEW t \in tasks,
           NEW outcome \in {"retry", "hold", "ended"}, Reconcile(t, outcome)
    PROVE  ClaimInv'
<1> DEFINE r == Folded(row[t.op], outcome)
<1>1. /\ t \in Task /\ row[t.op] \in Row /\ row[t.op].status # "absent"
      /\ row[t.op].manual => row[t.op].status = "queued"
  BY DEF ClaimInv, TypeOK, Task, TasksAreAdmitted, HeldRows, Queued
<1>2. /\ r \in Row /\ r.fence = row[t.op].fence /\ r.started = row[t.op].started
      /\ row[t.op].status # "queued" => r = row[t.op]
      /\ row[t.op].status = "queued" =>
           /\ r.manual = (outcome = "hold")
           /\ r.status = IF outcome = "ended" THEN "ended" ELSE "queued"
  BY <1>1, FoldedFacts
<1>3. /\ daemon # "down" /\ UNCHANGED <<turns, nextFence, daemon, restarts>>
      /\ t.phase = "running" /\ row' = [row EXCEPT ![t.op] = r] /\ t \in Executing
  BY DEF Reconcile, Executing
<1>4. /\ r.status # "absent"
      /\ row[t.op].status = "ended" => r.status = "ended"
      /\ r.manual => r.status = "queued"
  BY <1>1, <1>2
<1> HIDE DEF r
<1>5. CASE Becomes(t, "settling", outcome)
  BY <1>2, <1>3, <1>4, <1>5, TaskGoesOn
<1>6. CASE outcome = "retry" /\ UNCHANGED tasks
  <2>1. ~row[t.op].manual /\ t.op \in Operations BY <1>1, <1>3 DEF ClaimInv, ExecutorHolds, Task
  <2>2. ~r.manual BY <1>1, <1>2, <1>6, <2>1
  <2>3. \A u \in Executing : u.op = t.op => u = t BY <1>3 DEF ClaimInv, OneExecutor
  <2>4. \/ r.fence = t.fence /\ r.started
        \/ r.fence = 0 /\ r.status = "ended"
    BY <1>2, <1>3, <1>4, <2>1 DEF ClaimInv, ExecutorHolds, Holds
  <2>5. \A u \in Executing : u.op = t.op =>
          /\ \/ r.fence = u.fence /\ r.started
             \/ r.fence = 0 /\ (r.manual \/ r.status = "ended")
          /\ u.phase = "running" => ~r.manual
    BY <2>2, <2>3, <2>4
  <2>6. r.status = "queued" => Queued(t.op) BY <1>1, <1>4 DEF Queued, Row
  <2> QED BY <1>2, <1>3, <1>4, <1>6, <2>1, <2>2, <2>5, <2>6, RowMoves
<1> QED BY <1>5, <1>6 DEF Reconcile

(* The fenced write records the outcome and gives the claim up, unless the *)
(* row is now held; a lost fence only ends the settlement.                 *)
LEMMA SettleKeeps ==
    ASSUME ClaimInv, PassesTyped', NEW t \in tasks, Settle(t)
    PROVE  ClaimInv'
<1> DEFINE after == Folded(row[t.op], t.outcome)
           r == IF after.manual THEN after ELSE Unclaimed(after)
<1>1. /\ t \in Task /\ row[t.op] \in Row /\ row[t.op].status # "absent"
      /\ row[t.op].manual => row[t.op].status = "queued"
      /\ t.outcome \in {"retry", "hold", "ended"}
  BY DEF ClaimInv, TypeOK, Task, TasksAreAdmitted, HeldRows, Queued, Settle
<1>2. daemon # "down" /\ UNCHANGED <<turns, nextFence, daemon, restarts>> BY DEF Settle
<1>3. CASE Holds(t) /\ (Queued(t.op) \/ t.outcome = "ended")
  <2>1. row' = [row EXCEPT ![t.op] = r] /\ tasks' = tasks \ {t} BY <1>3 DEF Settle
  <2>2. /\ after \in Row /\ after.fence = row[t.op].fence /\ after.started = row[t.op].started
        /\ after.status # "absent"
        /\ after.manual => after.status = "queued"
    <3> HIDE DEF after
    <3>1. /\ after \in Row
          /\ after.fence = row[t.op].fence /\ after.started = row[t.op].started
          /\ row[t.op].status # "queued" => after = row[t.op]
          /\ row[t.op].status = "queued" =>
               /\ after.manual = (t.outcome = "hold")
               /\ after.status = IF t.outcome = "ended" THEN "ended" ELSE "queued"
      BY <1>1, FoldedFacts DEF after
    <3> QED BY <1>1, <3>1
  <2> HIDE DEF after
  <2>3. /\ r \in Row /\ r.status # "absent"
        /\ r.manual => r.status = "queued"
        /\ r.fence # 0 => r.manual /\ r.started
    BY <1>3, <2>2, UnclaimedFacts DEF Holds
  <2>4. t \in Executing BY DEF Settle, Executing
  <2> HIDE DEF r
  <2> QED BY <1>2, <1>3, <2>1, <2>3, <2>4, TaskEnds
<1>4. CASE ~(Holds(t) /\ (Queued(t.op) \/ t.outcome = "ended"))
  <2>1. row' = [row EXCEPT ![t.op] = row[t.op]] /\ Becomes(t, "releasing", "none")
    BY <1>1, <1>4 DEF Settle, ClaimInv, TypeOK
  <2> QED BY <1>1, <1>2, <2>1, TaskGoesOn
<1> QED BY <1>3, <1>4

(* A detached attempt is charged to a row that is not held.                *)
LEMMA DetachKeeps ==
    ASSUME ClaimInv, PassesTyped', NEW t \in tasks, NEW outcome \in {"retry", "ended"},
           Detach(t, outcome)
    PROVE  ClaimInv'
<1> DEFINE r == IF row[t.op].manual THEN row[t.op] ELSE Folded(row[t.op], outcome)
<1>1. /\ t \in Task /\ row[t.op] \in Row /\ row[t.op].status # "absent"
      /\ row[t.op].manual => row[t.op].status = "queued"
  BY DEF ClaimInv, TypeOK, Task, TasksAreAdmitted, HeldRows, Queued
<1>2. /\ r \in Row /\ r.fence = row[t.op].fence /\ r.started = row[t.op].started
      /\ r.status # "absent" /\ r.manual = row[t.op].manual
      /\ row[t.op].status = "ended" => r.status = "ended"
      /\ r.manual => r.status = "queued"
  <2>1. CASE row[t.op].manual BY <1>1, <2>1
  <2>2. CASE ~row[t.op].manual BY <1>1, <2>2, FoldedFacts DEF Row
  <2> QED BY <2>1, <2>2
<1>3. /\ daemon # "down" /\ UNCHANGED <<turns, nextFence, daemon, restarts>>
      /\ row' = [row EXCEPT ![t.op] = r] /\ Becomes(t, "releasing", "none")
  BY DEF Detach
<1> HIDE DEF r
<1> QED BY <1>2, <1>3, TaskGoesOn

-----------------------------------------------------------------------------
(* The order of the producers.                                             *)

Kept == { p \in Retained : turns[p] # 0 }
LastTurn == Max({ turns[p] : p \in Kept } \cup {0})
Arrivals(p) == { q \in Retained \ Kept : FirstSeq(q) <= FirstSeq(p) }

(* Ready work is work of producers that are kept in the order.             *)
LEMMA WaitingIsRetained ==
    ASSUME TypeOK
    PROVE  /\ Ready \subseteq Candidates /\ Candidates \subseteq Operations
           /\ Waiting \subseteq Retained /\ Retained \subseteq Producers
           /\ IsFiniteSet(Ready) /\ IsFiniteSet(Retained) /\ IsFiniteSet(Kept)
           /\ \A o \in Operations : ProducerOf[o] \in Producers
<1>1. \A o \in Operations : ProducerOf[o] \in Producers BY QueueAssumption
<1>2. Ready \subseteq Candidates /\ Candidates \subseteq Operations BY DEF Ready, Candidates
<1>3. Retained \subseteq Producers /\ Kept \subseteq Retained BY DEF Retained, Kept
<1>4. Waiting \subseteq Retained BY <1>1, <1>2 DEF Waiting, Retained, RowsOf
<1>5. IsFiniteSet(Ready) BY <1>2, FS_Subset, QueueAssumption
<1>6. IsFiniteSet(Retained) BY <1>3, FS_Subset, QueueAssumption
<1>7. IsFiniteSet(Kept) BY <1>3, <1>6, FS_Subset
<1> QED BY <1>1, <1>2, <1>3, <1>4, <1>5, <1>6, <1>7

(* A retained producer is first wanted by one of its candidates.           *)
LEMMA FirstSeqIsOne ==
    ASSUME TypeOK, NEW p \in Retained
    PROVE  \E o \in RowsOf(p) : FirstSeq(p) = row[o].seq /\ row[o].seq \in Nat
<1> DEFINE f == [o \in RowsOf(p) |-> row[o].seq]
           S == { row[o].seq : o \in RowsOf(p) }
<1>1. RowsOf(p) \subseteq Operations /\ RowsOf(p) # {}
  BY DEF RowsOf, Candidates, Retained
<1>2. IsFiniteSet(RowsOf(p)) BY <1>1, FS_Subset, QueueAssumption
<1>3. f \in [RowsOf(p) -> Int] /\ \A o \in RowsOf(p) : row[o].seq \in Nat
  BY <1>1 DEF TypeOK, Row
<1>4. PICK o \in RowsOf(p) : \A x \in RowsOf(p) : f[o] <= f[x]
  <2> HIDE DEF f
  <2> QED BY <1>1, <1>2, <1>3, LeastExists
<1>5. row[o].seq \in S /\ \A n \in S : row[o].seq =< n BY <1>4
<1>6. Min(S) \in S BY <1>5 DEF Min
<1> QED BY <1>3, <1>6 DEF FirstSeq

(* The last turn is at or past every turn that is kept.                    *)
LEMMA LastTurnIsLast ==
    ASSUME TypeOK
    PROVE  LastTurn \in Nat /\ \A p \in Kept : turns[p] <= LastTurn
<1> DEFINE S == { turns[p] : p \in Kept } \cup {0}
           f == [p \in Kept |-> turns[p]]
<1>1. \A p \in Kept : turns[p] \in Nat BY WaitingIsRetained DEF TypeOK, Kept
<1>2. \E m \in S : \A n \in S : m >= n
  <2>1. CASE Kept = {} BY <2>1
  <2>2. CASE Kept # {}
    <3>1. f \in [Kept -> Int] /\ IsFiniteSet(Kept) BY <1>1, WaitingIsRetained
    <3>2. PICK x \in Kept : \A y \in Kept : f[y] <= f[x]
      <4> HIDE DEF f
      <4> QED BY <2>2, <3>1, GreatestExists
    <3>3. turns[x] \in S /\ \A n \in S : turns[x] >= n BY <1>1, <3>2
    <3> QED BY <3>3
  <2> QED BY <2>1, <2>2
<1>3. Max(S) \in S /\ \A n \in S : Max(S) >= n BY <1>2 DEF Max
<1> QED BY <1>1, <1>3 DEF LastTurn

(* What ProducerTurns::order does to each producer.                        *)
LEMMA OrderedFacts ==
    ASSUME TypeOK
    PROVE  /\ Ordered \in [Producers -> Nat]
           /\ \A p \in Kept : Ordered[p] = turns[p] /\ turns[p] # 0
           /\ \A p \in Producers \ Retained : Ordered[p] = 0
           /\ \A p \in Retained \ Kept :
                /\ Ordered[p] = LastTurn + Cardinality(Arrivals(p))
                /\ IsFiniteSet(Arrivals(p)) /\ p \in Arrivals(p)
                /\ Ordered[p] > LastTurn
<1>1. ASSUME NEW p \in Retained \ Kept
      PROVE  /\ IsFiniteSet(Arrivals(p)) /\ p \in Arrivals(p)
             /\ Cardinality(Arrivals(p)) \in Nat /\ Cardinality(Arrivals(p)) > 0
  <2>1. FirstSeq(p) \in Nat BY FirstSeqIsOne
  <2>2. p \in Arrivals(p) BY <2>1 DEF Arrivals
  <2>3. IsFiniteSet(Arrivals(p)) BY FS_Subset, WaitingIsRetained DEF Arrivals
  <2> QED BY <2>2, <2>3, FS_CardinalityType, FS_EmptySet
<1>2. Ordered = [p \in Producers |->
                   IF p \in Kept THEN turns[p]
                   ELSE IF p \notin Retained THEN 0
                   ELSE LastTurn + Cardinality(Arrivals(p))]
  BY DEF Ordered, Kept, LastTurn, Arrivals
<1>3. Retained \subseteq Producers /\ Kept \subseteq Retained
  BY WaitingIsRetained DEF Kept
<1>4. \A p \in Kept : turns[p] \in Nat /\ turns[p] # 0 BY <1>3 DEF TypeOK, Kept
<1>5. LastTurn \in Nat BY LastTurnIsLast
<1>6. Ordered \in [Producers -> Nat]
  <2>1. ASSUME NEW p \in Producers
        PROVE  (IF p \in Kept THEN turns[p]
                ELSE IF p \notin Retained THEN 0
                ELSE LastTurn + Cardinality(Arrivals(p))) \in Nat
    BY <1>1, <1>4, <1>5
  <2> QED BY <1>2, <2>1
<1>7. \A p \in Kept : Ordered[p] = turns[p] /\ turns[p] # 0 BY <1>2, <1>3, <1>4
<1>8. \A p \in Producers \ Retained : Ordered[p] = 0 BY <1>2, <1>3
<1>9. \A p \in Retained \ Kept : Ordered[p] = LastTurn + Cardinality(Arrivals(p))
  BY <1>2, <1>3
<1>10. \A p \in Retained \ Kept : Ordered[p] > LastTurn BY <1>1, <1>5, <1>9
<1> QED BY <1>1, <1>6, <1>7, <1>8, <1>9, <1>10

(* No two producers share a place: kept turns differ, arrivals come after  *)
(* them, and arrivals are ranked by sequence numbers that differ.          *)
LEMMA OrderedApart ==
    ASSUME TypeOK, NumbersDiffer, NEW p \in Retained, NEW q \in Retained, p # q
    PROVE  Ordered[p] # Ordered[q]
<1>1. Retained \subseteq Producers BY WaitingIsRetained
<1>2. CASE p \in Kept /\ q \in Kept BY <1>1, <1>2, OrderedFacts DEF NumbersDiffer
<1>3. CASE p \in Kept /\ q \notin Kept
  <2>1. Ordered[p] <= LastTurn /\ Ordered[p] \in Nat BY <1>1, <1>3, OrderedFacts, LastTurnIsLast
  <2>2. Ordered[q] > LastTurn /\ Ordered[q] \in Nat /\ LastTurn \in Nat
    BY <1>1, <1>3, OrderedFacts, LastTurnIsLast
  <2> QED BY <2>1, <2>2
<1>4. CASE p \notin Kept /\ q \in Kept
  <2>1. Ordered[q] <= LastTurn /\ Ordered[q] \in Nat BY <1>1, <1>4, OrderedFacts, LastTurnIsLast
  <2>2. Ordered[p] > LastTurn /\ Ordered[p] \in Nat /\ LastTurn \in Nat
    BY <1>1, <1>4, OrderedFacts, LastTurnIsLast
  <2> QED BY <2>1, <2>2
<1>5. CASE p \notin Kept /\ q \notin Kept
  <2>1. PICK o \in RowsOf(p) : FirstSeq(p) = row[o].seq /\ row[o].seq \in Nat BY FirstSeqIsOne
  <2>2. PICK x \in RowsOf(q) : FirstSeq(q) = row[x].seq /\ row[x].seq \in Nat BY FirstSeqIsOne
  <2>3. o # x /\ o \in Operations /\ x \in Operations /\ row[o].status # "absent"
    BY DEF RowsOf, Candidates, Queued
  <2>4. FirstSeq(p) # FirstSeq(q) BY <2>1, <2>2, <2>3 DEF NumbersDiffer
  <2>5. ASSUME NEW a \in Retained \ Kept, NEW b \in Retained \ Kept, FirstSeq(a) < FirstSeq(b),
               FirstSeq(a) \in Nat, FirstSeq(b) \in Nat
        PROVE  Cardinality(Arrivals(a)) < Cardinality(Arrivals(b))
    <3>1. Arrivals(a) \subseteq Arrivals(b)
      <4>1. \A c \in Retained : FirstSeq(c) \in Nat BY FirstSeqIsOne
      <4> QED BY <2>5, <4>1 DEF Arrivals
    <3>2. b \in Arrivals(b) /\ b \notin Arrivals(a) BY <2>5, OrderedFacts DEF Arrivals
    <3>3. IsFiniteSet(Arrivals(b)) BY OrderedFacts
    <3>4. /\ Cardinality(Arrivals(a)) <= Cardinality(Arrivals(b))
          /\ Cardinality(Arrivals(a)) # Cardinality(Arrivals(b))
      BY <3>1, <3>2, <3>3, FS_Subset
    <3>5. Cardinality(Arrivals(a)) \in Nat /\ Cardinality(Arrivals(b)) \in Nat
      BY <3>1, <3>3, FS_Subset, FS_CardinalityType
    <3> QED BY <3>4, <3>5
  <2>6. /\ Ordered[p] = LastTurn + Cardinality(Arrivals(p))
        /\ Ordered[q] = LastTurn + Cardinality(Arrivals(q))
        /\ IsFiniteSet(Arrivals(p)) /\ IsFiniteSet(Arrivals(q)) /\ LastTurn \in Nat
    BY <1>5, OrderedFacts, LastTurnIsLast
  <2>7. Cardinality(Arrivals(p)) \in Nat /\ Cardinality(Arrivals(q)) \in Nat
    BY <2>6, FS_CardinalityType
  <2>8. Cardinality(Arrivals(p)) # Cardinality(Arrivals(q))
    BY <1>5, <2>1, <2>2, <2>4, <2>5, <2>7
  <2> QED BY <2>6, <2>7, <2>8
<1> QED BY <1>2, <1>3, <1>4, <1>5

(* RetrySchedule::select takes a ready row that comes before all others.   *)
LEMMA ChosenIsFirst ==
    ASSUME TypeOK, NumbersDiffer, Ready # {}
    PROVE  Chosen \in Ready /\ \A x \in Ready \ {Chosen} : Before(Chosen, x)
<1>1. /\ Ready \subseteq Operations /\ IsFiniteSet(Ready)
      /\ \A o \in Ready : ProducerOf[o] \in Retained /\ ProducerOf[o] \in Producers
  BY WaitingIsRetained DEF Waiting
<1> DEFINE f == [o \in Ready |-> Ordered[ProducerOf[o]]]
<1>2. f \in [Ready -> Int] BY <1>1, OrderedFacts
<1>3. PICK y \in Ready : \A x \in Ready : f[y] <= f[x]
  <2> HIDE DEF f
  <2> QED BY <1>1, <1>2, LeastExists
<1> DEFINE D == { x \in Ready : ProducerOf[x] = ProducerOf[y] }
           g == [x \in D |-> row[x].seq]
<1>4. g \in [D -> Int] /\ \A x \in Ready : row[x].seq \in Nat BY <1>1 DEF TypeOK, Row
<1>5. IsFiniteSet(D) /\ D # {} BY <1>1, <1>3, FS_Subset
<1>6. PICK o \in D : \A x \in D : g[o] <= g[x]
  <2> HIDE DEF g, D
  <2> QED BY <1>4, <1>5, LeastExists
<1>7. ASSUME NEW x \in Ready \ {o} PROVE Before(o, x)
  <2>1. CASE ProducerOf[x] = ProducerOf[o]
    <3>1. x \in D /\ row[o].seq <= row[x].seq BY <1>6, <2>1
    <3>2. row[o].seq # row[x].seq
      BY <1>1, <1>6 DEF NumbersDiffer, Ready, Candidates, Queued
    <3>3. row[o].seq < row[x].seq BY <1>4, <1>6, <3>1, <3>2
    <3> QED BY <2>1, <3>3 DEF Before
  <2>2. CASE ProducerOf[x] # ProducerOf[o]
    <3>1. Ordered[ProducerOf[o]] <= Ordered[ProducerOf[x]] BY <1>3, <1>6
    <3>2. Ordered[ProducerOf[o]] # Ordered[ProducerOf[x]] BY <1>1, <1>6, <2>2, OrderedApart
    <3>3. Ordered[ProducerOf[o]] \in Nat /\ Ordered[ProducerOf[x]] \in Nat
      BY <1>1, <1>6, OrderedFacts
    <3> QED BY <3>1, <3>2, <3>3 DEF Before
  <2> QED BY <2>1, <2>2
<1>8. \E z \in Ready : \A x \in Ready \ {z} : Before(z, x) BY <1>6, <1>7
<1> QED BY <1>8 DEF Chosen

(* ProducerTurns::claimed moves the producer that was served to the tail,  *)
(* or out.                                                                 *)
LEMMA RotatedFacts ==
    ASSUME TypeOK, NEW o \in Operations
    PROVE  LET r == ProducerOf[o] IN
           /\ Rotated(o) \in [Producers -> Nat]
           /\ \A p \in Producers \ {r} : Rotated(o)[p] = Ordered[p]
           /\ Rotated(o)[r] = 0 \/ \A p \in Producers : Rotated(o)[r] > Ordered[p]
<1> DEFINE r == ProducerOf[o]
           m == Max({ Ordered[q] : q \in Producers })
<1>1. r \in Producers /\ Producers # {} /\ IsFiniteSet(Producers) BY QueueAssumption
<1>2. Ordered \in [Producers -> Nat] BY OrderedFacts
<1>3. m \in Nat /\ \A p \in Producers : Ordered[p] <= m BY <1>1, <1>2, MaxOf
<1>4. Rotated(o) = [Ordered EXCEPT ![r] = IF RowsOf(r) = {o} THEN 0 ELSE 1 + m]
  BY DEF Rotated
<1> HIDE DEF m, r
<1>5. Rotated(o)[r] = 0 \/ Rotated(o)[r] = 1 + m BY <1>1, <1>2, <1>4
<1>6. \A p \in Producers : 1 + m > Ordered[p] BY <1>2, <1>3
<1>7. Rotated(o) \in [Producers -> Nat] BY <1>1, <1>2, <1>3, <1>4
<1>8. \A p \in Producers \ {r} : Rotated(o)[p] = Ordered[p] BY <1>1, <1>2, <1>4
<1> QED BY <1>5, <1>6, <1>7, <1>8 DEF r

-----------------------------------------------------------------------------
(* Numbers stay apart.                                                     *)

(* Only admission numbers a row.                                           *)
NumbersKept ==
    \A o \in Operations :
        row'[o].seq = row[o].seq /\ (row[o].status = "absent" => row'[o].status = "absent")

(* A row that was admitted and keeps its number.                           *)
LEMMA RowKeepsNumber ==
    ASSUME TypeOK, NEW o \in Operations, NEW r \in Row, row' = [row EXCEPT ![o] = r],
           r.seq = row[o].seq, row[o].status # "absent"
    PROVE  NumbersKept
BY DEF TypeOK, NumbersKept

(* The steps of a task keep the number of its row.                         *)
LEMMA TaskKeepsNumbers ==
    ASSUME ClaimInv, NEW t \in tasks,
           \/ Unstart(t) \/ OpenFails(t) \/ Start(t) \/ Refuse(t) \/ Settle(t) \/ Release(t)
           \/ \E outcome \in {"retry", "hold", "ended"} : Reconcile(t, outcome)
           \/ \E outcome \in {"retry", "ended"} : Conclude(t, outcome) \/ Detach(t, outcome)
    PROVE  NumbersKept
<1> DEFINE o == t.op
<1>1. /\ o \in Operations /\ row[o] \in Row /\ row[o].status # "absent"
      /\ t.phase = "settling" => t.outcome \in {"retry", "hold", "ended"}
      /\ row \in [Operations -> Row] /\ TypeOK
  BY DEF ClaimInv, TypeOK, Task, TasksAreAdmitted
<1>2. SUFFICES \E r \in Row : r.seq = row[o].seq /\ row' = [row EXCEPT ![o] = r]
  BY <1>1, RowKeepsNumber
<1>3. Freed(t) \in Row /\ Freed(t).seq = row[o].seq BY <1>1, FreedFacts
<1>4. \A outcome \in {"retry", "hold", "ended"} :
        Folded(row[o], outcome) \in Row /\ Folded(row[o], outcome).seq = row[o].seq
  BY <1>1, FoldedFacts
<1>5. CASE UNCHANGED row
  <2>1. row' = [row EXCEPT ![o] = row[o]] BY <1>1, <1>5
  <2> QED BY <1>1, <2>1
<1>6. CASE Unstart(t) BY <1>3, <1>6 DEF Unstart
<1>7. CASE OpenFails(t) \/ Release(t)
  <2>1. row' = [row EXCEPT ![o] = IF row[o].manual THEN row[o] ELSE Freed(t)]
    BY <1>7 DEF OpenFails, Release
  <2> QED BY <1>1, <1>3, <2>1
<1>8. CASE Start(t)
  <2>1. CASE row[o].fence = t.fence /\ ~row[o].started
    <3> DEFINE r == [row[o] EXCEPT !.started = TRUE]
    <3>1. row' = [row EXCEPT ![o] = r] BY <1>1, <1>8, <2>1 DEF Start, Row
    <3>2. r \in Row /\ r.seq = row[o].seq BY <1>1 DEF Row
    <3> QED BY <3>1, <3>2
  <2>2. CASE ~(row[o].fence = t.fence /\ ~row[o].started) BY <1>5, <1>8, <2>2 DEF Start
  <2> QED BY <2>1, <2>2
<1>9. CASE Refuse(t) \/ \E outcome \in {"retry", "ended"} : Conclude(t, outcome)
  BY <1>5, <1>9 DEF Refuse, Conclude, durable
<1>10. CASE Settle(t)
  <2> DEFINE after == Folded(row[o], t.outcome)
  <2>1. CASE Holds(t) /\ (Queued(o) \/ t.outcome = "ended")
    <3>1. after \in Row /\ after.seq = row[o].seq BY <1>1, <1>4, <1>10 DEF Settle
    <3>2. row' = [row EXCEPT ![o] = IF after.manual THEN after ELSE Unclaimed(after)]
      BY <1>10, <2>1 DEF Settle
    <3> HIDE DEF after
    <3> QED BY <3>1, <3>2, UnclaimedFacts
  <2>2. CASE ~(Holds(t) /\ (Queued(o) \/ t.outcome = "ended")) BY <1>5, <1>10, <2>2 DEF Settle
  <2> QED BY <2>1, <2>2
<1>11. CASE \E outcome \in {"retry", "hold", "ended"} : Reconcile(t, outcome)
  BY <1>4, <1>11 DEF Reconcile
<1>12. CASE \E outcome \in {"retry", "ended"} : Detach(t, outcome)
  <2>1. PICK outcome \in {"retry", "ended"} : Detach(t, outcome) BY <1>12
  <2>2. row' = [row EXCEPT ![o] = IF row[o].manual THEN row[o] ELSE Folded(row[o], outcome)]
    BY <2>1 DEF Detach
  <2> QED BY <1>1, <1>4, <2>2
<1> QED BY <1>6, <1>7, <1>8, <1>9, <1>10, <1>11, <1>12

(* The other steps, but for admission, keep every number.                  *)
LEMMA OthersKeepNumbers ==
    ASSUME ClaimInv, NumbersDiffer,
           \/ \E o \in Operations : DelayOver(o) \/ LeaseLapses(o) \/ Heal(o) \/ Resume(o)
           \/ Claim \/ PollNothing \/ Stop \/ Drained \/ Die \/ Restart
    PROVE  NumbersKept
<1>1. row \in [Operations -> Row] /\ TypeOK BY DEF ClaimInv, TypeOK
<1>2. ASSUME NEW o \in Operations, DelayOver(o) \/ LeaseLapses(o) \/ Heal(o) \/ Resume(o)
      PROVE  NumbersKept
  <2>1. row[o] \in Row /\ row[o].status = "queued"
    BY <1>1, <1>2 DEF DelayOver, LeaseLapses, Heal, Resume, Queued
  <2>2. SUFFICES \E r \in Row : r.seq = row[o].seq /\ row' = [row EXCEPT ![o] = r]
    BY <1>1, <2>1, RowKeepsNumber
  <2>3. CASE DelayOver(o)
    <3> DEFINE r == [row[o] EXCEPT !.delay = "over"]
    <3>1. row' = [row EXCEPT ![o] = r] BY <2>1, <2>3 DEF DelayOver, Row
    <3>2. r \in Row /\ r.seq = row[o].seq BY <2>1 DEF Row
    <3> QED BY <3>1, <3>2
  <2>4. CASE LeaseLapses(o)
    <3> DEFINE r == [row[o] EXCEPT !.lease = "lapsed"]
    <3>1. row' = [row EXCEPT ![o] = r] BY <2>1, <2>4 DEF LeaseLapses, Row
    <3>2. r \in Row /\ r.seq = row[o].seq BY <2>1 DEF Row
    <3> QED BY <3>1, <3>2
  <2>5. CASE Heal(o)
    <3>1. Folded(row[o], "ended") \in Row /\ Folded(row[o], "ended").seq = row[o].seq
      BY <2>1, FoldedFacts
    <3>2. row' = [row EXCEPT ![o] = Unclaimed(Folded(row[o], "ended"))] BY <2>5 DEF Heal
    <3> QED BY <3>1, <3>2, UnclaimedFacts
  <2>6. CASE Resume(o) BY <2>1, <2>6, UnclaimedFacts DEF Resume
  <2> QED BY <1>2, <2>3, <2>4, <2>5, <2>6
<1>3. CASE Claim
  <2> DEFINE o == Chosen
             d == IF row[o].delay = "none" THEN row[o].delay ELSE "running"
             r == [row[o] EXCEPT !.fence = nextFence, !.lease = "live", !.delay = d]
  <2>1. o \in Ready BY <1>1, <1>3, ChosenIsFirst DEF Claim
  <2> HIDE DEF o
  <2>2. o \in Operations /\ row[o] \in Row /\ row[o].status = "queued" /\ nextFence \in Nat
    BY <1>1, <2>1, QueueAssumption DEF Ready, Candidates, Queued, TypeOK
  <2>3. row' = [row EXCEPT ![o] = r] BY <1>3, <2>2 DEF Claim, o, Row
  <2>4. r \in Row /\ r.seq = row[o].seq BY <2>2 DEF Row
  <2> HIDE DEF r
  <2> QED BY <1>1, <2>2, <2>3, <2>4, RowKeepsNumber
<1>4. CASE PollNothing \/ Stop \/ Drained \/ Die
  BY <1>4 DEF PollNothing, Stop, Drained, Die, durable, NumbersKept
<1>5. CASE Restart
  <2> DEFINE r(o) == [row[o] EXCEPT !.delay = IF @ = "over" THEN "running" ELSE @]
  <2>1. ASSUME NEW o \in Operations
        PROVE  row'[o].seq = row[o].seq /\ row'[o].status = row[o].status
    <3>1. row[o] \in Row BY <1>1
    <3>2. r(o) \in Row /\ r(o).seq = row[o].seq /\ r(o).status = row[o].status BY <3>1 DEF Row
    <3>3. row'[o] = IF Queued(o) /\ ~r(o).manual THEN Unclaimed(r(o)) ELSE r(o)
      BY <1>5 DEF Restart
    <3> HIDE DEF r
    <3> QED BY <3>2, <3>3, UnclaimedFacts
  <2> QED BY <2>1 DEF NumbersKept
<1> QED BY <1>2, <1>3, <1>4, <1>5

(* Rows stay numbered apart: admission numbers past every other row.       *)
LEMMA RowsStayApart ==
    ASSUME ClaimInv, NumbersDiffer, NumbersKept \/ \E o \in Operations : Admit(o)
    PROVE  \A o, x \in Operations :
               o # x /\ row'[o].status # "absent" => row'[o].seq # row'[x].seq
<1>1. CASE NumbersKept BY <1>1 DEF NumbersDiffer, NumbersKept
<1>2. CASE \E o \in Operations : Admit(o)
  <2>1. PICK o \in Operations : Admit(o) BY <1>2
  <2> DEFINE f == [x \in Operations |-> row[x].seq]
             m == Max({ f[x] : x \in Operations })
             r == [NoRow EXCEPT !.status = "queued", !.seq = 1 + m]
  <2>2. f \in [Operations -> Nat] /\ row \in [Operations -> Row] BY DEF ClaimInv, TypeOK, Row
  <2>3. m \in Nat /\ \A x \in Operations : f[x] <= m
    <3> HIDE DEF f
    <3> QED BY <2>2, MaxOf, QueueAssumption
  <2>4. { row[x].seq : x \in Operations } = { f[x] : x \in Operations } OBVIOUS
  <2>5. row' = [row EXCEPT ![o] = r] BY <2>1, <2>4 DEF Admit
  <2>6. \A x \in Operations : row[x].seq <= m /\ row[x].seq \in Nat BY <2>2, <2>3
  <2> HIDE DEF m
  <2>7. r.seq = 1 + m BY DEF NoRow
  <2> HIDE DEF r
  <2>8. row'[o].seq = 1 + m /\ \A x \in Operations : x # o => row'[x] = row[x]
    BY <2>2, <2>5, <2>7
  <2> QED BY <2>3, <2>6, <2>8 DEF NumbersDiffer
<1> QED BY <1>1, <1>2

-----------------------------------------------------------------------------
(* Nobody is passed twice.                                                 *)

(* Turns stay apart, ordered or rotated.                                   *)
LEMMA TurnsStayApart ==
    ASSUME TypeOK, NumbersDiffer,
           \/ turns' = turns
           \/ turns' = Ordered
           \/ Ready # {} /\ turns' = Rotated(Chosen)
    PROVE  \A p, q \in Producers : p # q /\ turns'[p] # 0 => turns'[p] # turns'[q]
<1>1. \A p, q \in Producers : p # q /\ Ordered[p] # 0 => Ordered[p] # Ordered[q]
  <2>1. \A p \in Producers : Ordered[p] # 0 => p \in Retained BY OrderedFacts
  <2> QED BY <2>1, OrderedApart
<1>2. CASE Ready # {} /\ turns' = Rotated(Chosen)
  <2> DEFINE r == ProducerOf[Chosen]
  <2>1. Chosen \in Operations BY <1>2, ChosenIsFirst, WaitingIsRetained
  <2>2. /\ Rotated(Chosen) \in [Producers -> Nat]
        /\ \A p \in Producers \ {r} : Rotated(Chosen)[p] = Ordered[p]
        /\ Rotated(Chosen)[r] = 0 \/ \A p \in Producers : Rotated(Chosen)[r] > Ordered[p]
    BY <2>1, RotatedFacts
  <2>3. Ordered \in [Producers -> Nat] BY OrderedFacts
  <2> HIDE DEF r
  <2> QED BY <1>1, <1>2, <2>2, <2>3
<1> QED BY <1>1, <1>2 DEF NumbersDiffer

(* A step that serves nobody and leaves the turns passes nobody.           *)
LEMMA QuietPassesNobody ==
    ASSUME TypeOK, PassedIsAhead, PassedAtMostOnce, Remember,
           turns' = turns, \A t \in tasks' : t.fence # nextFence
    PROVE  PassedIsAhead' /\ PassedAtMostOnce'
<1> DEFINE served == { ProducerOf[t.op] : t \in { u \in tasks' : u.fence = nextFence } }
<1>1. served = {} OBVIOUS
<1>2. passes' = [p \in Producers |->
            IF p \in (Waiting \cap Waiting') \ served
            THEN [q \in Producers |-> IF q \in served /\ passes[p][q] < 2
                                      THEN passes[p][q] + 1 ELSE passes[p][q]]
            ELSE NoPasses]
  BY DEF Remember
<1> HIDE DEF served
<1>3. ASSUME NEW p \in Producers, NEW q \in Producers
      PROVE  \/ passes'[p][q] = 0
             \/ passes'[p][q] = passes[p][q] /\ p \in Waiting'
  BY <1>1, <1>2 DEF NoPasses
<1>4. PassedIsAhead' BY <1>3 DEF PassedIsAhead
<1>5. PassedAtMostOnce' BY <1>3 DEF PassedAtMostOnce, TypeOK
<1> QED BY <1>4, <1>5

(* A poll that finds nothing ready keeps nobody waiting.                   *)
LEMMA PollPassesNobody ==
    ASSUME Ready = {}, Remember
    PROVE  PassedIsAhead' /\ PassedAtMostOnce'
<1>1. Waiting = {} BY DEF Waiting
<1>2. passes' = [p \in Producers |-> NoPasses] BY <1>1 DEF Remember
<1>3. \A p, q \in Producers : passes'[p][q] = 0 BY <1>2 DEF NoPasses
<1> QED BY <1>3 DEF PassedIsAhead, PassedAtMostOnce

(* A claim passes every other producer that waits, and none for a second   *)
(* time: whoever was passed by the producer now served would be before it. *)
LEMMA ClaimPassesOnce ==
    ASSUME QueueInv, Claim, Remember
    PROVE  PassedIsAhead' /\ PassedAtMostOnce'
<1> USE DEF QueueInv, ClaimInv
<1> DEFINE r == ProducerOf[Chosen]
           served == { ProducerOf[t.op] : t \in { u \in tasks' : u.fence = nextFence } }
<1>1. Ready # {} /\ Chosen \in Ready /\ \A x \in Ready \ {Chosen} : Before(Chosen, x)
  BY ChosenIsFirst DEF Claim
<1>2. Chosen \in Operations /\ r \in Retained /\ r \in Producers
  BY <1>1, WaitingIsRetained DEF Waiting
<1>3. served = {r}
  <2> DEFINE n == [op |-> Chosen, fence |-> nextFence, phase |-> "spawned", outcome |-> "none"]
  <2>1. tasks' = tasks \cup {n} BY DEF Claim
  <2>2. \A t \in tasks : t.fence # nextFence
    <3>1. \A t \in tasks : t.fence < nextFence /\ t.fence \in Nat
      BY DEF FencesTellTasks, TypeOK, Task
    <3> QED BY <3>1
  <2>3. n.fence = nextFence /\ n.op = Chosen OBVIOUS
  <2> HIDE DEF n
  <2>4. { u \in tasks' : u.fence = nextFence } = {n} BY <2>1, <2>2, <2>3
  <2> QED BY <2>3, <2>4
<1>4. passes' = [p \in Producers |->
            IF p \in (Waiting \cap Waiting') \ served
            THEN [q \in Producers |-> IF q \in served /\ passes[p][q] < 2
                                      THEN passes[p][q] + 1 ELSE passes[p][q]]
            ELSE NoPasses]
  BY DEF Remember
<1>5. /\ turns' \in [Producers -> Nat]
      /\ \A p \in Producers \ {r} : turns'[p] = Ordered[p]
      /\ turns'[r] = 0 \/ \A p \in Producers : turns'[r] > Ordered[p]
  BY <1>2, RotatedFacts DEF Claim
<1>6. /\ Ordered \in [Producers -> Nat] /\ turns \in [Producers -> Nat]
      /\ \A p, q \in Producers : passes[p][q] \in 0..2
  BY OrderedFacts DEF TypeOK
<1>7. Waiting \subseteq Retained /\ Retained \subseteq Producers BY WaitingIsRetained
<1> HIDE DEF served
<1>8. ASSUME NEW p \in Producers, p \in Waiting, p # r
      PROVE  Ordered[r] < Ordered[p] /\ Ordered[p] # 0
  <2>1. PICK x \in Ready : ProducerOf[x] = p BY <1>8 DEF Waiting
  <2>2. Before(Chosen, x) /\ ProducerOf[x] # ProducerOf[Chosen] BY <1>1, <1>8, <2>1
  <2>3. Ordered[r] < Ordered[p] BY <2>1, <2>2 DEF Before
  <2> QED BY <1>2, <1>6, <2>3
<1>9. ASSUME NEW p \in Producers, NEW q \in Producers, passes[p][q] # 0
      PROVE  p # q /\ (Ordered[q] = 0 \/ Ordered[p] < Ordered[q])
  <2>1. p # q /\ p \in Waiting /\ turns[p] # 0 /\ (turns[q] = 0 \/ turns[p] < turns[q])
    BY <1>9 DEF PassedIsAhead
  <2>2. p \in Kept BY <1>7, <2>1 DEF Kept
  <2>3. Ordered[p] = turns[p] /\ turns[p] <= LastTurn /\ LastTurn \in Nat
    BY <2>2, OrderedFacts, LastTurnIsLast
  <2>4. CASE q \notin Retained BY <2>1, <2>4, OrderedFacts
  <2>5. CASE q \in Kept
    <3>1. Ordered[q] = turns[q] /\ turns[q] # 0 BY <2>5, OrderedFacts
    <3> QED BY <2>1, <2>3, <3>1
  <2>6. CASE q \in Retained \ Kept
    <3>1. Ordered[q] > LastTurn BY <2>6, OrderedFacts
    <3> QED BY <1>6, <2>1, <2>3, <3>1
  <2> QED BY <2>4, <2>5, <2>6
<1>10. ASSUME NEW p \in Producers, p # r, p \in Waiting PROVE passes[p][r] = 0
  <2>1. SUFFICES ASSUME passes[p][r] # 0 PROVE FALSE OBVIOUS
  <2>2. Ordered[r] = 0 \/ Ordered[p] < Ordered[r] BY <1>2, <1>9, <2>1
  <2>3. Ordered[r] # 0
    <3>1. CASE r \in Kept BY <3>1, OrderedFacts
    <3>2. CASE r \in Retained \ Kept
      <4>1. Ordered[r] > LastTurn /\ LastTurn \in Nat BY <3>2, OrderedFacts, LastTurnIsLast
      <4> QED BY <1>2, <1>6, <4>1
    <3> QED BY <1>2, <3>1, <3>2
  <2> QED BY <1>2, <1>6, <1>8, <1>10, <2>2, <2>3
<1> HIDE DEF r
<1>11. ASSUME NEW p \in Producers, NEW q \in Producers, passes'[p][q] # 0
       PROVE  /\ p \in Waiting /\ p \in Waiting' /\ p # r
              /\ q = r => passes'[p][q] = 1
              /\ q # r => passes'[p][q] = passes[p][q]
  <2>1. p \in (Waiting \cap Waiting') \ served BY <1>4, <1>11 DEF NoPasses
  <2>2. passes'[p][q] = IF q \in served /\ passes[p][q] < 2
                        THEN passes[p][q] + 1 ELSE passes[p][q]
    BY <1>4, <2>1
  <2>3. p # r BY <1>3, <2>1
  <2>4. q = r => passes'[p][q] = 1 BY <1>3, <1>10, <2>1, <2>2, <2>3
  <2> QED BY <1>3, <2>1, <2>2, <2>3, <2>4
<1>12. PassedAtMostOnce'
  <2>1. SUFFICES ASSUME NEW p \in Producers, NEW q \in Producers PROVE passes'[p][q] <= 1
    BY DEF PassedAtMostOnce
  <2> QED BY <1>6, <1>11 DEF PassedAtMostOnce
<1>13. PassedIsAhead'
  <2>1. SUFFICES ASSUME NEW p \in Producers, NEW q \in Producers, passes'[p][q] # 0
                 PROVE  /\ p # q /\ p \in Waiting' /\ turns'[p] # 0
                        /\ turns'[q] = 0 \/ turns'[p] < turns'[q]
    BY DEF PassedIsAhead
  <2>2. p \in Waiting /\ p \in Waiting' /\ p # r BY <1>11, <2>1
  <2>3. turns'[p] = Ordered[p] /\ turns'[p] # 0 BY <1>5, <1>8, <2>2
  <2>4. CASE q = r BY <1>5, <2>2, <2>3, <2>4
  <2>5. CASE q # r
    <3>1. passes[p][q] # 0 BY <1>11, <2>1, <2>5
    <3>2. p # q /\ (Ordered[q] = 0 \/ Ordered[p] < Ordered[q]) BY <1>9, <3>1
    <3>3. turns'[q] = Ordered[q] BY <1>5, <2>5
    <3> QED BY <2>2, <2>3, <3>2, <3>3
  <2> QED BY <2>4, <2>5
<1> QED BY <1>12, <1>13

-----------------------------------------------------------------------------
(* The invariant and what follows.                                         *)

TaskStep(t) ==
    \/ Unstart(t) \/ OpenFails(t) \/ Start(t) \/ Refuse(t) \/ Settle(t) \/ Release(t)
    \/ \E outcome \in {"retry", "hold", "ended"} : Reconcile(t, outcome)
    \/ \E outcome \in {"retry", "ended"} : Conclude(t, outcome) \/ Detach(t, outcome)

(* Before the first admission.                                             *)
LEMMA QueueInit == Init => QueueInv
<1> SUFFICES ASSUME Init PROVE QueueInv OBVIOUS
<1> USE DEF Init, NoRow, NoPasses
<1>1. TypeOK
  <2>1. row \in [Operations -> Row] BY DEF Row
  <2>2. tasks \subseteq Task /\ Cardinality(tasks) <= MaxInFlight
    BY FS_EmptySet, QueueAssumption
  <2>3. turns \in [Producers -> Nat] /\ passes \in [Producers -> [Producers -> 0..2]] OBVIOUS
  <2>4. nextFence \in 1..(MaxFence + 1) /\ restarts \in 0..MaxRestarts BY QueueAssumption
  <2> QED BY <2>1, <2>2, <2>3, <2>4 DEF TypeOK
<1>2. FencesTellTasks /\ TasksAreAdmitted BY FS_EmptySet DEF FencesTellTasks, TasksAreAdmitted
<1>3. HeldRows BY DEF HeldRows
<1>4. ExecutorHolds /\ OneExecutor BY DEF ExecutorHolds, OneExecutor, Executing
<1>5. ClaimsCovered BY DEF ClaimsCovered
<1>6. NumbersDiffer BY DEF NumbersDiffer
<1>7. PassedIsAhead /\ PassedAtMostOnce
  <2>1. \A p, q \in Producers : passes[p][q] = 0 OBVIOUS
  <2> QED BY <2>1 DEF PassedIsAhead, PassedAtMostOnce
<1> QED BY <1>1, <1>2, <1>3, <1>4, <1>5, <1>6, <1>7 DEF QueueInv, ClaimInv

(* Every step keeps who has claimed and executes what.                     *)
LEMMA ClaimInvKept ==
    ASSUME QueueInv, Next
    PROVE  ClaimInv'
<1> USE DEF QueueInv
<1>1. PassesTyped' BY RememberTyped DEF Next, ClaimInv
<1>2. TypeOK BY DEF ClaimInv
<1>3. ASSUME NEW o \in Operations,
             Admit(o) \/ DelayOver(o) \/ LeaseLapses(o) \/ Heal(o) \/ Resume(o)
      PROVE  ClaimInv'
  BY <1>1, <1>3, AdmitKeeps, ClockKeeps, HeldRowKeeps
<1>4. CASE Claim
  <2>1. Chosen \in Ready /\ Chosen \in Operations
    BY <1>2, <1>4, ChosenIsFirst, WaitingIsRetained DEF Claim
  <2>2. Rotated(Chosen) \in [Producers -> Nat] BY <1>2, <2>1, RotatedFacts
  <2> QED BY <1>1, <1>4, <2>1, <2>2, ClaimKeeps
<1>5. CASE PollNothing \/ Stop \/ Drained BY <1>1, <1>2, <1>5, OrderedFacts, PollAndStopKeep
<1>6. CASE Die \/ Restart BY <1>1, <1>6, DieKeeps, RestartKeeps
<1>7. ASSUME NEW t \in tasks, TaskStep(t) PROVE ClaimInv'
  <2>1. CASE Unstart(t) \/ OpenFails(t) \/ Release(t) BY <1>1, <2>1, UnstartKeeps
  <2>2. CASE Start(t) BY <1>1, <2>2, StartKeeps
  <2>3. CASE Settle(t) BY <1>1, <2>3, SettleKeeps
  <2>4. CASE Refuse(t) \/ \E outcome \in {"retry", "ended"} : Conclude(t, outcome)
    BY <1>1, <2>4, ConcludeKeeps
  <2>5. CASE \E outcome \in {"retry", "hold", "ended"} : Reconcile(t, outcome)
    BY <1>1, <2>5, ReconcileKeeps
  <2>6. CASE \E outcome \in {"retry", "ended"} : Detach(t, outcome)
    BY <1>1, <2>6, DetachKeeps
  <2> QED BY <1>7, <2>1, <2>2, <2>3, <2>4, <2>5, <2>6 DEF TaskStep
<1> QED BY <1>3, <1>4, <1>5, <1>6, <1>7 DEF Next, Step, TaskStep

(* Only a claim and an idle poll move the turns, and only a claim draws a  *)
(* fence.                                                                  *)
LEMMA QuietSteps ==
    ASSUME QueueInv, Next, ~Claim, ~PollNothing
    PROVE  turns' = turns /\ \A t \in tasks' : t.fence # nextFence
<1>1. CASE Restart BY <1>1 DEF Restart, QueueInv, ClaimInv, FencesTellTasks
<1>2. CASE ~Restart
  <2>1. turns' = turns /\ nextFence' = nextFence
    BY <1>2 DEF Next, Step, Admit, DelayOver, LeaseLapses, Heal, Resume, Stop, Drained, Die,
                Unstart, OpenFails, Start, Refuse, Settle, Release, Reconcile, Conclude, Detach, durable
  <2>2. ClaimInv' BY ClaimInvKept
  <2>3. \A t \in tasks' : t.fence < nextFence /\ t.fence \in Nat /\ nextFence \in Nat
    BY <2>1, <2>2, QueueAssumption DEF ClaimInv, FencesTellTasks, TypeOK, Task
  <2> QED BY <2>1, <2>3
<1> QED BY <1>1, <1>2

(* Every step keeps the invariant.                                         *)
LEMMA QueueStep == QueueInv /\ [Next]_vars => QueueInv'
<1> SUFFICES ASSUME QueueInv, [Next]_vars PROVE QueueInv' OBVIOUS
<1> USE DEF QueueInv
<1>1. CASE UNCHANGED vars
  BY <1>1 DEF vars, ClaimInv, TypeOK, FencesTellTasks, TasksAreAdmitted, HeldRows,
              ExecutorHolds,
              OneExecutor, ClaimsCovered, NumbersDiffer, PassedIsAhead, PassedAtMostOnce,
              Executing, Holds, Queued, Waiting, Ready, Candidates
<1>2. CASE Next
  <2>1. ClaimInv' BY <1>2, ClaimInvKept
  <2>2. TypeOK BY DEF ClaimInv
  <2>3. NumbersKept \/ \E o \in Operations : Admit(o)
    BY <1>2, TaskKeepsNumbers, OthersKeepNumbers DEF Next, Step
  <2>4. CASE Claim
    <3>1. Ready # {} /\ turns' = Rotated(Chosen) BY <2>4 DEF Claim
    <3>2. NumbersDiffer' BY <2>2, <2>3, <3>1, RowsStayApart, TurnsStayApart DEF NumbersDiffer
    <3>3. PassedIsAhead' /\ PassedAtMostOnce' BY <1>2, <2>4, ClaimPassesOnce DEF Next
    <3> QED BY <2>1, <3>2, <3>3
  <2>5. CASE PollNothing
    <3>1. Ready = {} /\ turns' = Ordered BY <2>5 DEF PollNothing
    <3>2. NumbersDiffer' BY <2>2, <2>3, <3>1, RowsStayApart, TurnsStayApart DEF NumbersDiffer
    <3>3. PassedIsAhead' /\ PassedAtMostOnce' BY <1>2, <3>1, PollPassesNobody DEF Next
    <3> QED BY <2>1, <3>2, <3>3
  <2>6. CASE ~Claim /\ ~PollNothing
    <3>1. turns' = turns /\ \A t \in tasks' : t.fence # nextFence BY <1>2, <2>6, QuietSteps
    <3>2. NumbersDiffer' BY <2>2, <2>3, <3>1, RowsStayApart, TurnsStayApart DEF NumbersDiffer
    <3>3. PassedIsAhead' /\ PassedAtMostOnce' BY <1>2, <2>2, <3>1, QuietPassesNobody DEF Next
    <3> QED BY <2>1, <3>2, <3>3
  <2> QED BY <2>4, <2>5, <2>6
<1> QED BY <1>1, <1>2

(* The invariant holds throughout.                                         *)
LEMMA QueueInvariant == Spec => []QueueInv
BY QueueInit, QueueStep, PTL DEF Spec

(* Rows, turns, tasks, fences and the in-flight limit stay what the schema *)
(* and the scheduler loop say they are.                                    *)
THEOREM QueueTypeCorrect == Spec => []TypeOK
<1>1. QueueInv => TypeOK BY DEF QueueInv, ClaimInv
<1> QED BY <1>1, QueueInvariant, PTL

(* Two executions of one operation never run side by side: the checkpoint  *)
(* is taken under the fence, so a claim that lapsed and was taken over     *)
(* cannot start, and a claim that started is never taken over.             *)
THEOREM QueueOneExecutor == Spec => []OneExecutor
<1>1. QueueInv => OneExecutor BY DEF QueueInv, ClaimInv
<1> QED BY <1>1, QueueInvariant, PTL

(* While the daemon is up, every claim on a row the scheduler may give out *)
(* belongs to a task in the air: run_one gives it back on every way out,   *)
(* and startup sweeps what a dead process left.                            *)
THEOREM QueueClaimHasTask == Spec => []ClaimHasTask
<1>1. QueueInv => ClaimHasTask BY DEF QueueInv, ClaimInv, ClaimsCovered, ClaimHasTask
<1> QED BY <1>1, QueueInvariant, PTL

(* A producer with ready work is passed by any other at most once before   *)
(* it is served, for any number of producers and operations: whoever is    *)
(* served goes behind everybody who waits (ProducerTurns).                 *)
THEOREM QueuePassedAtMostOnce == Spec => []PassedAtMostOnce
<1>1. QueueInv => PassedAtMostOnce BY DEF QueueInv
<1> QED BY <1>1, QueueInvariant, PTL

(* A stop that awaits its tasks leaves no claim on a row the next process  *)
(* may be given (scheduler_loop, run_one).                                 *)
THEOREM QueueStopLeavesNoClaim == Spec => StopLeavesNoClaim
<1>1. QueueInv /\ Drained => \A o \in Operations :
          (Queued(o) /\ ~row[o].manual) => row[o].fence = 0
  BY DEF QueueInv, ClaimInv, ClaimsCovered, Drained
<1>2. QueueInv => [Drained => \A o \in Operations :
          (Queued(o) /\ ~row[o].manual) => row[o].fence = 0]_vars
  BY <1>1
<1> QED BY <1>2, QueueInvariant, PTL DEF StopLeavesNoClaim

=============================================================================
