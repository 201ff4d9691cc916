----------------------- MODULE ProtocolSessionProofs -----------------------
(***************************************************************************)
(* What holds of a session for any number of identifiers and lines and any  *)
(* bounds of the queue: an identifier names one thing, the room a worker's  *)
(* answer needs is kept for it, no honest client is told its identifier is  *)
(* in use, and a session that drains owes nobody an answer.  The inductive  *)
(* invariant is SessionInv; it follows each request from the client to its  *)
(* answer.                                                                   *)
(***************************************************************************)
EXTENDS ProtocolSession, FiniteSetTheorems, SequenceTheorems, TLAPS

\* A line of M is in the queue s.
Has(s, M) == \E k \in 1 .. Len(s) : s[k] \in M

\* At most one line of M is in s.
Once(s, M) == \A j, k \in 1 .. Len(s) : s[j] \in M /\ s[k] \in M => j = k

\* Behind every line of M in s comes a line of N.
Followed(s, M, N) ==
    \A k \in 1 .. Len(s) : s[k] \in M => \E m \in (k + 1) .. Len(s) : s[m] \in N

\* A line of M can only be the last of s.
OnlyLast(s, M) == \A k \in 1 .. Len(s) : s[k] \in M => k = Len(s)

\* Prefix sums of the lengths of the lines of s, which add up to n.
Counted(s, n) ==
    \E sum \in [0 .. Len(s) -> 0 .. MaxQueuedBytes] :
        /\ sum[0] = 0 /\ sum[Len(s)] = n
        /\ \A k \in 1 .. Len(s) : sum[k] = sum[k - 1] + s[k].bytes
        /\ \A j, k \in 0 .. Len(s) : j <= k => sum[j] <= sum[k]

\* The lines that ask under i, that cancel i, and that end the input.
RequestsOf(i) == {m \in Inputs : m.kind \in Requests /\ m.id = i}
CancelsOf(i) == {m \in Inputs : m.kind = "cancel" /\ m.id = i}
LastLines == {m \in Inputs : m.kind \in {"tooLong", "end"}}

\* The answers of a worker or the coordinator to i, and all lines that settle it,
\* refusals included.
ResponsesTo(i) == {m \in Answers : m.kind = "response" /\ m.id = i}
AnswersTo(i) == {m \in Answers : m.id = i}

\* Output that failed waits for nothing; otherwise the count of bytes is the sum of the
\* lines (OutputQueue).
OutputInv ==
    /\ failure # "none" => waiting = <<>> /\ waitingBytes = 0
    /\ Counted(waiting, waitingBytes)

\* Input that ended leaves no line; only a request is held back; a thread that writes has
\* a line (Session).
IntakeInv ==
    /\ inputEnded => input = <<>> /\ held = NoLine
    /\ OnlyLast(input, LastLines)
    /\ held # NoLine => held.kind \in Requests
    /\ writer # "idle" => writing # NoLine
    /\ phase = "serving" /\ step = "write" /\ inputEnded => failure = "none"

\* An identifier is the name of one answer on its way, or of one worker, or of nothing
\* (ActiveRequestRegistry).
Named(i) ==
    /\ Once(waiting, ResponsesTo(i))
    /\ ~ (Has(waiting, ResponsesTo(i)) /\ writing \in ResponsesTo(i))
    /\ active[i] = "Answered" <=> Has(waiting, ResponsesTo(i)) \/ writing \in ResponsesTo(i)
    /\ i \in pending <=> active[i] \in {"Reserved", "Cancelling"}
    /\ i \in flagged <=> active[i] = "Cancelling"

\* Where a request of i can be: sent, held back, with its worker, its answer in the
\* queue, or its answer with the writer.
Sent(i) == Has(input, RequestsOf(i))
Kept(i) == held \in RequestsOf(i)
Works(i) == active[i] \in {"Reserved", "Cancelling"}
Waits(i) == Has(waiting, AnswersTo(i))
Leaves(i) == writer = "busy" /\ writing \in AnswersTo(i)

\* It is in one of these places only, and there once.
Alone(i) ==
    /\ Once(input, RequestsOf(i)) /\ Once(waiting, AnswersTo(i))
    /\ Sent(i) => ~ Kept(i) /\ ~ Works(i) /\ ~ Waits(i) /\ ~ Leaves(i)
    /\ Kept(i) => ~ Works(i) /\ ~ Waits(i) /\ ~ Leaves(i)
    /\ Works(i) => ~ Waits(i) /\ ~ Leaves(i)
    /\ Waits(i) => ~ Leaves(i)

\* It is in one of them.
Somewhere(i) == Sent(i) \/ Kept(i) \/ Works(i) \/ Waits(i) \/ Leaves(i)

\* A request of a client that waits for answers is in at most one place; with no request
\* open, in none; with an open one, in exactly one, unless the writer has just failed. A
\* cancellation of an open request is of an earlier one, so the request comes behind it.
Standing(i) ==
    /\ client[i] # "spoiled" => Alone(i)
    /\ client[i] \in {"unused", "idle"} => ~ Somewhere(i)
    /\ client[i] = "open" =>
          /\ Followed(input, CancelsOf(i), RequestsOf(i))
          /\ active[i] # "Cancelling"
          /\ writer \notin {"Expired", "Refused"} => Somewhere(i)

\* The inductive invariant. What is said per identifier is said while output works: a
\* failed queue is emptied, and the session is about to end.
SessionInv ==
    /\ TypeOK
    /\ OutputInv
    /\ RoomIsLeft
    /\ IntakeInv
    /\ failure = "none" => \A i \in Identifiers : Named(i) /\ Standing(i)
    /\ NoFalseDuplicate
    /\ DrainAnswersEverything

-----------------------------------------------------------------------------
(* Sequences: what joins at the end and what leaves at the front. *)

\* Nothing is in the empty queue.
LEMMA EmptyHas ==
    ASSUME NEW M
    PROVE  /\ ~ Has(<<>>, M) /\ Once(<<>>, M)
           /\ OnlyLast(<<>>, M)
BY DEF Has, Once, OnlyLast

\* A line that is appended is in the queue, behind all others.
LEMMA AppendHas ==
    ASSUME NEW S, NEW s \in Seq(S), NEW x \in S, NEW M
    PROVE  /\ Has(Append(s, x), M) <=> Has(s, M) \/ x \in M
           /\ Once(s, M) /\ ~ (Has(s, M) /\ x \in M) => Once(Append(s, x), M)
           /\ ~ Has(s, M) => OnlyLast(Append(s, x), M)
<1> DEFINE t == Append(s, x)
<1>1. /\ Len(t) = Len(s) + 1 /\ Len(s) \in Nat /\ t[Len(s) + 1] = x
      /\ \A k \in 1 .. Len(s) : t[k] = s[k]
  OBVIOUS
<1> HIDE DEF t
<1>2. \A k \in 1 .. Len(t) : k = Len(s) + 1 \/ k \in 1 .. Len(s)
  BY <1>1
<1>3. Has(t, M) <=> Has(s, M) \/ x \in M
  BY <1>1, <1>2 DEF Has
<1>4. Once(s, M) /\ ~ (Has(s, M) /\ x \in M) => Once(t, M)
  BY <1>1, <1>2 DEF Has, Once
<1>5. ~ Has(s, M) => OnlyLast(t, M)
  BY <1>1, <1>2 DEF Has, OnlyLast
<1> QED  BY <1>3, <1>4, <1>5 DEF t

\* A line that is appended may be what another waits for.
LEMMA AppendFollowed ==
    ASSUME NEW S, NEW s \in Seq(S), NEW x \in S, NEW M, NEW N,
           x \notin M, x \in N \/ Followed(s, M, N)
    PROVE  Followed(Append(s, x), M, N)
<1> DEFINE t == Append(s, x)
<1>1. /\ Len(t) = Len(s) + 1 /\ Len(s) \in Nat /\ t[Len(s) + 1] = x
      /\ \A k \in 1 .. Len(s) : t[k] = s[k]
  OBVIOUS
<1> HIDE DEF t
<1>2. SUFFICES ASSUME NEW k \in 1 .. Len(t), t[k] \in M
               PROVE  \E m \in (k + 1) .. Len(t) : t[m] \in N
  BY DEF Followed, t
<1>3. k \in 1 .. Len(s) /\ s[k] \in M
  BY <1>1, <1>2
<1>4. CASE x \in N
  BY <1>1, <1>3, <1>4
<1>5. CASE Followed(s, M, N)
  <2>1. PICK m \in (k + 1) .. Len(s) : s[m] \in N
    BY <1>3, <1>5 DEF Followed
  <2>2. m \in 1 .. Len(s) /\ m \in (k + 1) .. Len(t) /\ t[m] = s[m]
    BY <1>1, <1>3, <2>1
  <2> QED  BY <2>1, <2>2
<1> QED  BY <1>4, <1>5

\* What a line that leaves the front takes with it.
LEMMA TailHas ==
    ASSUME NEW S, NEW s \in Seq(S), s # <<>>, NEW M
    PROVE  /\ Head(s) \in S /\ Tail(s) \in Seq(S)
           /\ Has(s, M) <=> Head(s) \in M \/ Has(Tail(s), M)
           /\ Once(s, M) => Once(Tail(s), M)
           /\ Once(s, M) /\ Head(s) \in M => ~ Has(Tail(s), M)
           /\ OnlyLast(s, M) => OnlyLast(Tail(s), M)
           /\ OnlyLast(s, M) /\ Head(s) \in M => Tail(s) = <<>>
<1> DEFINE t == Tail(s)
<1>1. /\ t \in Seq(S) /\ Head(s) \in S /\ Head(s) = s[1]
      /\ Len(t) = Len(s) - 1 /\ Len(s) \in Nat /\ Len(s) > 0
      /\ \A k \in 1 .. Len(t) : t[k] = s[k + 1]
  BY HeadTailProperties
<1> HIDE DEF t
<1>2. \A k \in 1 .. Len(s) : k = 1 \/ (k - 1 \in 1 .. Len(t) /\ t[k - 1] = s[k])
  BY <1>1
<1>3. \A k \in 1 .. Len(t) : k + 1 \in 1 .. Len(s) /\ k + 1 # 1
  BY <1>1
<1>4. Has(s, M) <=> Head(s) \in M \/ Has(t, M)
  <2>1. ASSUME Has(s, M) PROVE Head(s) \in M \/ Has(t, M)
    BY <1>1, <1>2, <2>1 DEF Has
  <2>2. ASSUME Head(s) \in M \/ Has(t, M) PROVE Has(s, M)
    <3>1. CASE Head(s) \in M
      BY <1>1, <3>1 DEF Has
    <3>2. CASE Has(t, M)
      BY <1>1, <1>3, <3>2 DEF Has
    <3> QED  BY <2>2, <3>1, <3>2
  <2> QED  BY <2>1, <2>2
<1>5. Once(s, M) => Once(t, M)
  <2> SUFFICES ASSUME Once(s, M), NEW j \in 1 .. Len(t), NEW k \in 1 .. Len(t),
                      t[j] \in M, t[k] \in M
               PROVE  j = k
    BY DEF Once
  <2>1. j + 1 = k + 1
    BY <1>1, <1>3 DEF Once
  <2> QED  BY <2>1
<1>6. Once(s, M) /\ Head(s) \in M => ~ Has(t, M)
  <2> SUFFICES ASSUME Once(s, M), s[1] \in M, NEW k \in 1 .. Len(t), t[k] \in M
               PROVE  FALSE
    BY <1>1 DEF Has
  <2>1. 1 = k + 1
    BY <1>1, <1>3 DEF Once
  <2> QED  BY <2>1
<1>7. OnlyLast(s, M) => OnlyLast(t, M)
  <2> SUFFICES ASSUME OnlyLast(s, M), NEW k \in 1 .. Len(t), t[k] \in M
               PROVE  k = Len(t)
    BY DEF OnlyLast
  <2>1. k + 1 = Len(s)
    BY <1>1, <1>3 DEF OnlyLast
  <2> QED  BY <1>1, <2>1
<1>8. OnlyLast(s, M) /\ Head(s) \in M => t = <<>>
  <2> SUFFICES ASSUME OnlyLast(s, M), s[1] \in M
               PROVE  t = <<>>
    BY <1>1
  <2>1. 1 = Len(s)
    BY <1>1 DEF OnlyLast
  <2>2. Len(t) = 0
    BY <1>1, <2>1
  <2> QED  BY <1>1, <2>2, EmptySeq
<1> QED  BY <1>1, <1>4, <1>5, <1>6, <1>7, <1>8 DEF t

\* What follows a line stays when a line before it leaves.
LEMMA TailFollowed ==
    ASSUME NEW S, NEW s \in Seq(S), s # <<>>, NEW M, NEW N, Followed(s, M, N)
    PROVE  /\ Followed(Tail(s), M, N)
           /\ Head(s) \in M => Has(Tail(s), N)
<1> DEFINE t == Tail(s)
<1>1. /\ Head(s) = s[1]
      /\ Len(t) = Len(s) - 1 /\ Len(s) \in Nat /\ Len(s) > 0
      /\ \A k \in 1 .. Len(t) : t[k] = s[k + 1]
  BY HeadTailProperties
<1> HIDE DEF t
<1>2. ASSUME NEW k \in 1 .. Len(t), t[k] \in M
      PROVE  \E m \in (k + 1) .. Len(t) : t[m] \in N
  <2>1. k + 1 \in 1 .. Len(s) /\ s[k + 1] \in M
    BY <1>1, <1>2
  <2>2. PICK m \in (k + 1 + 1) .. Len(s) : s[m] \in N
    BY <2>1 DEF Followed
  <2>3. m - 1 \in (k + 1) .. Len(t) /\ m - 1 \in 1 .. Len(t) /\ (m - 1) + 1 = m
    BY <1>1, <2>2
  <2>4. t[m - 1] = s[m]
    BY <1>1, <2>3
  <2> QED  BY <2>2, <2>3, <2>4
<1>3. ASSUME s[1] \in M PROVE Has(t, N)
  <2>1. PICK m \in 2 .. Len(s) : s[m] \in N
    BY <1>1, <1>3 DEF Followed
  <2>2. m - 1 \in 1 .. Len(t) /\ (m - 1) + 1 = m
    BY <1>1, <2>1
  <2>3. t[m - 1] = s[m]
    BY <1>1, <2>2
  <2> QED  BY <2>1, <2>2, <2>3 DEF Has
<1> QED  BY <1>1, <1>2, <1>3 DEF Followed, t

-----------------------------------------------------------------------------
(* The count of waiting bytes. *)

\* An empty queue counts nothing.
LEMMA EmptyCounted == Counted(<<>>, 0)
<1> DEFINE f == [k \in 0 .. 0 |-> 0]
<1>1. Len(<<>>) = 0
  OBVIOUS
<1>2. f \in [0 .. 0 -> 0 .. MaxQueuedBytes]
  BY SessionBounds
<1>3. f[0] = 0 /\ \A j \in 0 .. 0 : j = 0
  OBVIOUS
<1> HIDE DEF f
<1>4. \A j, k \in 0 .. 0 : f[j] <= f[k]
  BY <1>3
<1> QED  BY <1>1, <1>2, <1>3, <1>4 DEF Counted

\* A line that is appended is added to the count.
LEMMA AppendCounted ==
    ASSUME NEW s \in Seq(Answers), NEW x \in Answers, NEW n \in 0 .. MaxQueuedBytes,
           Counted(s, n), n + x.bytes <= MaxQueuedBytes
    PROVE  Counted(Append(s, x), n + x.bytes) /\ n + x.bytes \in 0 .. MaxQueuedBytes
<1> DEFINE t == Append(s, x)
           l == Len(s)
           b == x.bytes
<1>1. /\ Len(t) = l + 1 /\ l \in Nat /\ t[l + 1] = x
      /\ \A k \in 1 .. l : t[k] = s[k]
  OBVIOUS
<1>2. b \in Nat
  BY SessionBounds DEF Answers, Bytes
<1> HIDE DEF t, b
<1>3. PICK f \in [0 .. l -> 0 .. MaxQueuedBytes] :
        /\ f[0] = 0 /\ f[l] = n
        /\ \A k \in 1 .. l : f[k] = f[k - 1] + s[k].bytes
        /\ \A j, k \in 0 .. l : j <= k => f[j] <= f[k]
  BY DEF Counted
<1> HIDE DEF l
<1> DEFINE g == [k \in 0 .. (l + 1) |-> IF k = l + 1 THEN n + b ELSE f[k]]
<1>4. n + b \in 0 .. MaxQueuedBytes
  BY <1>2, SessionBounds DEF b
<1>5. g \in [0 .. (l + 1) -> 0 .. MaxQueuedBytes]
  <2>1. \A k \in 0 .. (l + 1) : k = l + 1 \/ k \in 0 .. l
    BY <1>1
  <2> QED  BY <1>3, <1>4, <2>1
<1>6. \A k \in 0 .. l : g[k] = f[k] /\ f[k] \in 0 .. MaxQueuedBytes
  BY <1>1, <1>3
<1>7. g[l + 1] = n + b
  BY <1>1
<1> HIDE DEF g
<1>8. \A k \in 1 .. (l + 1) : g[k] = g[k - 1] + t[k].bytes
  <2> TAKE k \in 1 .. (l + 1)
  <2>1. CASE k = l + 1
    <3>0. l \in Nat
      BY <1>1
    <3>1. k - 1 = l /\ l \in 0 .. l
      BY <2>1, <3>0
    <3> QED  BY <1>1, <1>3, <1>6, <1>7, <2>1, <3>1 DEF b
  <2>2. CASE k \in 1 .. l
    <3>1. k \in 0 .. l /\ k - 1 \in 0 .. l
      BY <1>1, <2>2
    <3> QED  BY <1>1, <1>3, <1>6, <2>2, <3>1
  <2> QED  BY <1>1, <2>1, <2>2
<1>9. \A j, k \in 0 .. (l + 1) : j <= k => g[j] <= g[k]
  <2> SUFFICES ASSUME NEW j \in 0 .. (l + 1), NEW k \in 0 .. (l + 1), j <= k
               PROVE  g[j] <= g[k]
    OBVIOUS
  <2>1. CASE k = l + 1 /\ j = l + 1
    BY <1>4, <1>7, <2>1
  <2>2. CASE k = l + 1 /\ j \in 0 .. l
    <3>1. f[j] <= f[l] /\ l \in 0 .. l
      BY <1>1, <1>3, <2>2
    <3> QED  BY <1>2, <1>3, <1>6, <1>7, <2>2, <3>1
  <2>3. CASE k \in 0 .. l /\ j \in 0 .. l
    BY <1>3, <1>6, <2>3
  <2> QED  BY <1>1, <2>1, <2>2, <2>3
<1>10. g[0] = 0
  BY <1>1, <1>3, <1>6
<1>11. Counted(t, n + b)
  BY <1>1, <1>5, <1>7, <1>8, <1>9, <1>10 DEF Counted
<1> QED  BY <1>4, <1>11 DEF t, b

\* The line that leaves is taken from the count, which it never exceeds: take_next
\* subtracts without going below zero.
LEMMA TailCounted ==
    ASSUME NEW s \in Seq(Answers), s # <<>>, NEW n \in 0 .. MaxQueuedBytes, Counted(s, n)
    PROVE  /\ Counted(Tail(s), n - Head(s).bytes)
           /\ n - Head(s).bytes \in 0 .. MaxQueuedBytes
<1> DEFINE t == Tail(s)
           l == Len(s)
           b == Head(s).bytes
<1>1. /\ Head(s) \in Answers /\ Head(s) = s[1]
      /\ Len(t) = l - 1 /\ l \in Nat /\ l > 0
      /\ \A k \in 1 .. Len(t) : t[k] = s[k + 1]
  BY HeadTailProperties
<1>2. b \in Nat
  BY <1>1, SessionBounds DEF Answers, Bytes
<1>3. b = s[1].bytes
  BY <1>1
<1> HIDE DEF t, b
<1>4. PICK f \in [0 .. l -> 0 .. MaxQueuedBytes] :
        /\ f[0] = 0 /\ f[l] = n
        /\ \A k \in 1 .. l : f[k] = f[k - 1] + s[k].bytes
        /\ \A j, k \in 0 .. l : j <= k => f[j] <= f[k]
  BY DEF Counted
<1> HIDE DEF l
<1>5. f[1] = b
  <2>1. 1 \in 1 .. l /\ 1 - 1 = 0
    BY <1>1
  <2>2. f[1] = f[1 - 1] + s[1].bytes
    BY <1>4, <2>1
  <2> QED  BY <1>2, <1>3, <1>4, <2>1, <2>2
<1> DEFINE g == [k \in 0 .. (l - 1) |-> f[k + 1] - b]
<1>6. \A k \in 0 .. (l - 1) :
        /\ k + 1 \in 0 .. l /\ k + 1 \in 1 .. l /\ g[k] = f[k + 1] - b
        /\ f[k + 1] \in 0 .. MaxQueuedBytes
        /\ f[k + 1] - b \in 0 .. MaxQueuedBytes
  <2> TAKE k \in 0 .. (l - 1)
  <2>1. k + 1 \in 0 .. l /\ k + 1 \in 1 .. l /\ 1 <= k + 1 /\ 1 \in 0 .. l
    BY <1>1
  <2>2. f[1] <= f[k + 1] /\ f[k + 1] \in 0 .. MaxQueuedBytes
    BY <1>4, <2>1
  <2>3. f[k + 1] - b \in 0 .. MaxQueuedBytes
    BY <1>2, <1>5, <2>2, SessionBounds
  <2> QED  BY <2>1, <2>2, <2>3
<1>7. g \in [0 .. (l - 1) -> 0 .. MaxQueuedBytes]
  BY <1>6
<1> HIDE DEF g
<1>8. g[0] = 0
  <2>1. 0 \in 0 .. (l - 1) /\ 0 + 1 = 1
    BY <1>1
  <2>2. g[0] = f[1] - b
    BY <1>6, <2>1
  <2> QED  BY <1>2, <1>5, <2>2
<1>9. g[l - 1] = n - b /\ n - b \in 0 .. MaxQueuedBytes
  <2>1. l - 1 \in 0 .. (l - 1) /\ (l - 1) + 1 = l
    BY <1>1
  <2> QED  BY <1>4, <1>6, <2>1
<1>10. \A k \in 1 .. (l - 1) : g[k] = g[k - 1] + t[k].bytes
  <2> TAKE k \in 1 .. (l - 1)
  <2>1. k \in 0 .. (l - 1) /\ k - 1 \in 0 .. (l - 1) /\ (k - 1) + 1 = k /\ k + 1 \in 1 .. l
        /\ k \in 0 .. l
    BY <1>1
  <2>2. g[k] = f[k + 1] - b /\ g[k - 1] = f[k] - b
    BY <1>6, <2>1
  <2>3. f[k + 1] = f[k] + s[k + 1].bytes
    <3>1. f[k + 1] = f[(k + 1) - 1] + s[k + 1].bytes /\ (k + 1) - 1 = k
      BY <1>4, <2>1
    <3> QED  BY <3>1
  <2>4. t[k] = s[k + 1] /\ s[k + 1] \in Answers
    BY <1>1, <2>1 DEF l
  <2>5. s[k + 1].bytes \in Nat
    BY <2>4, SessionBounds DEF Answers, Bytes
  <2>6. f[k] \in Nat /\ f[k + 1] \in Nat
    BY <1>4, <1>6, <2>1
  <2> QED  BY <1>2, <2>2, <2>3, <2>4, <2>5, <2>6
<1>11. \A j, k \in 0 .. (l - 1) : j <= k => g[j] <= g[k]
  <2> SUFFICES ASSUME NEW j \in 0 .. (l - 1), NEW k \in 0 .. (l - 1), j <= k
               PROVE  g[j] <= g[k]
    OBVIOUS
  <2>1. j + 1 \in 0 .. l /\ k + 1 \in 0 .. l /\ j + 1 <= k + 1
    BY <1>1
  <2>2. f[j + 1] <= f[k + 1]
    BY <1>4, <2>1
  <2>3. g[j] = f[j + 1] - b /\ g[k] = f[k + 1] - b
        /\ f[j + 1] \in 0 .. MaxQueuedBytes /\ f[k + 1] \in 0 .. MaxQueuedBytes
    BY <1>6
  <2> QED  BY <1>2, <2>2, <2>3
<1>12. Counted(t, n - b)
  BY <1>1, <1>7, <1>8, <1>9, <1>10, <1>11 DEF Counted
<1> QED  BY <1>9, <1>12 DEF t, b

-----------------------------------------------------------------------------
(* What the queue's operations leave behind. *)

\* Output that failed is an empty queue, whatever failed first.
LEMMA FailFacts ==
    ASSUME TypeOK, OutputInv,
           NEW reason \in {"PressureExpired", "WriteExpired", "SinkFailed"}, Fail(reason)
    PROVE  /\ waiting' = <<>> /\ waitingBytes' = 0
           /\ failure' \in {"PressureExpired", "WriteExpired", "SinkFailed"}
           /\ waiting' \in Seq(Answers) /\ waitingBytes' \in 0 .. MaxQueuedBytes
           /\ OutputInv'
<1>1. /\ waiting' = <<>> /\ waitingBytes' = 0
      /\ failure' \in {"PressureExpired", "WriteExpired", "SinkFailed"}
  BY DEF Fail, OutputInv, TypeOK
<1>2. waiting' \in Seq(Answers) /\ waitingBytes' \in 0 .. MaxQueuedBytes
  BY <1>1, SessionBounds
<1>3. OutputInv'
  BY <1>1, EmptyCounted DEF OutputInv
<1> QED  BY <1>1, <1>2, <1>3

\* A line is either queued and counted, or the end of all output.
LEMMA EnqueueFacts ==
    ASSUME TypeOK, OutputInv, NEW line \in Answers, Enqueue(line)
    PROVE  /\ \/ /\ Takes(line) /\ failure = "none" /\ failure' = "none"
                 /\ waiting' = Append(waiting, line)
                 /\ waitingBytes' = waitingBytes + line.bytes
              \/ /\ ~ Takes(line) /\ failure' # "none"
                 /\ waiting' = <<>> /\ waitingBytes' = 0
           /\ failure' \in {"none", "PressureExpired", "WriteExpired", "SinkFailed"}
           /\ waiting' \in Seq(Answers) /\ waitingBytes' \in 0 .. MaxQueuedBytes
           /\ OutputInv'
<1>1. CASE Takes(line)
  <2>1. /\ waiting' = Append(waiting, line) /\ waitingBytes' = waitingBytes + line.bytes
        /\ failure = "none" /\ failure' = "none"
    BY <1>1 DEF Enqueue, Takes
  <2>2. /\ Counted(Append(waiting, line), waitingBytes + line.bytes)
        /\ waitingBytes + line.bytes \in 0 .. MaxQueuedBytes
    <3>1. /\ waiting \in Seq(Answers) /\ waitingBytes \in 0 .. MaxQueuedBytes
          /\ Counted(waiting, waitingBytes) /\ waitingBytes + line.bytes <= MaxQueuedBytes
      BY <1>1 DEF TypeOK, OutputInv, Takes
    <3> QED  BY <3>1, AppendCounted
  <2>3. Append(waiting, line) \in Seq(Answers)
    BY DEF TypeOK
  <2>4. OutputInv'
    BY <2>1, <2>2 DEF OutputInv
  <2> QED  BY <1>1, <2>1, <2>2, <2>3, <2>4
<1>2. CASE ~ Takes(line)
  <2>1. Fail("PressureExpired")
    BY <1>2 DEF Enqueue
  <2> QED  BY <1>2, <2>1, FailFacts
<1> QED  BY <1>1, <1>2

\* The line handed to the writer leaves the queue with its bytes.
LEMMA StartWriteFacts ==
    ASSUME TypeOK, OutputInv, StartWrite
    PROVE  /\ waiting # <<>> /\ writing = NoLine
           /\ Head(waiting) \in Answers /\ writing' = Head(waiting)
           /\ waiting' = Tail(waiting) /\ waiting' \in Seq(Answers)
           /\ Len(waiting') = Len(waiting) - 1 /\ Len(waiting) \in Nat
           /\ waitingBytes' = waitingBytes - Head(waiting).bytes
           /\ waitingBytes' \in 0 .. MaxQueuedBytes
           /\ failure = "none" /\ failure' = "none"
           /\ OutputInv'
<1>1. /\ waiting # <<>> /\ writing = NoLine /\ writing' = Head(waiting)
      /\ waiting' = Tail(waiting) /\ failure' = failure
      /\ waitingBytes' = waitingBytes - Head(waiting).bytes
      /\ waiting \in Seq(Answers) /\ waitingBytes \in 0 .. MaxQueuedBytes
      /\ Counted(waiting, waitingBytes)
  BY DEF StartWrite, TakeNext, TypeOK, OutputInv
<1>2. failure = "none"
  BY <1>1 DEF OutputInv
<1>3. Head(waiting) \in Answers /\ Tail(waiting) \in Seq(Answers)
      /\ Len(Tail(waiting)) = Len(waiting) - 1 /\ Len(waiting) \in Nat
  BY <1>1, HeadTailProperties
<1>4. /\ Counted(Tail(waiting), waitingBytes - Head(waiting).bytes)
      /\ waitingBytes - Head(waiting).bytes \in 0 .. MaxQueuedBytes
  BY <1>1, TailCounted
<1>5. OutputInv'
  BY <1>1, <1>2, <1>4 DEF OutputInv
<1> QED  BY <1>1, <1>2, <1>3, <1>4, <1>5

\* The line that is taken is the one held, or else the next of the input.
LEMMA TakeFacts ==
    ASSUME TypeOK, IntakeInv, NEW line, line = NextLine, line # NoLine, Take(line)
    PROVE  /\ line \in Inputs /\ input' \in Seq(Inputs)
           /\ OnlyLast(input', LastLines)
           /\ line \in LastLines => input' = <<>>
           /\ \/ held = NoLine /\ input # <<>> /\ line = Head(input) /\ input' = Tail(input)
              \/ held = line /\ line.kind \in Requests /\ input' = input
<1>1. CASE held = NoLine
  <2>1. input # <<>> /\ line = Head(input) /\ input' = Tail(input)
    BY <1>1 DEF NextLine, Take
  <2> QED  BY <1>1, <2>1, TailHas DEF TypeOK, IntakeInv
<1>2. CASE held # NoLine
  <2>1. line = held /\ input' = input /\ line \in Inputs /\ line.kind \in Requests
    BY <1>2 DEF NextLine, Take, TypeOK, IntakeInv
  <2>2. line \notin LastLines
    BY <2>1 DEF LastLines, Requests
  <2> QED  BY <1>2, <2>1, <2>2 DEF TypeOK, IntakeInv
<1> QED  BY <1>1, <1>2

\* What the coordinator answers with are answers.
LEMMA AnswerFacts ==
    ASSUME NEW b \in Bytes
    PROVE  /\ [kind |-> "unreadable", id |-> NoIdentifier, bytes |-> b] \in Answers
           /\ \A i \in Identifiers : Response(i, b) \in ResponsesTo(i)
           /\ \A i \in Identifiers : \A kind \in {"duplicate", "saturated"} :
                [kind |-> kind, id |-> i, bytes |-> b] \in Answers
BY DEF Answers, Response, ResponsesTo

\* A request is refused as a duplicate or for want of a place.
LEMMA RefusalFacts ==
    ASSUME NEW i
    PROVE  /\ Refusal(i) # "none" => Refusal(i) \in {"duplicate", "saturated"}
           /\ Refusal(i) = "none" => active[i] = "none"
           /\ Refusal(i) = "duplicate" <=> active[i] # "none"
BY DEF Refusal

-----------------------------------------------------------------------------
(* The steps of the session, one by one. *)

\* A line the coordinator answers itself, and any line it dispatches.
Answering(line) ==
    \E b \in Bytes :
        Unreadable(line, b) \/ Refused(line, b) \/ Requested(line, b) \/ DeferSettled(line, b)

Dispatching(line) ==
    End(line) \/ Initialized(line) \/ Cancelled(line) \/ Defer(line) \/ Answering(line)

\* The disjuncts of Next, with the line that is taken named.
LEMMA NextCases ==
    ASSUME [Next]_vars
    PROVE  \/ ReceiveDelivery \/ Completed \/ GiveUp \/ PassIntake
           \/ \E line \in {NextLine} \ {NoLine} : Hold(line) \/ Dispatching(line)
           \/ StartWrite \/ NoWrite \/ Interrupted
           \/ \E line \in Inputs : Send(line)
           \/ \E i \in Identifiers, b \in Bytes : WorkerReports(i, b)
           \/ WriterWrites
           \/ \E outcome \in {"Complete", "Expired", "Refused"} : WriterReports(outcome)
           \/ \E deadline \in {"write", "shutdown", "pressure"} : Elapse(deadline)
           \/ UNCHANGED vars
<1>1. Intake => \/ PassIntake
                 \/ \E line \in {NextLine} \ {NoLine} : Hold(line) \/ Dispatching(line)
  BY Zenon DEF Intake, Dispatching, Answering
<1> QED  BY <1>1, Zenon DEF Next, Coordinator

(* Types. *)

\* A dispatched line keeps every variable in its type.
LEMMA DispatchType ==
    ASSUME TypeOK, OutputInv, IntakeInv, NEW line \in {NextLine} \ {NoLine}, Dispatching(line)
    PROVE  TypeOK'
<1>1. Take(line) /\ Dispatch(line)
  BY Zenon DEF Dispatching, Answering, End, Initialized, Cancelled, Defer, Unreadable, Refused,
               Requested, DeferSettled, Dispatch
<1>2. /\ line \in Inputs /\ input' \in Seq(Inputs)
      /\ step' = "write" /\ pressured' = FALSE /\ elapsed' = elapsed \ {"pressure"}
      /\ held' = NoLine
      /\ UNCHANGED <<client, sends, streamVars, completions, phase>>
  <2>1. line = NextLine /\ line # NoLine
    OBVIOUS
  <2>2. line \in Inputs /\ input' \in Seq(Inputs)
    BY <1>1, <2>1, TakeFacts
  <2> QED  BY <1>1, <2>2 DEF Dispatch, Take
<1>3. line.kind \in Requests \cup {"cancel"} => line.id \in Identifiers
  BY <1>2 DEF Inputs, Requests
<1>4. \A how \in {"Reserved", "Answered", "Cancelling"} :
        line.id \in Identifiers =>
            [active EXCEPT ![line.id] = how]
                \in [Identifiers -> {"none", "Reserved", "Answered", "Cancelling"}]
  BY DEF TypeOK
<1>5. CASE End(line)
  BY <1>2, <1>5 DEF End, TypeOK, streamVars, requestVars, outputVars
<1>6. CASE Initialized(line)
  BY <1>2, <1>6 DEF Initialized, TypeOK, streamVars, outputVars
<1>7. CASE Cancelled(line)
  <2>1. line.id \in Identifiers
    BY <1>3, <1>7 DEF Cancelled
  <2>2. /\ active' \in [Identifiers -> {"none", "Reserved", "Answered", "Cancelling"}]
        /\ flagged' \subseteq Identifiers
    BY <1>4, <1>7, <2>1 DEF Cancelled, TypeOK
  <2>3. UNCHANGED <<lifecycle, pending, running, outputVars, inputEnded>>
    BY <1>7 DEF Cancelled
  <2> QED  BY <1>2, <2>2, <2>3 DEF TypeOK, streamVars, outputVars
<1>8. CASE Defer(line)
  BY <1>2, <1>3, <1>4, <1>8 DEF Defer, TypeOK, streamVars, outputVars, Requests
<1>9. ASSUME NEW a \in Answers, Enqueue(a), UNCHANGED <<pending, flagged, running>>,
             lifecycle' \in {"Fresh", "Offered", "Ready"}, inputEnded' \in BOOLEAN,
             active' \in [Identifiers -> {"none", "Reserved", "Answered", "Cancelling"}]
      PROVE  TypeOK'
  <2>1. /\ waiting' \in Seq(Answers) /\ waitingBytes' \in 0 .. MaxQueuedBytes
        /\ failure' \in {"none", "PressureExpired", "WriteExpired", "SinkFailed"}
    BY <1>9, EnqueueFacts
  <2> QED  BY <1>2, <1>9, <2>1 DEF TypeOK, streamVars
<1>10. CASE Answering(line)
  <2>1. PICK b \in Bytes : \/ Unreadable(line, b) \/ Refused(line, b)
                           \/ Requested(line, b) \/ DeferSettled(line, b)
    BY <1>10 DEF Answering
  <2>2. CASE Unreadable(line, b)
    <3>1. /\ [kind |-> "unreadable", id |-> NoIdentifier, bytes |-> b] \in Answers
          /\ Enqueue([kind |-> "unreadable", id |-> NoIdentifier, bytes |-> b])
          /\ inputEnded' \in BOOLEAN /\ UNCHANGED <<requestVars, running>>
      BY <2>2, AnswerFacts DEF Unreadable
    <3> QED  BY <1>9, <3>1 DEF requestVars, TypeOK
  <2>3. CASE Refused(line, b)
    <3>1. Refusal(line.id) \in {"duplicate", "saturated"} /\ line.id \in Identifiers
      BY <1>3, <2>3, RefusalFacts DEF Refused
    <3>2. [kind |-> Refusal(line.id), id |-> line.id, bytes |-> b] \in Answers
      BY <3>1, AnswerFacts
    <3>3. /\ Enqueue([kind |-> Refusal(line.id), id |-> line.id, bytes |-> b])
          /\ UNCHANGED <<requestVars, running, inputEnded>>
      BY <2>3 DEF Refused
    <3>4. PICK a \in Answers : a = [kind |-> Refusal(line.id), id |-> line.id, bytes |-> b]
      BY <3>2
    <3>5. Enqueue(a)
      BY <3>3, <3>4 DEF Enqueue, Takes, Fail
    <3> QED  BY <1>9, <3>3, <3>5 DEF requestVars, TypeOK
  <2>4. CASE Requested(line, b) \/ DeferSettled(line, b)
    <3>1. /\ line.id \in Identifiers /\ Answered(line.id, b)
          /\ lifecycle' \in {"Fresh", "Offered", "Ready"}
          /\ UNCHANGED <<pending, flagged, running, inputEnded>>
      BY <1>3, <2>4 DEF Requested, DeferSettled, Requests, TypeOK
    <3>2. Response(line.id, b) \in Answers
      BY <3>1, AnswerFacts DEF ResponsesTo
    <3> QED  BY <1>4, <1>9, <3>1, <3>2 DEF Answered, TypeOK
  <2> QED  BY <2>1, <2>2, <2>3, <2>4
<1> QED  BY <1>5, <1>6, <1>7, <1>8, <1>10 DEF Dispatching

\* Every step keeps every variable in its type.
LEMMA TypeStep ==
    ASSUME TypeOK, OutputInv, IntakeInv, [Next]_vars
    PROVE  TypeOK'
<1>1. CASE ReceiveDelivery
  <2>1. NoLine \in Answers \cup {NoLine}
    OBVIOUS
  <2>2. CASE writer = "Complete"
    <3>1. active' \in [Identifiers -> {"none", "Reserved", "Answered", "Cancelling"}]
      BY <1>1, <2>2 DEF ReceiveDelivery, Acknowledged, TypeOK
    <3> QED
      BY <1>1, <2>2, <3>1 DEF ReceiveDelivery, TypeOK, clientVars, workerVars, intakeVars, outputVars
  <2>3. CASE writer \in {"Expired", "Refused"}
    <3>1. \E reason \in {"PressureExpired", "WriteExpired", "SinkFailed"} : Fail(reason)
      BY <1>1, <2>3 DEF ReceiveDelivery
    <3>2. /\ waiting' \in Seq(Answers) /\ waitingBytes' \in 0 .. MaxQueuedBytes
          /\ failure' \in {"none", "PressureExpired", "WriteExpired", "SinkFailed"}
      BY <3>1, FailFacts
    <3>3. /\ UNCHANGED <<streamVars, elapsed, active>> /\ step' = "complete"
          /\ UNCHANGED <<clientVars, lifecycle, pending, flagged, workerVars, intakeVars, phase>>
      BY <1>1, <2>3 DEF ReceiveDelivery
    <3> QED  BY <3>2, <3>3 DEF TypeOK, clientVars, workerVars, intakeVars, streamVars
  <2>4. CASE writer \notin {"Complete", "Expired", "Refused"}
    BY <1>1, <2>4 DEF ReceiveDelivery, TypeOK, clientVars, workerVars, intakeVars, outputVars,
                      streamVars
  <2> QED  BY <2>2, <2>3, <2>4
<1>2. CASE Completed
  <2>1. PICK done \in [id : Identifiers, bytes : Bytes] :
            done = Head(completions) /\ Tail(completions) \in Seq([id : Identifiers, bytes : Bytes])
    BY <1>2, HeadTailProperties DEF Completed, TypeOK
  <2>2. /\ pending' \subseteq Identifiers /\ flagged' \subseteq Identifiers
        /\ completions' \in Seq([id : Identifiers, bytes : Bytes])
        /\ UNCHANGED <<clientVars, lifecycle, running, streamVars, intakeVars, elapsed, step, phase>>
    BY <1>2, <2>1 DEF Completed, TypeOK
  <2>3. \/ UNCHANGED outputVars
        \/ Enqueue(Response(done.id, done.bytes))
    BY <1>2, <2>1 DEF Completed
  <2>4. active' \in [Identifiers -> {"none", "Reserved", "Answered", "Cancelling"}]
    BY <1>2, <2>1 DEF Completed, TypeOK
  <2>5. /\ waiting' \in Seq(Answers) /\ waitingBytes' \in 0 .. MaxQueuedBytes
        /\ failure' \in {"none", "PressureExpired", "WriteExpired", "SinkFailed"}
    <3>1. CASE UNCHANGED outputVars
      BY <3>1 DEF outputVars, TypeOK
    <3>2. CASE Enqueue(Response(done.id, done.bytes))
      <4>1. Response(done.id, done.bytes) \in Answers
        BY AnswerFacts DEF ResponsesTo
      <4> QED  BY <3>2, <4>1, EnqueueFacts
    <3> QED  BY <2>3, <3>1, <3>2
  <2> QED  BY <2>2, <2>4, <2>5 DEF TypeOK, clientVars, streamVars, intakeVars
<1>3. ASSUME NEW how \in {"drained", "ended"}, Finish(how),
             step' \in {"deliver", "complete", "write"},
             UNCHANGED <<clientVars, lifecycle, workerVars, streamVars, intakeVars, elapsed>>
      PROVE  TypeOK'
  <2>1. /\ waiting' \in Seq(Answers) /\ waitingBytes' \in 0 .. MaxQueuedBytes
        /\ failure' \in {"none", "PressureExpired", "WriteExpired", "SinkFailed"}
    BY <1>3, FailFacts DEF Finish
  <2>2. /\ active' \in [Identifiers -> {"none", "Reserved", "Answered", "Cancelling"}]
        /\ pending' \subseteq Identifiers /\ flagged' \subseteq Identifiers
        /\ phase' \in {"serving", "drained", "ended"}
    BY <1>3 DEF Finish, TypeOK
  <2> QED  BY <1>3, <2>1, <2>2 DEF TypeOK, clientVars, workerVars, streamVars, intakeVars
<1>4. CASE GiveUp
  BY <1>3, <1>4 DEF GiveUp, TypeOK
<1>5. CASE PassIntake
  <2>1. /\ pressured' \in BOOLEAN /\ elapsed' \subseteq {"write", "shutdown", "pressure"}
        /\ step' = "write"
    BY <1>5 DEF PassIntake, TypeOK
  <2>2. UNCHANGED <<clientVars, requestVars, workerVars, outputVars, streamVars, held, inputEnded,
                    phase>>
    BY <1>5 DEF PassIntake
  <2> QED  BY <2>1, <2>2 DEF TypeOK, clientVars, requestVars, workerVars, outputVars, streamVars
<1>6. ASSUME NEW line \in {NextLine} \ {NoLine}, Hold(line)
      PROVE  TypeOK'
  <2>1. Take(line) /\ line = NextLine /\ line # NoLine
    BY <1>6 DEF Hold
  <2>2. line \in Inputs /\ input' \in Seq(Inputs)
    BY <2>1, TakeFacts
  <2> QED  BY <1>6, <2>2 DEF Hold, Take, TypeOK, requestVars, outputVars, streamVars
<1>7. ASSUME NEW line \in {NextLine} \ {NoLine}, Dispatching(line)
      PROVE  TypeOK'
  BY <1>7, DispatchType
<1>8. CASE StartWrite
  <2>1. /\ waiting' \in Seq(Answers) /\ waitingBytes' \in 0 .. MaxQueuedBytes
        /\ writing' \in Answers /\ failure' = "none"
    BY <1>8, StartWriteFacts
  <2> QED
    BY <1>8, <2>1 DEF StartWrite, TakeNext, TypeOK, clientVars, requestVars, workerVars, intakeVars
<1>9. CASE NoWrite
  <2>1. CASE Drained
    BY <1>3, <1>9, <2>1 DEF NoWrite
  <2>2. CASE ~ Drained
    BY <1>9, <2>2 DEF NoWrite, TypeOK, clientVars, workerVars, streamVars, intakeVars, outputVars
  <2> QED  BY <2>1, <2>2
<1>10. CASE Interrupted
  BY <1>3, <1>10 DEF Interrupted, TypeOK
<1>11. ASSUME NEW line \in Inputs, Send(line) PROVE TypeOK'
  <2>1. sends' \in 0 .. MaxSends
    BY <1>11, SessionBounds DEF Send, TypeOK
  <2>2. input' \in Seq(Inputs)
    BY <1>11 DEF Send, TypeOK
  <2>3. client' \in [Identifiers -> {"unused", "idle", "open", "withdrawn", "spoiled"}]
    BY <1>11 DEF Send, TypeOK, AfterRequest, AfterCancel
  <2> QED
    BY <1>11, <2>1, <2>2, <2>3 DEF Send, TypeOK, requestVars, workerVars, outputVars, streamVars,
                                   intakeVars
<1>12. ASSUME NEW i \in Identifiers, NEW b \in Bytes, WorkerReports(i, b) PROVE TypeOK'
  <2>1. [id |-> i, bytes |-> b] \in [id : Identifiers, bytes : Bytes]
    OBVIOUS
  <2>2. completions' \in Seq([id : Identifiers, bytes : Bytes]) /\ running' \subseteq Identifiers
    BY <1>12, <2>1 DEF WorkerReports, TypeOK
  <2> QED
    BY <1>12, <2>2 DEF WorkerReports, TypeOK, clientVars, requestVars, outputVars, streamVars,
                       intakeVars
<1>13. CASE WriterWrites
  <2>1. client' \in [Identifiers -> {"unused", "idle", "open", "withdrawn", "spoiled"}]
    BY <1>13 DEF WriterWrites, TypeOK, AfterAnswer
  <2> QED
    BY <1>13, <2>1 DEF WriterWrites, TypeOK, requestVars, workerVars, outputVars, intakeVars
<1>14. ASSUME NEW outcome \in {"Complete", "Expired", "Refused"}, WriterReports(outcome)
       PROVE  TypeOK'
  BY <1>14 DEF WriterReports, TypeOK, clientVars, requestVars, workerVars, outputVars, intakeVars
<1>15. ASSUME NEW deadline \in {"write", "shutdown", "pressure"}, Elapse(deadline)
       PROVE  TypeOK'
  BY <1>15 DEF Elapse, TypeOK, clientVars, requestVars, workerVars, outputVars, streamVars,
               intakeVars
<1>16. CASE UNCHANGED vars
  BY <1>16 DEF vars, TypeOK, clientVars, requestVars, workerVars, outputVars, streamVars,
               intakeVars
<1> QED
  BY <1>1, <1>2, <1>4, <1>5, <1>6, <1>7, <1>8, <1>9, <1>10, <1>11, <1>12, <1>13, <1>14, <1>15,
     <1>16, NextCases, Zenon

-----------------------------------------------------------------------------
(* What the coordinator does with the line it took. *)

\* The line asks for nothing and holds nothing.
Notes(line) ==
    /\ line.kind \in {"end", "initialized"}
    /\ inputEnded' = (line.kind = "end")
    /\ UNCHANGED <<active, pending, flagged, outputVars>>

\* The line is answered with a refusal of the line, a refusal of its request, or its
\* request's answer.
AnswersUnreadable(line, a) ==
    /\ line.kind \in {"unreadable", "tooLong"}
    /\ a.kind = "unreadable" /\ a.id = NoIdentifier /\ a.bytes <= MaxLine
    /\ Enqueue(a)
    /\ inputEnded' = (line.kind = "tooLong")
    /\ UNCHANGED <<active, pending, flagged>>

AnswersRefusal(line, a) ==
    /\ line.kind \in Requests
    /\ a.kind \in {"duplicate", "saturated"} /\ a.id = line.id
    /\ a.kind = "duplicate" => active[line.id] # "none"
    /\ Enqueue(a)
    /\ UNCHANGED <<active, pending, flagged, inputEnded>>

AnswersRequest(line, a) ==
    /\ line.kind \in Requests
    /\ a.kind = "response" /\ a.id = line.id
    /\ active[line.id] = "none"
    /\ active' = [active EXCEPT ![line.id] = "Answered"]
    /\ Enqueue(a)
    /\ UNCHANGED <<pending, flagged, inputEnded>>

\* Every handler is one of these; whom it concerns is an identifier.
LEMMA DispatchCases ==
    ASSUME TypeOK, IntakeInv, NEW line \in {NextLine} \ {NoLine}, Dispatching(line)
    PROVE  /\ line \in Inputs /\ Dispatch(line) /\ Take(line)
           /\ line.kind \in Requests \cup {"cancel"} => line.id \in Identifiers
           /\ \/ Notes(line) \/ Cancelled(line) \/ Defer(line)
              \/ \E a \in Answers : \/ AnswersUnreadable(line, a)
                                    \/ AnswersRefusal(line, a)
                                    \/ AnswersRequest(line, a)
<1>1. Take(line) /\ Dispatch(line)
  BY Zenon DEF Dispatching, Answering, End, Initialized, Cancelled, Defer, Unreadable, Refused,
               Requested, DeferSettled, Dispatch
<1>2. line \in Inputs
  <2>1. line = NextLine /\ line # NoLine
    OBVIOUS
  <2> QED  BY <1>1, <2>1, TakeFacts
<1>3. line.kind \in Requests \cup {"cancel"} => line.id \in Identifiers
  BY <1>2 DEF Inputs, Requests
<1>4. ~ inputEnded
  BY <1>1 DEF Take
<1>5. CASE End(line) \/ Initialized(line)
  <2>1. Notes(line)
    BY <1>4, <1>5 DEF End, Initialized, Notes, requestVars, TypeOK
  <2> QED  BY <1>1, <1>2, <1>3, <2>1
<1>6. CASE Answering(line)
  <2>1. PICK b \in Bytes : \/ Unreadable(line, b) \/ Refused(line, b)
                           \/ Requested(line, b) \/ DeferSettled(line, b)
    BY <1>6 DEF Answering
  <2>2. CASE Unreadable(line, b)
    <3> DEFINE a == [kind |-> "unreadable", id |-> NoIdentifier, bytes |-> b]
    <3>1. a \in Answers /\ a.kind = "unreadable" /\ a.id = NoIdentifier /\ a.bytes = b
      BY AnswerFacts
    <3>2. /\ line.kind \in {"unreadable", "tooLong"} /\ b <= MaxLine /\ Enqueue(a)
          /\ inputEnded' = (line.kind = "tooLong") /\ UNCHANGED requestVars
      BY <2>2 DEF Unreadable
    <3> HIDE DEF a
    <3>3. AnswersUnreadable(line, a)
      BY <3>1, <3>2 DEF AnswersUnreadable, requestVars
    <3> QED  BY <1>1, <1>2, <1>3, <3>1, <3>3
  <2>3. CASE Refused(line, b)
    <3>1. /\ Refusal(line.id) \in {"duplicate", "saturated"} /\ line.id \in Identifiers
          /\ Refusal(line.id) = "duplicate" => active[line.id] # "none"
      BY <1>3, <2>3, RefusalFacts DEF Refused
    <3>2. [kind |-> Refusal(line.id), id |-> line.id, bytes |-> b] \in Answers
      BY <3>1, AnswerFacts
    <3>3. PICK a \in Answers : a = [kind |-> Refusal(line.id), id |-> line.id, bytes |-> b]
      BY <3>2
    <3>4. /\ Enqueue([kind |-> Refusal(line.id), id |-> line.id, bytes |-> b])
          /\ line.kind \in Requests /\ UNCHANGED <<requestVars, inputEnded>>
      BY <2>3 DEF Refused
    <3>5. Enqueue(a)
      BY <3>3, <3>4 DEF Enqueue, Takes, Fail
    <3>6. a.kind = Refusal(line.id) /\ a.id = line.id
      BY <3>3
    <3>7. AnswersRefusal(line, a)
      BY <3>1, <3>4, <3>5, <3>6 DEF AnswersRefusal, requestVars
    <3> QED  BY <1>1, <1>2, <1>3, <3>7
  <2>4. CASE Requested(line, b) \/ DeferSettled(line, b)
    <3> DEFINE a == Response(line.id, b)
    <3>1. /\ line.kind \in Requests /\ Refusal(line.id) = "none" /\ Answered(line.id, b)
          /\ UNCHANGED <<pending, flagged, inputEnded>>
      BY <2>4 DEF Requested, DeferSettled, Requests
    <3>2. a \in Answers /\ a.kind = "response" /\ a.id = line.id
      BY <1>3, <3>1, AnswerFacts DEF ResponsesTo
    <3>3. /\ active[line.id] = "none" /\ active' = [active EXCEPT ![line.id] = "Answered"]
          /\ Enqueue(a)
      BY <3>1, RefusalFacts DEF Answered
    <3> HIDE DEF a
    <3>4. AnswersRequest(line, a)
      BY <3>1, <3>2, <3>3 DEF AnswersRequest
    <3> QED  BY <1>1, <1>2, <1>3, <3>2, <3>4
  <2> QED  BY <2>1, <2>2, <2>3, <2>4
<1> QED  BY <1>1, <1>2, <1>3, <1>5, <1>6 DEF Dispatching

\* A worker's report is dropped, or frees its identifier, or becomes its answer.
LEMMA CompletedCases ==
    ASSUME TypeOK, Completed
    PROVE  \E i \in Identifiers, b \in Bytes :
              /\ pending' = pending \ {i} /\ flagged' = flagged \ {i}
              /\ \/ i \notin pending /\ UNCHANGED <<active, outputVars>>
                 \/ /\ i \in pending /\ i \in flagged /\ UNCHANGED outputVars
                    /\ active' = [active EXCEPT ![i] = IF @ = "Cancelling" THEN "none" ELSE @]
                 \/ /\ i \in pending /\ i \notin flagged
                    /\ active' = [active EXCEPT ![i] = IF @ = "Reserved" THEN "Answered" ELSE @]
                    /\ Enqueue(Response(i, b))
<1>1. PICK done \in [id : Identifiers, bytes : Bytes] : done = Head(completions)
  BY HeadTailProperties DEF Completed, TypeOK
<1> DEFINE i == done.id
           b == done.bytes
<1>2. /\ pending' = pending \ {i} /\ flagged' = flagged \ {i}
      /\ \/ i \notin pending /\ UNCHANGED <<active, outputVars>>
         \/ /\ i \in pending /\ i \in flagged /\ UNCHANGED outputVars
            /\ active' = [active EXCEPT ![i] = IF @ = "Cancelling" THEN "none" ELSE @]
         \/ /\ i \in pending /\ i \notin flagged
            /\ active' = [active EXCEPT ![i] = IF @ = "Reserved" THEN "Answered" ELSE @]
            /\ Enqueue(Response(i, b))
  BY <1>1 DEF Completed
<1>3. i \in Identifiers /\ b \in Bytes
  OBVIOUS
<1> QED  BY <1>2, <1>3

\* The report of a write that went wrong ends all output.
LEMMA DeliveryCases ==
    ASSUME TypeOK, OutputInv, ReceiveDelivery
    PROVE  /\ phase = "serving" /\ step' = "complete"
           /\ UNCHANGED <<clientVars, pending, flagged, held, inputEnded, phase>>
           /\ \/ /\ writer = "Complete" /\ writing' = NoLine /\ writer' = "idle"
                 /\ IF writing.kind = "response" THEN Acknowledged(writing.id)
                                                 ELSE UNCHANGED active
                 /\ UNCHANGED outputVars
              \/ /\ waiting' = <<>> /\ waitingBytes' = 0 /\ failure' # "none" /\ OutputInv'
                 /\ UNCHANGED <<writing, writer, active>>
              \/ UNCHANGED <<writing, writer, active, outputVars>>
<1>1. /\ phase = "serving" /\ step' = "complete"
      /\ UNCHANGED <<clientVars, pending, flagged, held, inputEnded, phase>>
  BY DEF ReceiveDelivery, At, intakeVars
<1>2. CASE writer = "Complete"
  BY <1>1, <1>2 DEF ReceiveDelivery
<1>3. CASE writer \in {"Expired", "Refused"}
  <2>1. \E reason \in {"PressureExpired", "WriteExpired", "SinkFailed"} : Fail(reason)
    BY <1>3 DEF ReceiveDelivery
  <2>2. waiting' = <<>> /\ waitingBytes' = 0 /\ failure' # "none" /\ OutputInv'
    BY <2>1, FailFacts
  <2>3. UNCHANGED <<writing, writer, active>>
    BY <1>3 DEF ReceiveDelivery, streamVars
  <2> QED  BY <1>1, <2>2, <2>3
<1>4. CASE writer \notin {"Complete", "Expired", "Refused"}
  BY <1>1, <1>4 DEF ReceiveDelivery, streamVars
<1> QED  BY <1>2, <1>3, <1>4

\* However a session ends, its output ends with it.
LEMMA FinishFacts ==
    ASSUME TypeOK, OutputInv, NEW how \in {"drained", "ended"}, Finish(how)
    PROVE  /\ phase' = how /\ waiting' = <<>> /\ waitingBytes' = 0 /\ failure' # "none"
           /\ OutputInv'
BY FailFacts DEF Finish

\* The ways a session ends.
LEMMA EndCases ==
    ASSUME TypeOK, OutputInv, GiveUp \/ Interrupted \/ (NoWrite /\ Drained)
    PROVE  /\ phase = "serving" /\ phase' \in {"drained", "ended"} /\ failure' # "none"
           /\ waiting' = <<>> /\ waitingBytes' = 0
           /\ OutputInv'
           /\ phase' = "drained" => NoWrite /\ Drained
           /\ UNCHANGED <<client, input, writing, writer, held, inputEnded>>
<1>1. /\ phase = "serving" /\ UNCHANGED <<client, input, writing, writer, held, inputEnded>>
      /\ Finish("ended") \/ (Finish("drained") /\ NoWrite /\ Drained)
  BY DEF GiveUp, Interrupted, NoWrite, Settled, At, clientVars, streamVars, intakeVars
<1> QED  BY <1>1, FinishFacts

-----------------------------------------------------------------------------
(* The count of the queue. *)

\* Every step keeps the count of the bytes that wait.
LEMMA OutputStep ==
    ASSUME TypeOK, OutputInv, IntakeInv, [Next]_vars
    PROVE  OutputInv'
<1>1. ASSUME UNCHANGED outputVars PROVE OutputInv'
  BY <1>1 DEF OutputInv, outputVars
<1>2. CASE ReceiveDelivery
  BY <1>1, <1>2, DeliveryCases
<1>3. CASE Completed
  <2>1. UNCHANGED outputVars \/ \E i \in Identifiers, b \in Bytes : Enqueue(Response(i, b))
    BY <1>3, CompletedCases
  <2>2. \A i \in Identifiers, b \in Bytes : Response(i, b) \in Answers
    BY AnswerFacts DEF ResponsesTo
  <2> QED  BY <1>1, <2>1, <2>2, EnqueueFacts
<1>4. CASE GiveUp \/ Interrupted \/ (NoWrite /\ Drained)
  BY <1>4, EndCases
<1>5. CASE PassIntake
  BY <1>1, <1>5 DEF PassIntake
<1>6. ASSUME NEW line \in {NextLine} \ {NoLine}, Hold(line) PROVE OutputInv'
  BY <1>1, <1>6 DEF Hold
<1>7. ASSUME NEW line \in {NextLine} \ {NoLine}, Dispatching(line) PROVE OutputInv'
  <2>1. UNCHANGED outputVars \/ \E a \in Answers : Enqueue(a)
    BY <1>7, DispatchCases DEF Notes, Cancelled, Defer, AnswersUnreadable, AnswersRefusal,
                               AnswersRequest
  <2> QED  BY <1>1, <2>1, EnqueueFacts
<1>8. CASE StartWrite
  BY <1>8, StartWriteFacts
<1>9. CASE NoWrite /\ ~ Drained
  BY <1>1, <1>9 DEF NoWrite
<1>10. ASSUME NEW line \in Inputs, Send(line) PROVE OutputInv'
  BY <1>1, <1>10 DEF Send
<1>11. ASSUME NEW i \in Identifiers, NEW b \in Bytes, WorkerReports(i, b) PROVE OutputInv'
  BY <1>1, <1>11 DEF WorkerReports
<1>12. CASE WriterWrites
  BY <1>1, <1>12 DEF WriterWrites
<1>13. ASSUME NEW outcome \in {"Complete", "Expired", "Refused"}, WriterReports(outcome)
       PROVE  OutputInv'
  BY <1>1, <1>13 DEF WriterReports
<1>14. ASSUME NEW deadline \in {"write", "shutdown", "pressure"}, Elapse(deadline)
       PROVE  OutputInv'
  BY <1>1, <1>14 DEF Elapse
<1>15. CASE UNCHANGED vars
  BY <1>1, <1>15 DEF vars
<1> QED
  BY <1>2, <1>3, <1>4, <1>5, <1>6, <1>7, <1>8, <1>9, <1>10, <1>11, <1>12, <1>13, <1>14, <1>15,
     NextCases, Zenon

-----------------------------------------------------------------------------
(* The room that is kept for the workers' answers. *)

\* Identifiers are counted one by one.
LEMMA PendingCard ==
    ASSUME NEW P, P \subseteq Identifiers
    PROVE  /\ Cardinality(P) \in Nat
           /\ \A i \in P : Cardinality(P) >= 1 /\ Cardinality(P \ {i}) = Cardinality(P) - 1
           /\ \A i : i \notin P => Cardinality(P \cup {i}) = Cardinality(P) + 1
<1>1. IsFiniteSet(Identifiers)
  BY FS_Interval, SessionBounds DEF Identifiers
<1>2. IsFiniteSet(P)
  BY <1>1, FS_Subset
<1>3. Cardinality(P) \in Nat
  BY <1>2, FS_CardinalityType
<1>4. \A i \in P : Cardinality(P \ {i}) = Cardinality(P) - 1
  BY <1>2, FS_RemoveElement
<1>5. \A i \in P : Cardinality(P) >= 1
  <2> TAKE i \in P
  <2>1. IsFiniteSet(P \ {i})
    BY <1>2, FS_Subset
  <2>2. Cardinality(P \ {i}) \in Nat
    BY <2>1, FS_CardinalityType
  <2> QED  BY <1>3, <1>4, <2>2
<1>6. \A i : i \notin P => Cardinality(P \cup {i}) = Cardinality(P) + 1
  BY <1>2, FS_AddElement
<1> QED  BY <1>3, <1>4, <1>5, <1>6

\* One worker more reserves one line more.
LEMMA LineTimes ==
    ASSUME NEW c \in Nat
    PROVE  /\ c * MaxLine \in Nat
           /\ (c + 1) * MaxLine = c * MaxLine + MaxLine
           /\ c >= 1 => (c - 1) * MaxLine = c * MaxLine - MaxLine /\ c * MaxLine >= MaxLine
<1>1. MaxLine \in Nat
  BY SessionBounds
<1> QED  BY <1>1

\* Lines have a length, also the one that stands for none.
LEMMA LineBytes ==
    ASSUME NEW a \in Answers \cup {NoLine}
    PROVE  a.bytes \in Nat
BY SessionBounds DEF Answers, Bytes, NoLine

\* Every step keeps room for the answer of every worker.
LEMMA RoomStep ==
    ASSUME TypeOK, OutputInv, IntakeInv, RoomIsLeft, [Next]_vars
    PROVE  RoomIsLeft'
<1> DEFINE c == Cardinality(pending)
           r == c * MaxLine
           v == writing.bytes
<1>a. /\ c \in Nat /\ r \in Nat /\ MaxLine \in Nat /\ MaxQueuedBytes \in Nat
      /\ MaxQueuedMessages \in Nat /\ waitingBytes \in Nat /\ Len(waiting) \in Nat
      /\ v \in Nat
  BY PendingCard, LineTimes, LineBytes, SessionBounds DEF TypeOK
<1> HIDE DEF c, r, v
<1>b. ASSUME UNCHANGED <<pending, outputVars, writing, phase>> PROVE RoomIsLeft'
  BY <1>b DEF RoomIsLeft, outputVars
<1>c. ASSUME phase' # "serving" PROVE RoomIsLeft'
  BY <1>c DEF RoomIsLeft
<1>1. CASE ReceiveDelivery
  <2>1. phase = "serving" /\ phase' = phase /\ pending' = pending
    BY <1>1, DeliveryCases
  <2>2. /\ waitingBytes + r + v <= MaxQueuedBytes
        /\ Len(waiting) + c <= MaxQueuedMessages
    BY <2>1 DEF RoomIsLeft, c, r, v
  <2>3. CASE writing' = NoLine /\ UNCHANGED outputVars
    <3>1. writing'.bytes = 0
      BY <2>3 DEF NoLine
    <3>2. waitingBytes + r + 0 <= MaxQueuedBytes
      BY <1>a, <2>2
    <3> QED  BY <2>1, <2>2, <2>3, <3>1, <3>2 DEF RoomIsLeft, outputVars, c, r
  <2>4. CASE waiting' = <<>> /\ waitingBytes' = 0 /\ UNCHANGED writing
    <3>1. Len(waiting') = 0
      BY <2>4
    <3>2. 0 + r + v <= MaxQueuedBytes /\ 0 + c <= MaxQueuedMessages
      BY <1>a, <2>2
    <3> QED  BY <2>1, <2>4, <3>1, <3>2 DEF RoomIsLeft, c, r, v
  <2>5. CASE UNCHANGED <<writing, outputVars>>
    BY <1>b, <2>1, <2>5
  <2> QED  BY <1>1, <2>3, <2>4, <2>5, DeliveryCases
<1>2. CASE Completed
  <2>1. PICK i \in Identifiers, b \in Bytes :
          /\ pending' = pending \ {i}
          /\ \/ i \notin pending /\ UNCHANGED outputVars
             \/ i \in pending /\ UNCHANGED outputVars
             \/ i \in pending /\ Enqueue(Response(i, b))
    BY <1>2, CompletedCases
  <2>2. UNCHANGED <<writing, phase>> /\ phase = "serving"
    BY <1>2 DEF Completed, At, streamVars
  <2>3. /\ waitingBytes + r + v <= MaxQueuedBytes
        /\ Len(waiting) + c <= MaxQueuedMessages
    BY <2>2 DEF RoomIsLeft, c, r, v
  <2>4. CASE i \notin pending /\ UNCHANGED outputVars
    <3>1. pending' = pending
      BY <2>1, <2>4
    <3> QED  BY <1>b, <2>2, <2>4, <3>1
  <2>5. ASSUME i \in pending
        PROVE  /\ c >= 1 /\ Cardinality(pending') = c - 1
               /\ (c - 1) * MaxLine = r - MaxLine /\ r >= MaxLine
    BY <1>a, <2>1, <2>5, PendingCard, LineTimes DEF TypeOK, c, r
  <2>6. CASE i \in pending /\ UNCHANGED outputVars
    <3>1. /\ waitingBytes + (r - MaxLine) + v <= MaxQueuedBytes
          /\ Len(waiting) + (c - 1) <= MaxQueuedMessages
      BY <1>a, <2>3
    <3> QED  BY <2>2, <2>5, <2>6, <3>1 DEF RoomIsLeft, outputVars, c, r, v
  <2>7. CASE i \in pending /\ Enqueue(Response(i, b))
    <3>0. Response(i, b) \in Answers
      BY AnswerFacts DEF ResponsesTo
    <3>1. Response(i, b) \in Answers /\ Response(i, b).bytes = b /\ b \in Nat
      BY <3>0, SessionBounds DEF Response, Bytes
    <3>2. \/ /\ Takes(Response(i, b)) /\ waiting' = Append(waiting, Response(i, b))
             /\ waitingBytes' = waitingBytes + b
          \/ waiting' = <<>> /\ waitingBytes' = 0
      BY <2>7, <3>1, EnqueueFacts
    <3>3. CASE waiting' = <<>> /\ waitingBytes' = 0
      <4>1. Len(waiting') = 0
        BY <3>3
      <4>2. 0 + (r - MaxLine) + v <= MaxQueuedBytes
            /\ 0 + (c - 1) <= MaxQueuedMessages
        BY <1>a, <2>3
      <4> QED  BY <2>2, <2>5, <2>7, <3>3, <4>1, <4>2 DEF RoomIsLeft, c, r, v
    <3>4. CASE /\ Takes(Response(i, b)) /\ waiting' = Append(waiting, Response(i, b))
               /\ waitingBytes' = waitingBytes + b
      <4>1. b <= MaxLine
        BY <3>1, <3>4 DEF Takes
      <4>2. Len(waiting') = Len(waiting) + 1
        BY <3>1, <3>4 DEF TypeOK
      <4>3. /\ (waitingBytes + b) + (r - MaxLine) + v <= MaxQueuedBytes
            /\ (Len(waiting) + 1) + (c - 1) <= MaxQueuedMessages
        BY <1>a, <2>3, <3>1, <4>1
      <4> QED  BY <2>2, <2>5, <2>7, <3>4, <4>2, <4>3 DEF RoomIsLeft, c, r, v
    <3> QED  BY <3>2, <3>3, <3>4
  <2> QED  BY <2>1, <2>4, <2>6, <2>7
<1>3. CASE GiveUp \/ Interrupted \/ (NoWrite /\ Drained)
  <2>1. phase' # "serving"
    BY <1>3, EndCases
  <2> QED  BY <1>c, <2>1
<1>4. CASE PassIntake
  BY <1>b, <1>4 DEF PassIntake, requestVars, streamVars
<1>5. ASSUME NEW line \in {NextLine} \ {NoLine}, Hold(line) PROVE RoomIsLeft'
  BY <1>b, <1>5 DEF Hold, Take, requestVars, streamVars
<1>6. ASSUME NEW line \in {NextLine} \ {NoLine}, Dispatching(line) PROVE RoomIsLeft'
  <2>1. /\ UNCHANGED <<writing, phase>>
        /\ waitingBytes + r + v + MaxLine <= MaxQueuedBytes
        /\ Len(waiting) + c + 1 < MaxQueuedMessages
    BY <1>6, DispatchCases DEF Take, HasRoom, streamVars, c, r, v
  <2>2. CASE Notes(line) \/ Cancelled(line)
    BY <1>b, <2>1, <2>2 DEF Notes, Cancelled
  <2>3. CASE Defer(line)
    <3>1. UNCHANGED outputVars /\ pending' = pending \cup {line.id}
      BY <2>3 DEF Defer
    <3>2. Cardinality(pending') = c \/ Cardinality(pending') = c + 1
      <4>1. CASE line.id \in pending
        <5>1. pending' = pending
          BY <3>1, <4>1
        <5> QED  BY <5>1 DEF c
      <4>2. CASE line.id \notin pending
        BY <3>1, <4>2, PendingCard DEF TypeOK, c
      <4> QED  BY <4>1, <4>2
    <3>3. (c + 1) * MaxLine = r + MaxLine
      BY <1>a, LineTimes DEF r
    <3>4. /\ waitingBytes + (r + MaxLine) + v <= MaxQueuedBytes
          /\ waitingBytes + r + v <= MaxQueuedBytes
          /\ Len(waiting) + (c + 1) <= MaxQueuedMessages
          /\ Len(waiting) + c <= MaxQueuedMessages
      BY <1>a, <2>1
    <3> QED  BY <2>1, <3>1, <3>2, <3>3, <3>4 DEF RoomIsLeft, outputVars, c, r, v
  <2>4. ASSUME NEW a \in Answers, Enqueue(a), UNCHANGED pending PROVE RoomIsLeft'
    <3>1. a.bytes \in Nat
      BY LineBytes
    <3>2. CASE Takes(a) /\ waiting' = Append(waiting, a) /\ waitingBytes' = waitingBytes + a.bytes
      <4>1. a.bytes <= MaxLine /\ Len(waiting') = Len(waiting) + 1
        BY <3>2 DEF Takes, TypeOK
      <4>2. /\ (waitingBytes + a.bytes) + r + v <= MaxQueuedBytes
            /\ (Len(waiting) + 1) + c <= MaxQueuedMessages
        BY <1>a, <2>1, <3>1, <4>1
      <4> QED  BY <2>1, <2>4, <3>2, <4>1, <4>2 DEF RoomIsLeft, c, r, v
    <3>3. CASE waiting' = <<>> /\ waitingBytes' = 0
      <4>1. Len(waiting') = 0
        BY <3>3
      <4>2. 0 + r + v <= MaxQueuedBytes /\ 0 + c <= MaxQueuedMessages
        BY <1>a, <2>1
      <4> QED  BY <2>1, <2>4, <3>3, <4>1, <4>2 DEF RoomIsLeft, c, r, v
    <3> QED  BY <2>4, <3>2, <3>3, EnqueueFacts
  <2>5. ASSUME NEW a \in Answers,
               AnswersUnreadable(line, a) \/ AnswersRefusal(line, a) \/ AnswersRequest(line, a)
        PROVE  RoomIsLeft'
    BY <2>4, <2>5 DEF AnswersUnreadable, AnswersRefusal, AnswersRequest
  <2> QED  BY <1>6, <2>2, <2>3, <2>5, DispatchCases
<1>7. CASE StartWrite
  <2>1. /\ phase = "serving" /\ UNCHANGED <<pending, phase>>
    BY <1>7 DEF StartWrite, TakeNext, At, requestVars
  <2>2. /\ waitingBytes + r + v <= MaxQueuedBytes
        /\ Len(waiting) + c <= MaxQueuedMessages
    BY <2>1 DEF RoomIsLeft, c, r, v
  <2>3. /\ writing' = Head(waiting) /\ Head(waiting) \in Answers
        /\ waitingBytes' = waitingBytes - Head(waiting).bytes
        /\ Len(waiting') = Len(waiting) - 1
    BY <1>7, StartWriteFacts
  <2>4. Head(waiting).bytes \in Nat
    BY <2>3, LineBytes
  <2>5. writing'.bytes = Head(waiting).bytes
    BY <2>3
  <2> DEFINE h == Head(waiting).bytes
  <2> HIDE DEF h
  <2>6. (waitingBytes - h) + r + h <= MaxQueuedBytes
        /\ (Len(waiting) - 1) + c <= MaxQueuedMessages
    <3>1. h \in Nat
      BY <2>4 DEF h
    <3> QED  BY <1>a, <2>2, <3>1
  <2> QED  BY <2>1, <2>3, <2>5, <2>6 DEF RoomIsLeft, c, r, h
<1>8. CASE NoWrite /\ ~ Drained
  BY <1>b, <1>8 DEF NoWrite, streamVars
<1>9. ASSUME NEW line \in Inputs, Send(line) PROVE RoomIsLeft'
  BY <1>b, <1>9 DEF Send, requestVars, streamVars
<1>10. ASSUME NEW i \in Identifiers, NEW b \in Bytes, WorkerReports(i, b) PROVE RoomIsLeft'
  BY <1>b, <1>10 DEF WorkerReports, requestVars, streamVars
<1>11. CASE WriterWrites
  BY <1>b, <1>11 DEF WriterWrites, requestVars
<1>12. ASSUME NEW outcome \in {"Complete", "Expired", "Refused"}, WriterReports(outcome)
       PROVE  RoomIsLeft'
  BY <1>b, <1>12 DEF WriterReports, requestVars
<1>13. ASSUME NEW deadline \in {"write", "shutdown", "pressure"}, Elapse(deadline)
       PROVE  RoomIsLeft'
  BY <1>b, <1>13 DEF Elapse, requestVars, streamVars
<1>14. CASE UNCHANGED vars
  BY <1>b, <1>14 DEF vars, requestVars, streamVars
<1> QED
  BY <1>1, <1>2, <1>3, <1>4, <1>5, <1>6, <1>7, <1>8, <1>9, <1>10, <1>11, <1>12, <1>13, <1>14,
     NextCases, Zenon

-----------------------------------------------------------------------------
(* The intake. *)

\* Every step keeps what is known of the input, the held line and the writer.
LEMMA IntakeStep ==
    ASSUME TypeOK, OutputInv, IntakeInv, [Next]_vars
    PROVE  IntakeInv'
<1>b. ASSUME UNCHANGED <<input, held, inputEnded>>,
             writer' # "idle" => writing' # NoLine,
             \/ phase' # "serving" \/ step' # "write" \/ UNCHANGED <<step, phase, failure>>
      PROVE  IntakeInv'
  BY <1>b DEF IntakeInv
<1>1. CASE ReceiveDelivery
  <2>1. /\ UNCHANGED <<input, held, inputEnded>> /\ step' # "write"
        /\ (writing' = NoLine /\ writer' = "idle") \/ UNCHANGED <<writing, writer>>
    BY <1>1, DeliveryCases DEF clientVars
  <2> QED  BY <1>b, <2>1 DEF IntakeInv
<1>2. CASE Completed
  <2>1. /\ UNCHANGED <<input, held, inputEnded, writing, writer>> /\ step' # "write"
    BY <1>2 DEF Completed, At, clientVars, streamVars, intakeVars
  <2> QED  BY <1>b, <2>1 DEF IntakeInv
<1>3. CASE GiveUp \/ Interrupted \/ (NoWrite /\ Drained)
  <2>1. UNCHANGED <<input, writing, writer, held, inputEnded>> /\ phase' # "serving"
    BY <1>3, EndCases
  <2> QED  BY <1>b, <2>1 DEF IntakeInv
<1>4. CASE PassIntake
  BY <1>4 DEF PassIntake, GoesOn, IntakeInv, clientVars, outputVars, streamVars
<1>5. ASSUME NEW line \in {NextLine} \ {NoLine}, Hold(line) PROVE IntakeInv'
  <2>1. Take(line) /\ line = NextLine /\ line # NoLine
    BY <1>5 DEF Hold
  <2>2. OnlyLast(input', LastLines)
    BY <2>1, TakeFacts
  <2>3. /\ held' = line /\ line.kind \in Requests /\ ~ inputEnded'
        /\ UNCHANGED <<writing, writer>>
    BY <1>5 DEF Hold, Take, AwaitsDelivery, streamVars
  <2> QED  BY <2>2, <2>3 DEF IntakeInv
<1>6. ASSUME NEW line \in {NextLine} \ {NoLine}, Dispatching(line) PROVE IntakeInv'
  <2>1. /\ Take(line) /\ Dispatch(line) /\ line \in Inputs /\ line = NextLine /\ line # NoLine
    BY <1>6, DispatchCases
  <2>2. OnlyLast(input', LastLines) /\ (line \in LastLines => input' = <<>>)
    BY <2>1, TakeFacts
  <2>3. /\ held' = NoLine /\ ~ inputEnded /\ UNCHANGED <<writing, writer>> /\ failure = "none"
    BY <2>1 DEF Dispatch, Take, GoesOn, streamVars
  <2>4. ASSUME inputEnded' PROVE line \in LastLines /\ failure' = "none"
    <3>1. CASE Notes(line)
      BY <2>1, <2>3, <2>4, <3>1 DEF Notes, LastLines, outputVars
    <3>2. ASSUME NEW a \in Answers, AnswersUnreadable(line, a)
          PROVE  line \in LastLines /\ failure' = "none"
      <4>1. line \in LastLines /\ a.bytes <= MaxLine /\ Enqueue(a)
        BY <2>1, <2>4, <3>2 DEF AnswersUnreadable, LastLines
      <4>2. /\ waitingBytes + Cardinality(pending) * MaxLine + writing.bytes + MaxLine
                  <= MaxQueuedBytes
            /\ Len(waiting) + Cardinality(pending) + 1 < MaxQueuedMessages
        BY <2>1 DEF Take, HasRoom
      <4>3. /\ Cardinality(pending) \in Nat /\ Cardinality(pending) * MaxLine \in Nat
            /\ MaxLine \in Nat /\ MaxQueuedBytes \in Nat /\ MaxQueuedMessages \in Nat
            /\ waitingBytes \in Nat /\ Len(waiting) \in Nat
            /\ writing.bytes \in Nat /\ a.bytes \in Nat
        BY PendingCard, LineTimes, LineBytes, SessionBounds DEF TypeOK
      <4>4. waitingBytes + a.bytes <= MaxQueuedBytes /\ Len(waiting) < MaxQueuedMessages
        <5> DEFINE r == Cardinality(pending) * MaxLine
                   v == writing.bytes
                   b == a.bytes
                   c == Cardinality(pending)
        <5>1. /\ waitingBytes + r + v + MaxLine <= MaxQueuedBytes /\ b <= MaxLine
              /\ Len(waiting) + c + 1 < MaxQueuedMessages
              /\ c \in Nat /\ r \in Nat /\ v \in Nat /\ b \in Nat
          BY <4>1, <4>2, <4>3
        <5> HIDE DEF r, v, b, c
        <5>2. waitingBytes + b <= MaxQueuedBytes /\ Len(waiting) < MaxQueuedMessages
          BY <4>3, <5>1
        <5> QED  BY <5>2 DEF b
      <4>5. Takes(a)
        BY <2>3, <4>1, <4>4 DEF Takes
      <4> QED  BY <4>1, <4>5, EnqueueFacts
    <3>3. ~ Cancelled(line) /\ ~ Defer(line)
      BY <2>3, <2>4 DEF Cancelled, Defer
    <3>4. ASSUME NEW a \in Answers PROVE ~ AnswersRefusal(line, a) /\ ~ AnswersRequest(line, a)
      BY <2>3, <2>4 DEF AnswersRefusal, AnswersRequest
    <3> QED  BY <1>6, <3>1, <3>2, <3>3, <3>4, DispatchCases
  <2> QED  BY <2>2, <2>3, <2>4 DEF IntakeInv
<1>7. CASE StartWrite
  <2>1. writing' \in Answers /\ UNCHANGED <<input, held, inputEnded>> /\ step' # "write"
    BY <1>7, StartWriteFacts DEF StartWrite, TakeNext, clientVars, intakeVars
  <2>2. writing' # NoLine
    BY <2>1 DEF Answers, NoLine
  <2> QED  BY <1>b, <2>1, <2>2
<1>8. CASE NoWrite /\ ~ Drained
  <2>1. UNCHANGED <<input, held, inputEnded, writing, writer>> /\ step' # "write"
    BY <1>8 DEF NoWrite, clientVars, streamVars, intakeVars
  <2> QED  BY <1>b, <2>1 DEF IntakeInv
<1>9. ASSUME NEW line \in Inputs, Send(line) PROVE IntakeInv'
  <2>1. /\ input' = Append(input, line) /\ ~ inputEnded
        /\ \A k \in DOMAIN input : input[k].kind \notin {"tooLong", "end"}
        /\ UNCHANGED <<held, inputEnded, writing, writer, step, phase, failure>>
    BY <1>9 DEF Send, streamVars, intakeVars, outputVars
  <2>2. input \in Seq(Inputs) /\ DOMAIN input = 1 .. Len(input)
    BY DEF TypeOK
  <2>3. ~ Has(input, LastLines)
    BY <2>1, <2>2 DEF Has, LastLines
  <2>4. OnlyLast(input', LastLines)
    BY <2>1, <2>2, <2>3, AppendHas
  <2> QED  BY <2>1, <2>4 DEF IntakeInv
<1>10. ASSUME NEW i \in Identifiers, NEW b \in Bytes, WorkerReports(i, b) PROVE IntakeInv'
  BY <1>b, <1>10 DEF WorkerReports, IntakeInv, clientVars, streamVars, intakeVars, outputVars
<1>11. CASE WriterWrites
  BY <1>b, <1>11 DEF WriterWrites, IntakeInv, intakeVars, outputVars
<1>12. ASSUME NEW outcome \in {"Complete", "Expired", "Refused"}, WriterReports(outcome)
       PROVE  IntakeInv'
  BY <1>b, <1>12 DEF WriterReports, IntakeInv, clientVars, intakeVars, outputVars
<1>13. ASSUME NEW deadline \in {"write", "shutdown", "pressure"}, Elapse(deadline)
       PROVE  IntakeInv'
  BY <1>b, <1>13 DEF Elapse, IntakeInv, clientVars, streamVars, intakeVars, outputVars
<1>14. CASE UNCHANGED vars
  BY <1>b, <1>14 DEF vars, IntakeInv, clientVars, streamVars, intakeVars, outputVars
<1> QED
  BY <1>1, <1>2, <1>3, <1>4, <1>5, <1>6, <1>7, <1>8, <1>9, <1>10, <1>11, <1>12, <1>13, <1>14,
     NextCases, Zenon

-----------------------------------------------------------------------------
(* What an identifier names. *)

\* Which lines are about an identifier.
LEMMA LineSets ==
    ASSUME NEW i \in Identifiers
    PROVE  /\ NoLine \notin RequestsOf(i) /\ NoLine \notin AnswersTo(i)
           /\ NoLine \notin ResponsesTo(i)
           /\ \A m \in Inputs : /\ m \in RequestsOf(i) <=> (m.kind \in Requests /\ m.id = i)
                                /\ m \in CancelsOf(i) <=> (m.kind = "cancel" /\ m.id = i)
                                /\ m \in CancelsOf(i) => m \notin RequestsOf(i)
           /\ \A m \in Answers : /\ m \in AnswersTo(i) <=> m.id = i
                                 /\ m \in ResponsesTo(i) <=> (m.kind = "response" /\ m.id = i)
           /\ \A m \in Answers \cup {NoLine} :
                m \in ResponsesTo(i) <=> (m.kind = "response" /\ m.id = i)
<1>1. \A m \in Inputs : /\ m \in RequestsOf(i) <=> (m.kind \in Requests /\ m.id = i)
                        /\ m \in CancelsOf(i) <=> (m.kind = "cancel" /\ m.id = i)
  BY DEF RequestsOf, CancelsOf
<1>2. \A m \in Answers : /\ m \in AnswersTo(i) <=> m.id = i
                         /\ m \in ResponsesTo(i) <=> (m.kind = "response" /\ m.id = i)
  BY DEF AnswersTo, ResponsesTo
<1>3. NoLine.kind = "none" /\ NoLine.id = NoIdentifier
  BY DEF NoLine
<1>4. i # NoIdentifier
  BY DEF Identifiers, NoIdentifier
<1>5. "cancel" \notin Requests /\ "none" \notin Requests
  BY DEF Requests
<1>6. /\ NoLine \notin RequestsOf(i) /\ NoLine \notin AnswersTo(i)
      /\ NoLine \notin ResponsesTo(i)
  BY <1>3, <1>4 DEF RequestsOf, AnswersTo, ResponsesTo
<1> QED  BY <1>1, <1>2, <1>3, <1>5, <1>6

\* Output that failed stays failed.
LEMMA FailureStays ==
    ASSUME TypeOK, OutputInv, IntakeInv, [Next]_vars, failure' = "none"
    PROVE  failure = "none"
<1>1. ASSUME UNCHANGED outputVars PROVE failure = "none"
  BY <1>1 DEF outputVars
<1>2. CASE ReceiveDelivery
  BY <1>1, <1>2, DeliveryCases
<1>3. CASE Completed
  <2>1. UNCHANGED outputVars \/ \E i \in Identifiers, b \in Bytes : Enqueue(Response(i, b))
    BY <1>3, CompletedCases
  <2>2. \A i \in Identifiers, b \in Bytes : Response(i, b) \in Answers
    BY AnswerFacts DEF ResponsesTo
  <2> QED  BY <1>1, <2>1, <2>2, EnqueueFacts
<1>4. ~ (GiveUp \/ Interrupted \/ (NoWrite /\ Drained))
  BY EndCases
<1>5. CASE PassIntake
  BY <1>1, <1>5 DEF PassIntake
<1>6. ASSUME NEW line \in {NextLine} \ {NoLine}, Hold(line) \/ Dispatching(line)
      PROVE  failure = "none"
  <2>1. Take(line)
    BY <1>6, DispatchCases DEF Hold
  <2> QED  BY <2>1 DEF Take, GoesOn
<1>7. CASE StartWrite
  BY <1>7, StartWriteFacts
<1>8. CASE NoWrite /\ ~ Drained
  BY <1>1, <1>8 DEF NoWrite
<1>9. ASSUME NEW line \in Inputs, Send(line) PROVE failure = "none"
  BY <1>1, <1>9 DEF Send
<1>10. ASSUME NEW i \in Identifiers, NEW b \in Bytes, WorkerReports(i, b) PROVE failure = "none"
  BY <1>1, <1>10 DEF WorkerReports
<1>11. CASE WriterWrites
  BY <1>1, <1>11 DEF WriterWrites
<1>12. ASSUME NEW outcome \in {"Complete", "Expired", "Refused"}, WriterReports(outcome)
       PROVE  failure = "none"
  BY <1>1, <1>12 DEF WriterReports
<1>13. ASSUME NEW deadline \in {"write", "shutdown", "pressure"}, Elapse(deadline)
       PROVE  failure = "none"
  BY <1>1, <1>13 DEF Elapse
<1>14. CASE UNCHANGED vars
  BY <1>1, <1>14 DEF vars
<1> QED
  BY <1>2, <1>3, <1>4, <1>5, <1>6, <1>7, <1>8, <1>9, <1>10, <1>11, <1>12, <1>13, <1>14,
     NextCases, Zenon

\* While output works, every step keeps each identifier the name of one thing.
LEMMA NamedStep ==
    ASSUME TypeOK, OutputInv, IntakeInv, [Next]_vars, failure' = "none",
           NEW i \in Identifiers, Named(i)
    PROVE  Named(i)'
<1> DEFINE R == ResponsesTo(i)
<1>a. waiting \in Seq(Answers) /\ writing \in Answers \cup {NoLine}
  BY DEF TypeOK
<1>b. ASSUME UNCHANGED <<active, pending, flagged, waiting, writing>> PROVE Named(i)'
  BY <1>b DEF Named
<1>c. \A j \in Identifiers, how \in {"none", "Reserved", "Answered", "Cancelling"} :
        [active EXCEPT ![j] = how][i] = IF i = j THEN how ELSE active[i]
  BY DEF TypeOK
<1>1. CASE ReceiveDelivery
  <2>1. CASE /\ writing' = NoLine
             /\ IF writing.kind = "response" THEN Acknowledged(writing.id) ELSE UNCHANGED active
             /\ UNCHANGED outputVars
    <3>1. UNCHANGED <<pending, flagged, waiting>>
      BY <1>1, <2>1, DeliveryCases DEF outputVars
    <3>2. writing \in R <=> (writing.kind = "response" /\ writing.id = i)
      BY <1>a, LineSets
    <3>3. writing' \notin R
      BY <2>1, LineSets
    <3>4. CASE writing \in R
      <4>1. active[i] = "Answered" /\ ~ Has(waiting, R)
        BY <3>4 DEF Named
      <4>2. active'[i] = "none"
        BY <2>1, <3>2, <3>4, <4>1 DEF Acknowledged, TypeOK
      <4> QED  BY <3>1, <3>3, <4>1, <4>2 DEF Named
    <3>5. CASE writing \notin R
      <4>1. active'[i] = active[i]
        BY <2>1, <3>2, <3>5 DEF Acknowledged, TypeOK
      <4> QED  BY <3>1, <3>3, <3>5, <4>1 DEF Named
    <3> QED  BY <3>4, <3>5
  <2>2. CASE UNCHANGED <<writing, writer, active, outputVars>>
    BY <1>1, <1>b, <2>2, DeliveryCases DEF outputVars
  <2> QED  BY <1>1, <2>1, <2>2, DeliveryCases
<1>2. CASE Completed
  <2>1. PICK j \in Identifiers, b \in Bytes :
              /\ pending' = pending \ {j} /\ flagged' = flagged \ {j}
              /\ \/ j \notin pending /\ UNCHANGED <<active, outputVars>>
                 \/ /\ j \in pending /\ j \in flagged /\ UNCHANGED outputVars
                    /\ active' = [active EXCEPT ![j] = IF @ = "Cancelling" THEN "none" ELSE @]
                 \/ /\ j \in pending /\ j \notin flagged
                    /\ active' = [active EXCEPT ![j] = IF @ = "Reserved" THEN "Answered" ELSE @]
                    /\ Enqueue(Response(j, b))
    BY <1>2, CompletedCases
  <2>2. writing' = writing
    BY <1>2 DEF Completed, streamVars
  <2>3. active'[i] = IF i # j \/ j \notin pending THEN active[i]
                     ELSE IF j \in flagged THEN IF active[i] = "Cancelling" THEN "none" ELSE active[i]
                     ELSE IF active[i] = "Reserved" THEN "Answered" ELSE active[i]
    BY <2>1 DEF TypeOK
  <2>4. CASE j \notin pending \/ j \in flagged
    <3>1. waiting' = waiting
      BY <2>1, <2>4 DEF outputVars
    <3> QED  BY <2>1, <2>2, <2>3, <2>4, <3>1 DEF Named
  <2>5. CASE j \in pending /\ j \notin flagged
    <3>1. Response(j, b) \in Answers /\ (Response(j, b) \in R <=> i = j)
      BY AnswerFacts DEF ResponsesTo, Response
    <3>2. waiting' = Append(waiting, Response(j, b))
      BY <2>1, <2>5, <3>1, EnqueueFacts
    <3>3. /\ Has(waiting', R) <=> Has(waiting, R) \/ i = j
          /\ Once(waiting, R) /\ ~ (Has(waiting, R) /\ i = j) => Once(waiting', R)
      BY <1>a, <3>1, <3>2, AppendHas
    <3>4. CASE i = j
      <4>1. active[i] = "Reserved" /\ active'[i] = "Answered"
        BY <2>3, <2>5, <3>4 DEF Named
      <4> QED  BY <2>1, <2>2, <2>5, <3>3, <3>4, <4>1 DEF Named
    <3>5. CASE i # j
      BY <2>1, <2>2, <2>3, <3>3, <3>5 DEF Named
    <3> QED  BY <3>4, <3>5
  <2> QED  BY <2>4, <2>5
<1>3. ~ (GiveUp \/ Interrupted \/ (NoWrite /\ Drained))
  BY EndCases
<1>4. CASE PassIntake
  BY <1>b, <1>4 DEF PassIntake, requestVars, outputVars, streamVars
<1>5. ASSUME NEW line \in {NextLine} \ {NoLine}, Hold(line) PROVE Named(i)'
  BY <1>b, <1>5 DEF Hold, Take, requestVars, outputVars, streamVars
<1>6. ASSUME NEW line \in {NextLine} \ {NoLine}, Dispatching(line) PROVE Named(i)'
  <2>1. /\ writing' = writing
        /\ line.kind \in Requests \cup {"cancel"} => line.id \in Identifiers
    BY <1>6, DispatchCases DEF Take, streamVars
  <2>2. CASE Notes(line)
    BY <1>b, <2>1, <2>2 DEF Notes, outputVars
  <2>3. CASE Cancelled(line)
    <3>1. UNCHANGED <<pending, waiting>> /\ line.id \in Identifiers
      BY <2>1, <2>3 DEF Cancelled, outputVars
    <3>2. CASE line.id \in pending
      <4>1. /\ flagged' = flagged \cup {line.id}
            /\ active'[i] = IF i = line.id THEN "Cancelling" ELSE active[i]
        BY <1>c, <2>3, <3>1, <3>2 DEF Cancelled
      <4> QED  BY <2>1, <3>1, <3>2, <4>1 DEF Named
    <3>3. CASE line.id \notin pending
      BY <1>b, <2>1, <2>3, <3>1, <3>3 DEF Cancelled
    <3> QED  BY <3>2, <3>3
  <2>4. CASE Defer(line)
    <3>1. /\ line.id \in Identifiers /\ active[line.id] = "none"
          /\ UNCHANGED <<flagged, waiting>> /\ pending' = pending \cup {line.id}
          /\ active' = [active EXCEPT ![line.id] = "Reserved"]
      BY <2>1, <2>4, RefusalFacts DEF Defer, Requests, outputVars
    <3>2. active'[i] = IF i = line.id THEN "Reserved" ELSE active[i]
      BY <1>c, <3>1
    <3> QED  BY <2>1, <3>1, <3>2 DEF Named
  <2>5. ASSUME NEW a \in Answers,
               AnswersUnreadable(line, a) \/ AnswersRefusal(line, a)
        PROVE  Named(i)'
    <3>1. /\ Enqueue(a) /\ UNCHANGED <<active, pending, flagged>>
          /\ a.kind # "response"
      BY <2>5 DEF AnswersUnreadable, AnswersRefusal
    <3>2. waiting' = Append(waiting, a)
      BY <3>1, EnqueueFacts
    <3>3. a \notin R
      BY <3>1, LineSets
    <3>4. /\ Has(waiting', R) <=> Has(waiting, R)
          /\ Once(waiting, R) => Once(waiting', R)
      BY <1>a, <3>2, <3>3, AppendHas
    <3> QED  BY <2>1, <3>1, <3>4 DEF Named
  <2>6. ASSUME NEW a \in Answers, AnswersRequest(line, a) PROVE Named(i)'
    <3>1. /\ Enqueue(a) /\ UNCHANGED <<pending, flagged>> /\ line.id \in Identifiers
          /\ a.kind = "response" /\ a.id = line.id /\ active[line.id] = "none"
          /\ active' = [active EXCEPT ![line.id] = "Answered"]
      BY <2>1, <2>6 DEF AnswersRequest
    <3>2. waiting' = Append(waiting, a)
      BY <3>1, EnqueueFacts
    <3>3. a \in R <=> i = line.id
      BY <3>1, LineSets
    <3>4. /\ Has(waiting', R) <=> Has(waiting, R) \/ i = line.id
          /\ Once(waiting, R) /\ ~ (Has(waiting, R) /\ i = line.id) => Once(waiting', R)
      BY <1>a, <3>2, <3>3, AppendHas
    <3>5. active'[i] = IF i = line.id THEN "Answered" ELSE active[i]
      BY <1>c, <3>1
    <3> QED  BY <2>1, <3>1, <3>4, <3>5 DEF Named
  <2> QED  BY <1>6, <2>2, <2>3, <2>4, <2>5, <2>6, DispatchCases
<1>7. CASE StartWrite
  <2>1. /\ waiting # <<>> /\ writing = NoLine
        /\ writing' = Head(waiting) /\ waiting' = Tail(waiting)
        /\ UNCHANGED <<active, pending, flagged>>
    BY <1>7, StartWriteFacts DEF StartWrite, TakeNext, requestVars
  <2>2. writing \notin R
    BY <2>1, LineSets
  <2>3. /\ Has(waiting, R) <=> writing' \in R \/ Has(waiting', R)
        /\ Once(waiting, R) => Once(waiting', R)
        /\ Once(waiting, R) /\ writing' \in R => ~ Has(waiting', R)
    BY <1>a, <2>1, TailHas
  <2> QED  BY <2>1, <2>2, <2>3 DEF Named
<1>8. CASE NoWrite /\ ~ Drained
  BY <1>b, <1>8 DEF NoWrite, outputVars, streamVars
<1>9. ASSUME NEW line \in Inputs, Send(line) PROVE Named(i)'
  BY <1>b, <1>9 DEF Send, requestVars, outputVars, streamVars
<1>10. ASSUME NEW j \in Identifiers, NEW b \in Bytes, WorkerReports(j, b) PROVE Named(i)'
  BY <1>b, <1>10 DEF WorkerReports, requestVars, outputVars, streamVars
<1>11. CASE WriterWrites
  BY <1>b, <1>11 DEF WriterWrites, requestVars, outputVars
<1>12. ASSUME NEW outcome \in {"Complete", "Expired", "Refused"}, WriterReports(outcome)
       PROVE  Named(i)'
  BY <1>b, <1>12 DEF WriterReports, requestVars, outputVars
<1>13. ASSUME NEW deadline \in {"write", "shutdown", "pressure"}, Elapse(deadline)
       PROVE  Named(i)'
  BY <1>b, <1>13 DEF Elapse, requestVars, outputVars, streamVars
<1>14. CASE UNCHANGED vars
  BY <1>b, <1>14 DEF vars, requestVars, outputVars, streamVars
<1> QED
  BY <1>1, <1>2, <1>3, <1>4, <1>5, <1>6, <1>7, <1>8, <1>9, <1>10, <1>11, <1>12, <1>13, <1>14,
     NextCases, Zenon

-----------------------------------------------------------------------------
(* Where the request of an identifier is. *)

\* What is left of an identifier's lines when the next line is taken.
LEMMA TakeStanding ==
    ASSUME TypeOK, IntakeInv, NEW line \in {NextLine} \ {NoLine}, Take(line),
           NEW i \in Identifiers
    PROVE  /\ line \in RequestsOf(i) => Sent(i) \/ Kept(i)
           /\ line \in RequestsOf(i) /\ Alone(i) => ~ Has(input', RequestsOf(i))
           /\ line \notin RequestsOf(i) =>
                /\ ~ Kept(i)
                /\ Has(input', RequestsOf(i)) <=> Sent(i)
           /\ Once(input, RequestsOf(i)) => Once(input', RequestsOf(i))
           /\ Followed(input, CancelsOf(i), RequestsOf(i)) =>
                /\ Followed(input', CancelsOf(i), RequestsOf(i))
                /\ line \in CancelsOf(i) => Has(input', RequestsOf(i))
<1>1. line = NextLine /\ line # NoLine /\ input \in Seq(Inputs)
  BY DEF TypeOK
<1>2. \/ held = NoLine /\ input # <<>> /\ line = Head(input) /\ input' = Tail(input)
      \/ held = line /\ line.kind \in Requests /\ input' = input
  BY <1>1, TakeFacts
<1>3. CASE held = NoLine /\ input # <<>> /\ line = Head(input) /\ input' = Tail(input)
  <2>1. ~ Kept(i)
    BY <1>3, LineSets DEF Kept
  <2>2. /\ Has(input, RequestsOf(i)) <=> line \in RequestsOf(i) \/ Has(input', RequestsOf(i))
        /\ Once(input, RequestsOf(i)) => Once(input', RequestsOf(i))
        /\ Once(input, RequestsOf(i)) /\ line \in RequestsOf(i) => ~ Has(input', RequestsOf(i))
    BY <1>1, <1>3, TailHas
  <2>3. Followed(input, CancelsOf(i), RequestsOf(i)) =>
                /\ Followed(input', CancelsOf(i), RequestsOf(i))
                /\ line \in CancelsOf(i) => Has(input', RequestsOf(i))
    BY <1>1, <1>3, TailFollowed
  <2> QED  BY <2>1, <2>2, <2>3 DEF Sent, Alone
<1>4. CASE held = line /\ line.kind \in Requests /\ input' = input
  <2>1. line \notin CancelsOf(i)
    BY <1>4 DEF CancelsOf, Requests
  <2> QED  BY <1>4, <2>1 DEF Sent, Kept, Alone
<1> QED  BY <1>2, <1>3, <1>4

\* A dispatched line moves its request from the input to one place: a worker, an answer
\* or a refusal.
LEMMA DispatchStanding ==
    ASSUME TypeOK, OutputInv, IntakeInv, failure' = "none",
           NEW line \in {NextLine} \ {NoLine}, Dispatching(line),
           NEW i \in Identifiers, Named(i), Standing(i)
    PROVE  Standing(i)'
<1> DEFINE Q == RequestsOf(i)
           A == AnswersTo(i)
<1>a. waiting \in Seq(Answers) /\ line \in Inputs
  BY DispatchCases DEF TypeOK
<1>1. /\ held' = NoLine /\ UNCHANGED <<client, writing, writer>>
      /\ line.kind \in Requests \cup {"cancel"} => line.id \in Identifiers
  BY DispatchCases DEF Dispatch, Take, streamVars
<1>2. NoLine \notin Q
  BY LineSets
<1>3. line \in Q <=> (line.kind \in Requests /\ line.id = i)
  BY <1>a, LineSets
<1>4. /\ line \in Q => Sent(i) \/ Kept(i)
      /\ line \in Q /\ Alone(i) => ~ Has(input', Q)
      /\ line \notin Q => ~ Kept(i) /\ (Has(input', Q) <=> Sent(i))
      /\ Once(input, Q) => Once(input', Q)
      /\ Followed(input, CancelsOf(i), Q) =>
                /\ Followed(input', CancelsOf(i), Q)
                /\ line \in CancelsOf(i) => Has(input', Q)
  BY DispatchCases, TakeStanding
<1>c. \A j \in Identifiers, how \in {"none", "Reserved", "Answered", "Cancelling"} :
        [active EXCEPT ![j] = how][i] = IF i = j THEN how ELSE active[i]
  BY DEF TypeOK
\* The line is another's, or asks for nothing: what is known of i stays.
<1>5. ASSUME line \notin Q, Has(waiting', A) <=> Has(waiting, A),
             Once(waiting, A) => Once(waiting', A),
             active'[i] = active[i]
      PROVE  Standing(i)'
  BY <1>1, <1>2, <1>4, <1>5 DEF Standing, Alone, Somewhere, Sent, Kept, Works, Waits, Leaves
\* The request of i becomes its answer.
<1>6. ASSUME line \in Q, NEW a \in A, waiting' = Append(waiting, a), a \in Answers,
             active'[i] \in {active[i], "Answered"}
      PROVE  Standing(i)'
  <2>1. /\ Has(waiting', A)
        /\ Once(waiting, A) /\ ~ Has(waiting, A) => Once(waiting', A)
    BY <1>a, <1>6, AppendHas
  <2> QED  BY <1>1, <1>2, <1>4, <1>6, <2>1 DEF Standing, Alone, Somewhere, Sent, Kept, Works, Waits, Leaves
<1>7. CASE Notes(line)
  <2>1. UNCHANGED <<active, waiting>> /\ line \notin Q
    BY <1>3, <1>7 DEF Notes, outputVars, Requests
  <2> QED  BY <1>5, <2>1
<1>8. CASE Cancelled(line)
  <2>1. waiting' = waiting /\ line \notin Q /\ line.id \in Identifiers /\ line.kind = "cancel"
    BY <1>1, <1>3, <1>8 DEF Cancelled, outputVars, Requests
  <2>2. CASE line.id = i /\ i \in pending
    <3>1. active'[i] = "Cancelling" /\ Works(i)
      BY <1>8, <1>c, <2>1, <2>2 DEF Cancelled, Named, Works
    <3>2. line \in CancelsOf(i)
      BY <1>a, <2>1, <2>2, LineSets
    <3>3. client[i] # "open"
      BY <1>4, <2>1, <3>1, <3>2 DEF Standing, Alone
    <3> QED  BY <1>1, <1>2, <1>4, <2>1, <3>1, <3>3 DEF Standing, Alone, Somewhere, Sent, Kept, Works, Waits, Leaves
  <2>3. CASE ~ (line.id = i /\ i \in pending)
    <3>1. active'[i] = active[i]
      BY <1>8, <1>c, <2>1, <2>3 DEF Cancelled
    <3> QED  BY <1>5, <2>1, <3>1
  <2> QED  BY <2>2, <2>3
<1>9. CASE Defer(line)
  <2>1. /\ line.kind \in Requests /\ line.id \in Identifiers /\ waiting' = waiting
        /\ active'[i] = IF i = line.id THEN "Reserved" ELSE active[i]
    BY <1>1, <1>9, <1>c DEF Defer, Requests, outputVars
  <2>2. CASE i = line.id
    <3>1. line \in Q /\ active'[i] = "Reserved"
      BY <1>3, <2>1, <2>2
    <3> QED  BY <1>1, <1>2, <1>4, <2>1, <3>1 DEF Standing, Alone, Somewhere, Sent, Kept, Works, Waits, Leaves
  <2>3. CASE i # line.id
    <3>1. line \notin Q /\ active'[i] = active[i]
      BY <1>3, <2>1, <2>3
    <3> QED  BY <1>5, <2>1, <3>1
  <2> QED  BY <2>2, <2>3
<1>10. ASSUME NEW a \in Answers,
              \/ AnswersUnreadable(line, a)
              \/ AnswersRefusal(line, a)
              \/ AnswersRequest(line, a)
       PROVE  Standing(i)'
  <2>1. waiting' = Append(waiting, a)
    BY <1>10, EnqueueFacts DEF AnswersUnreadable, AnswersRefusal, AnswersRequest
  <2>2. a \in A <=> a.id = i
    BY LineSets
  <2>3. i # NoIdentifier
    BY DEF Identifiers, NoIdentifier
  <2>4. CASE line \in Q
    <3>1. a.id = i /\ active'[i] \in {active[i], "Answered"}
      BY <1>10, <1>3, <1>c, <2>4 DEF AnswersUnreadable, AnswersRefusal, AnswersRequest, Requests
    <3> QED  BY <1>6, <2>1, <2>2, <2>4, <3>1
  <2>5. CASE line \notin Q
    <3>1. a.id # i /\ active'[i] = active[i]
      BY <1>10, <1>1, <1>3, <1>c, <2>3, <2>5 DEF AnswersUnreadable, AnswersRefusal, AnswersRequest
    <3>2. (Has(waiting', A) <=> Has(waiting, A)) /\ (Once(waiting, A) => Once(waiting', A))
      BY <1>a, <2>1, <2>2, <3>1, AppendHas
    <3> QED  BY <1>5, <2>5, <3>1, <3>2
  <2> QED  BY <2>4, <2>5
<1> QED  BY <1>7, <1>8, <1>9, <1>10, DispatchCases

\* While output works, every step keeps a request in the one place where it is.
LEMMA StandingStep ==
    ASSUME TypeOK, OutputInv, IntakeInv, [Next]_vars, failure' = "none",
           NEW i \in Identifiers, Named(i), Standing(i)
    PROVE  Standing(i)'
<1> DEFINE Q == RequestsOf(i)
           A == AnswersTo(i)
<1>a. waiting \in Seq(Answers) /\ writing \in Answers \cup {NoLine} /\ input \in Seq(Inputs)
  BY DEF TypeOK
<1>b. ASSUME UNCHANGED <<client, input, held, active, waiting, writing, writer>>
      PROVE  Standing(i)'
  BY <1>b DEF Standing, Alone, Somewhere, Sent, Kept, Works, Waits, Leaves
<1>1. CASE ReceiveDelivery
  <2>1. CASE /\ writer = "Complete" /\ writing' = NoLine /\ writer' = "idle"
             /\ IF writing.kind = "response" THEN Acknowledged(writing.id) ELSE UNCHANGED active
             /\ UNCHANGED outputVars
    <3>1. UNCHANGED <<client, input, held, waiting>>
      BY <1>1, <2>1, DeliveryCases DEF clientVars, outputVars
    <3>2. active'[i] = active[i] \/ (active[i] = "Answered" /\ active'[i] = "none")
      BY <2>1 DEF Acknowledged, TypeOK
    <3> QED  BY <2>1, <3>1, <3>2 DEF Standing, Alone, Somewhere, Sent, Kept, Works, Waits, Leaves
  <2>2. CASE UNCHANGED <<writing, writer, active, outputVars>>
    BY <1>1, <1>b, <2>2, DeliveryCases DEF clientVars, outputVars
  <2> QED  BY <1>1, <2>1, <2>2, DeliveryCases
<1>2. CASE Completed
  <2>1. PICK j \in Identifiers, b \in Bytes :
              \/ j \notin pending /\ UNCHANGED <<active, outputVars>>
              \/ /\ j \in pending /\ j \in flagged /\ UNCHANGED outputVars
                 /\ active' = [active EXCEPT ![j] = IF @ = "Cancelling" THEN "none" ELSE @]
              \/ /\ j \in pending /\ j \notin flagged
                 /\ active' = [active EXCEPT ![j] = IF @ = "Reserved" THEN "Answered" ELSE @]
                 /\ Enqueue(Response(j, b))
    BY <1>2, CompletedCases
  <2>2. UNCHANGED <<client, input, held, writing, writer>>
    BY <1>2 DEF Completed, clientVars, streamVars, intakeVars
  <2>3. CASE j \notin pending /\ UNCHANGED <<active, outputVars>>
    BY <1>b, <2>2, <2>3 DEF outputVars
  <2>4. CASE /\ j \in pending /\ j \in flagged /\ UNCHANGED outputVars
             /\ active' = [active EXCEPT ![j] = IF @ = "Cancelling" THEN "none" ELSE @]
    <3>1. \/ active'[i] = active[i]
          \/ active[i] = "Cancelling" /\ active'[i] = "none"
      BY <2>4 DEF TypeOK
    <3>2. waiting' = waiting
      BY <2>4 DEF outputVars
    <3> QED  BY <2>2, <3>1, <3>2 DEF Standing, Alone, Somewhere, Sent, Kept, Works, Waits, Leaves
  <2>5. CASE /\ j \in pending /\ j \notin flagged
             /\ active' = [active EXCEPT ![j] = IF @ = "Reserved" THEN "Answered" ELSE @]
             /\ Enqueue(Response(j, b))
    <3>1. Response(j, b) \in Answers /\ Response(j, b).id = j
      BY AnswerFacts DEF ResponsesTo
    <3>2. waiting' = Append(waiting, Response(j, b)) /\ (Response(j, b) \in A <=> i = j)
      BY <2>5, <3>1, EnqueueFacts, LineSets
    <3>3. /\ Has(waiting', A) <=> Has(waiting, A) \/ i = j
          /\ Once(waiting, A) /\ ~ (Has(waiting, A) /\ i = j) => Once(waiting', A)
      BY <1>a, <3>1, <3>2, AppendHas
    <3>4. CASE i = j
      <4>1. active[i] = "Reserved" /\ active'[i] = "Answered"
        BY <2>5, <3>4 DEF Named, TypeOK
      <4> QED  BY <2>2, <3>3, <3>4, <4>1 DEF Standing, Alone, Somewhere, Sent, Kept, Works, Waits, Leaves
    <3>5. CASE i # j
      <4>1. active'[i] = active[i]
        BY <2>5, <3>5 DEF TypeOK
      <4> QED  BY <2>2, <3>3, <3>5, <4>1 DEF Standing, Alone, Somewhere, Sent, Kept, Works, Waits, Leaves
    <3> QED  BY <3>4, <3>5
  <2> QED  BY <2>1, <2>3, <2>4, <2>5
<1>3. ~ (GiveUp \/ Interrupted \/ (NoWrite /\ Drained))
  BY EndCases
<1>4. CASE PassIntake
  BY <1>b, <1>4 DEF PassIntake, clientVars, requestVars, outputVars, streamVars
<1>5. ASSUME NEW line \in {NextLine} \ {NoLine}, Hold(line) PROVE Standing(i)'
  <2>1. Take(line) /\ held' = line /\ UNCHANGED <<client, active, waiting, writing, writer>>
    BY <1>5 DEF Hold, Take, requestVars, outputVars, streamVars
  <2>2. /\ line \in Q => Sent(i) \/ Kept(i)
        /\ line \in Q /\ Alone(i) => ~ Has(input', Q)
        /\ line \notin Q => ~ Kept(i) /\ (Has(input', Q) <=> Sent(i))
        /\ Once(input, Q) => Once(input', Q)
        /\ Followed(input, CancelsOf(i), Q) => Followed(input', CancelsOf(i), Q)
    BY <2>1, TakeStanding
  <2> QED  BY <2>1, <2>2 DEF Standing, Alone, Somewhere, Sent, Kept, Works, Waits, Leaves
<1>6. ASSUME NEW line \in {NextLine} \ {NoLine}, Dispatching(line) PROVE Standing(i)'
  BY <1>6, DispatchStanding
<1>7. CASE StartWrite
  <2>1. /\ waiting # <<>> /\ writing = NoLine /\ writer' = "busy"
        /\ writing' = Head(waiting) /\ waiting' = Tail(waiting)
        /\ UNCHANGED <<client, input, held, active>>
    BY <1>7, StartWriteFacts DEF StartWrite, TakeNext, clientVars, requestVars, intakeVars
  <2>2. writing \notin A /\ writer = "idle"
    BY <2>1, LineSets DEF IntakeInv
  <2>3. /\ Has(waiting, A) <=> writing' \in A \/ Has(waiting', A)
        /\ Once(waiting, A) => Once(waiting', A)
        /\ Once(waiting, A) /\ writing' \in A => ~ Has(waiting', A)
    BY <1>a, <2>1, TailHas
  <2> QED  BY <2>1, <2>2, <2>3 DEF Standing, Alone, Somewhere, Sent, Kept, Works, Waits, Leaves
<1>8. CASE NoWrite /\ ~ Drained
  BY <1>b, <1>8 DEF NoWrite, clientVars, outputVars, streamVars, intakeVars
<1>9. ASSUME NEW line \in Inputs, Send(line) PROVE Standing(i)'
  <2>1. /\ input' = Append(input, line)
        /\ UNCHANGED <<active, waiting, writing, writer, held>>
    BY <1>9 DEF Send, requestVars, outputVars, streamVars, intakeVars
  <2>2. /\ line \in Q <=> (line.kind \in Requests /\ line.id = i)
        /\ line \in CancelsOf(i) <=> (line.kind = "cancel" /\ line.id = i)
        /\ line \in CancelsOf(i) => line \notin Q
    BY LineSets
  <2>3. /\ Has(input', Q) <=> Has(input, Q) \/ line \in Q
        /\ Once(input, Q) /\ ~ (Has(input, Q) /\ line \in Q) => Once(input', Q)
    BY <1>a, <2>1, AppendHas
  <2>4. line \notin CancelsOf(i) /\ (line \in Q \/ Followed(input, CancelsOf(i), Q))
            => Followed(input', CancelsOf(i), Q)
    BY <1>a, <2>1, AppendFollowed
  <2>5. CASE line \in Q
    <3>1. client'[i] = IF client[i] \in {"unused", "idle"} THEN "open" ELSE "spoiled"
      BY <1>9, <2>2, <2>5 DEF Send, AfterRequest, TypeOK
    <3> QED  BY <2>1, <2>2, <2>3, <2>4, <2>5, <3>1 DEF Standing, Alone, Somewhere, Sent, Kept, Works, Waits, Leaves
  <2>6. CASE line \in CancelsOf(i)
    <3>1. client'[i] = IF client[i] = "open" THEN "withdrawn" ELSE client[i]
      BY <1>9, <2>2, <2>6 DEF Send, AfterCancel, TypeOK, Requests
    <3> QED  BY <2>1, <2>2, <2>3, <2>6, <3>1 DEF Standing, Alone, Somewhere, Sent, Kept, Works, Waits, Leaves
  <2>7. CASE line \notin Q /\ line \notin CancelsOf(i)
    <3>1. client'[i] = client[i]
      BY <1>9, <2>2, <2>7 DEF Send, TypeOK
    <3> QED  BY <2>1, <2>3, <2>4, <2>7, <3>1 DEF Standing, Alone, Somewhere, Sent, Kept, Works, Waits, Leaves
  <2> QED  BY <2>5, <2>6, <2>7
<1>10. ASSUME NEW j \in Identifiers, NEW b \in Bytes, WorkerReports(j, b) PROVE Standing(i)'
  BY <1>b, <1>10 DEF WorkerReports, clientVars, requestVars, outputVars, streamVars, intakeVars
<1>11. CASE WriterWrites
  <2>1. /\ writer = "busy" /\ writer' = "written"
        /\ UNCHANGED <<input, held, active, waiting, writing>>
    BY <1>11 DEF WriterWrites, requestVars, outputVars, intakeVars
  <2>2. writing \in A <=> writing.id = i
    BY <1>a, LineSets DEF NoLine, NoIdentifier, Identifiers
  <2>3. CASE writing \in A
    <3>1. client'[i] = IF client[i] = "spoiled" THEN "spoiled" ELSE "idle"
      BY <1>11, <2>2, <2>3 DEF WriterWrites, AfterAnswer, TypeOK
    <3> QED  BY <2>1, <2>3, <3>1 DEF Standing, Alone, Somewhere, Sent, Kept, Works, Waits, Leaves
  <2>4. CASE writing \notin A
    <3>1. client'[i] = client[i]
      BY <1>11, <2>2, <2>4 DEF WriterWrites, TypeOK
    <3> QED  BY <2>1, <2>4, <3>1 DEF Standing, Alone, Somewhere, Sent, Kept, Works, Waits, Leaves
  <2> QED  BY <2>3, <2>4
<1>12. ASSUME NEW outcome \in {"Complete", "Expired", "Refused"}, WriterReports(outcome)
       PROVE  Standing(i)'
  <2>1. /\ UNCHANGED <<client, input, held, active, waiting, writing>>
        /\ writer' # "busy" /\ writer \in {"written", "busy"}
        /\ writer = "busy" => writer' \in {"Expired", "Refused"}
    BY <1>12 DEF WriterReports, clientVars, requestVars, outputVars, intakeVars
  <2> QED  BY <2>1 DEF Standing, Alone, Somewhere, Sent, Kept, Works, Waits, Leaves
<1>13. ASSUME NEW deadline \in {"write", "shutdown", "pressure"}, Elapse(deadline)
       PROVE  Standing(i)'
  BY <1>b, <1>13 DEF Elapse, clientVars, requestVars, outputVars, streamVars, intakeVars
<1>14. CASE UNCHANGED vars
  BY <1>b, <1>14 DEF vars, clientVars, requestVars, outputVars, streamVars, intakeVars
<1> QED
  BY <1>1, <1>2, <1>3, <1>4, <1>5, <1>6, <1>7, <1>8, <1>9, <1>10, <1>11, <1>12, <1>13, <1>14,
     NextCases, Zenon

-----------------------------------------------------------------------------
(* Refusals, and the end of a drained session. *)

\* The lines that tell a client its identifier is in use.
DuplicatesOf(i) == {m \in Answers : m.kind = "duplicate" /\ m.id = i}

\* No duplicate waits for an identifier that is not spoiled: the same, said per identifier.
LEMMA DuplicateForm ==
    ASSUME NEW w \in Seq(Answers), NEW standing
    PROVE  (\A k \in DOMAIN w : w[k].kind = "duplicate" => standing[w[k].id] = "spoiled")
             <=> (\A i \in Identifiers : Has(w, DuplicatesOf(i)) => standing[i] = "spoiled")
<1>1. DOMAIN w = 1 .. Len(w) /\ \A k \in DOMAIN w : w[k] \in Answers
  OBVIOUS
<1>2. \A m \in Answers : m.kind = "duplicate" => m.id \in Identifiers
  BY DEF Answers
<1> QED  BY <1>1, <1>2 DEF Has, DuplicatesOf

\* A step spoils an identifier for good.
LEMMA SpoiledStays ==
    ASSUME TypeOK, OutputInv, IntakeInv, [Next]_vars, NEW i \in Identifiers,
           client[i] = "spoiled"
    PROVE  client'[i] = "spoiled"
<1>1. ASSUME client' = client PROVE client'[i] = "spoiled"
  BY <1>1
<1>2. ASSUME NEW line \in {NextLine} \ {NoLine}, Hold(line) \/ Dispatching(line)
      PROVE  client'[i] = "spoiled"
  <2>1. Take(line)
    BY <1>2, DispatchCases DEF Hold
  <2> QED  BY <1>1, <2>1 DEF Take
<1>3. ASSUME NEW line \in Inputs, Send(line) PROVE client'[i] = "spoiled"
  BY <1>3 DEF Send, AfterRequest, AfterCancel, TypeOK
<1>4. CASE WriterWrites
  BY <1>4 DEF WriterWrites, AfterAnswer, TypeOK
<1>5. CASE \/ ReceiveDelivery \/ Completed \/ GiveUp \/ PassIntake \/ StartWrite \/ NoWrite
           \/ Interrupted \/ UNCHANGED vars
  BY <1>1, <1>5 DEF ReceiveDelivery, Completed, GiveUp, PassIntake, StartWrite, NoWrite,
                    Interrupted, vars, clientVars
<1>6. ASSUME NEW j \in Identifiers, NEW b \in Bytes, WorkerReports(j, b)
      PROVE  client'[i] = "spoiled"
  BY <1>1, <1>6 DEF WorkerReports, clientVars
<1>7. ASSUME NEW outcome \in {"Complete", "Expired", "Refused"}, WriterReports(outcome)
      PROVE  client'[i] = "spoiled"
  BY <1>1, <1>7 DEF WriterReports, clientVars
<1>8. ASSUME NEW deadline \in {"write", "shutdown", "pressure"}, Elapse(deadline)
      PROVE  client'[i] = "spoiled"
  BY <1>1, <1>8 DEF Elapse, clientVars
<1> QED  BY <1>2, <1>3, <1>4, <1>5, <1>6, <1>7, <1>8, NextCases, Zenon

\* Only a client that used an identifier too soon is refused it as a duplicate: what an
\* honest request could meet is its own earlier answer, and for that it is held back.
LEMMA DuplicateIsEarned ==
    ASSUME TypeOK, IntakeInv, NEW line \in {NextLine} \ {NoLine}, Dispatching(line),
           NEW i \in Identifiers, line \in RequestsOf(i), active[i] # "none",
           Named(i), Standing(i)
    PROVE  client[i] = "spoiled"
<1> SUFFICES ASSUME client[i] # "spoiled" PROVE FALSE
  OBVIOUS
<1>1. Take(line) /\ ~ AwaitsDelivery(line) /\ line \in Inputs
  BY DispatchCases DEF Dispatch
<1>2. Alone(i) /\ (Sent(i) \/ Kept(i))
  BY <1>1, TakeStanding DEF Standing
<1>3. ~ Works(i) /\ ~ Waits(i)
  BY <1>2 DEF Alone
<1>4. active[i] = "Answered"
  BY <1>3 DEF Works, TypeOK
<1>5. Has(waiting, ResponsesTo(i)) \/ writing \in ResponsesTo(i)
  BY <1>4 DEF Named
<1>6. ~ Has(waiting, ResponsesTo(i))
  BY <1>3 DEF Waits, Has, ResponsesTo, AnswersTo
<1>7. line.kind \in Requests /\ line.id = i
  BY <1>1, LineSets
<1>8. writing.kind = "response" /\ writing.id = i
  BY <1>5, <1>6 DEF ResponsesTo
<1> QED  BY <1>1, <1>7, <1>8 DEF AwaitsDelivery

\* Every step keeps the refusals that wait deserved.
LEMMA DuplicateStep ==
    ASSUME TypeOK, OutputInv, IntakeInv, NoFalseDuplicate, [Next]_vars,
           failure = "none" => \A i \in Identifiers : Named(i) /\ Standing(i),
           TypeOK', OutputInv'
    PROVE  NoFalseDuplicate'
<1>a. waiting \in Seq(Answers) /\ waiting' \in Seq(Answers)
  BY DEF TypeOK
<1>1. CASE failure' # "none"
  <2>1. waiting' = <<>>
    BY <1>1 DEF OutputInv
  <2>2. DOMAIN waiting' = {}
    BY <2>1
  <2> QED  BY <2>2 DEF NoFalseDuplicate
<1>2. CASE failure' = "none"
  <2>1. \A i \in Identifiers : Named(i) /\ Standing(i)
    BY <1>2, FailureStays
  <2>2. SUFFICES ASSUME NEW i \in Identifiers, Has(waiting', DuplicatesOf(i))
                 PROVE  client'[i] = "spoiled"
    BY <1>a, DuplicateForm DEF NoFalseDuplicate
  <2>3. SUFFICES client[i] = "spoiled"
    BY SpoiledStays
  <2> DEFINE D == DuplicatesOf(i)
  <2>4. Has(waiting, D) => client[i] = "spoiled"
    BY <1>a, DuplicateForm DEF NoFalseDuplicate
  <2>5. ASSUME waiting' = waiting PROVE client[i] = "spoiled"
    BY <2>2, <2>4, <2>5
  <2>6. ASSUME NEW a \in Answers, Enqueue(a), a \notin D PROVE client[i] = "spoiled"
    <3>1. waiting' = Append(waiting, a)
      BY <1>2, <2>6, EnqueueFacts
    <3>2. Has(waiting, D)
      BY <1>a, <2>2, <2>6, <3>1, AppendHas
    <3> QED  BY <2>4, <3>2
  <2>7. CASE ReceiveDelivery
    BY <1>2, <2>5, <2>7, DeliveryCases DEF outputVars
  <2>8. CASE Completed
    <3>1. UNCHANGED outputVars \/ \E j \in Identifiers, b \in Bytes : Enqueue(Response(j, b))
      BY <2>8, CompletedCases
    <3>2. \A j \in Identifiers, b \in Bytes :
            Response(j, b) \in Answers /\ Response(j, b) \notin D
      BY AnswerFacts DEF ResponsesTo, DuplicatesOf
    <3> QED  BY <2>5, <2>6, <3>1, <3>2 DEF outputVars
  <2>9. ~ (GiveUp \/ Interrupted \/ (NoWrite /\ Drained))
    BY <1>2, EndCases
  <2>10. CASE PassIntake \/ (NoWrite /\ ~ Drained)
    BY <2>5, <2>10 DEF PassIntake, NoWrite, outputVars
  <2>11. ASSUME NEW line \in {NextLine} \ {NoLine}, Hold(line) PROVE client[i] = "spoiled"
    BY <2>5, <2>11 DEF Hold, outputVars
  <2>12. ASSUME NEW line \in {NextLine} \ {NoLine}, Dispatching(line)
         PROVE  client[i] = "spoiled"
    <3>1. CASE Notes(line) \/ Cancelled(line) \/ Defer(line)
      BY <2>5, <3>1 DEF Notes, Cancelled, Defer, outputVars
    <3>2. ASSUME NEW a \in Answers,
                 \/ AnswersUnreadable(line, a)
                 \/ AnswersRefusal(line, a)
                 \/ AnswersRequest(line, a)
          PROVE  client[i] = "spoiled"
      <4>1. Enqueue(a)
        BY <3>2 DEF AnswersUnreadable, AnswersRefusal, AnswersRequest
      <4>2. CASE a \in D
        <5>1. a.kind = "duplicate" /\ a.id = i
          BY <4>2 DEF DuplicatesOf
        <5>2. line.kind \in Requests /\ line.id = i /\ active[i] # "none"
          BY <3>2, <5>1 DEF AnswersUnreadable, AnswersRefusal, AnswersRequest
        <5>3. line \in RequestsOf(i)
          BY <2>12, <5>2, DispatchCases, LineSets
        <5> QED  BY <2>1, <2>12, <5>2, <5>3, DuplicateIsEarned
      <4>3. CASE a \notin D
        BY <2>6, <4>1, <4>3
      <4> QED  BY <4>2, <4>3
    <3> QED  BY <2>12, <3>1, <3>2, DispatchCases
  <2>13. CASE StartWrite
    <3>1. waiting # <<>> /\ waiting' = Tail(waiting)
      BY <2>13, StartWriteFacts
    <3>2. Has(waiting, D)
      BY <1>a, <2>2, <3>1, TailHas
    <3> QED  BY <2>4, <3>2
  <2>14. ASSUME NEW line \in Inputs, Send(line) PROVE client[i] = "spoiled"
    BY <2>5, <2>14 DEF Send, outputVars
  <2>15. ASSUME NEW j \in Identifiers, NEW b \in Bytes, WorkerReports(j, b)
         PROVE  client[i] = "spoiled"
    BY <2>5, <2>15 DEF WorkerReports, outputVars
  <2>16. CASE WriterWrites
    BY <2>5, <2>16 DEF WriterWrites, outputVars
  <2>17. ASSUME NEW outcome \in {"Complete", "Expired", "Refused"}, WriterReports(outcome)
         PROVE  client[i] = "spoiled"
    BY <2>5, <2>17 DEF WriterReports, outputVars
  <2>18. ASSUME NEW deadline \in {"write", "shutdown", "pressure"}, Elapse(deadline)
         PROVE  client[i] = "spoiled"
    BY <2>5, <2>18 DEF Elapse, outputVars
  <2>19. CASE UNCHANGED vars
    BY <2>5, <2>19 DEF vars, outputVars
  <2> QED
    BY <2>7, <2>8, <2>9, <2>10, <2>11, <2>12, <2>13, <2>14, <2>15, <2>16, <2>17, <2>18, <2>19,
       NextCases, Zenon
<1> QED  BY <1>1, <1>2

\* A drained session has no place left where a request could be.
LEMMA DrainedIsAnswered ==
    ASSUME TypeOK, IntakeInv, NoWrite, Drained, NEW i \in Identifiers,
           failure = "none" => Standing(i)
    PROVE  client[i] # "open"
<1>1. /\ failure = "none" /\ writer = "idle"
      /\ input = <<>> /\ held = NoLine /\ waiting = <<>> /\ writing = NoLine
      /\ active[i] = "none"
  BY DEF IntakeInv, NoWrite, At, Drained
<1>2. ~ Has(input, RequestsOf(i)) /\ ~ Has(waiting, AnswersTo(i)) /\ NoLine \notin RequestsOf(i)
  BY <1>1, EmptyHas, LineSets
<1>3. ~ Somewhere(i)
  BY <1>1, <1>2 DEF Somewhere, Sent, Kept, Works, Waits, Leaves
<1> QED  BY <1>1, <1>3 DEF Standing

\* Every step keeps a drained session without open requests.
LEMMA DrainStep ==
    ASSUME TypeOK, OutputInv, IntakeInv, DrainAnswersEverything, [Next]_vars,
           failure = "none" => \A i \in Identifiers : Named(i) /\ Standing(i)
    PROVE  DrainAnswersEverything'
<1>1. ASSUME phase' = "serving" PROVE DrainAnswersEverything'
  BY <1>1 DEF DrainAnswersEverything
<1>2. CASE GiveUp \/ Interrupted \/ (NoWrite /\ Drained)
  <2>1. phase' = "drained" => NoWrite /\ Drained
    BY <1>2, EndCases
  <2>2. client' = client
    BY <1>2, EndCases
  <2>3. NoWrite /\ Drained => \A i \in Identifiers : client[i] # "open"
    BY DrainedIsAnswered
  <2> QED  BY <2>1, <2>2, <2>3 DEF DrainAnswersEverything
<1>3. CASE UNCHANGED vars
  BY <1>3 DEF vars, clientVars, DrainAnswersEverything
<1>4. CASE ReceiveDelivery
  BY <1>1, <1>4, DeliveryCases
<1>5. CASE Completed \/ StartWrite \/ (NoWrite /\ ~ Drained) \/ WriterWrites
  BY <1>1, <1>5 DEF Completed, StartWrite, NoWrite, WriterWrites, At
<1>6. CASE PassIntake
  BY <1>1, <1>6 DEF PassIntake, GoesOn, Settled, At
<1>7. ASSUME NEW line \in {NextLine} \ {NoLine}, Hold(line) \/ Dispatching(line)
      PROVE  DrainAnswersEverything'
  <2>1. Take(line)
    BY <1>7, DispatchCases DEF Hold
  <2> QED  BY <1>1, <2>1 DEF Take, GoesOn, Settled, At
<1>8. ASSUME NEW line \in Inputs, Send(line) PROVE DrainAnswersEverything'
  BY <1>1, <1>8 DEF Send
<1>9. ASSUME NEW j \in Identifiers, NEW b \in Bytes, WorkerReports(j, b)
      PROVE  DrainAnswersEverything'
  BY <1>1, <1>9 DEF WorkerReports
<1>10. ASSUME NEW outcome \in {"Complete", "Expired", "Refused"}, WriterReports(outcome)
       PROVE  DrainAnswersEverything'
  BY <1>1, <1>10 DEF WriterReports
<1>11. ASSUME NEW deadline \in {"write", "shutdown", "pressure"}, Elapse(deadline)
       PROVE  DrainAnswersEverything'
  BY <1>1, <1>11 DEF Elapse
<1> QED
  BY <1>2, <1>3, <1>4, <1>5, <1>6, <1>7, <1>8, <1>9, <1>10, <1>11, NextCases, Zenon

-----------------------------------------------------------------------------
(* The invariant, and what follows from it. *)

\* A session starts with nothing anywhere.
LEMMA SessionInit == Init => SessionInv
<1> SUFFICES ASSUME Init PROVE SessionInv
  OBVIOUS
<1>1. TypeOK
  <2>1. /\ input \in Seq(Inputs) /\ waiting \in Seq(Answers)
        /\ completions \in Seq([id : Identifiers, bytes : Bytes])
    BY DEF Init
  <2>2. sends \in 0 .. MaxSends /\ waitingBytes \in 0 .. MaxQueuedBytes
    BY SessionBounds DEF Init
  <2>3. client \in [Identifiers -> {"unused", "idle", "open", "withdrawn", "spoiled"}]
    BY DEF Init
  <2>4. active \in [Identifiers -> {"none", "Reserved", "Answered", "Cancelling"}]
    BY DEF Init
  <2>5. /\ lifecycle = "Fresh" /\ pending = {} /\ flagged = {} /\ running = {}
        /\ failure = "none" /\ writing = NoLine /\ writer = "idle" /\ held = NoLine
        /\ inputEnded = FALSE /\ pressured = FALSE /\ elapsed = {} /\ step = "deliver"
        /\ phase = "serving"
    BY DEF Init
  <2> QED  BY <2>1, <2>2, <2>3, <2>4, <2>5 DEF TypeOK
<1>2. OutputInv
  BY EmptyCounted DEF Init, OutputInv
<1>3. RoomIsLeft
  <2>1. Cardinality({}) = 0 /\ 0 * MaxLine = 0
    BY FS_EmptySet, SessionBounds
  <2>2. writing.bytes = 0 /\ Len(waiting) = 0 /\ waitingBytes = 0 /\ pending = {}
    BY DEF Init, NoLine
  <2> QED  BY <2>1, <2>2, SessionBounds DEF RoomIsLeft
<1>4. IntakeInv
  BY EmptyHas DEF Init, IntakeInv
<1>5. ASSUME NEW i \in Identifiers PROVE Named(i) /\ Standing(i)
  <2>1. /\ ~ Has(<<>>, RequestsOf(i)) /\ Once(<<>>, RequestsOf(i))
        /\ ~ Has(<<>>, ResponsesTo(i)) /\ Once(<<>>, ResponsesTo(i))
        /\ ~ Has(<<>>, AnswersTo(i)) /\ Once(<<>>, AnswersTo(i))
        /\ NoLine \notin RequestsOf(i) /\ NoLine \notin AnswersTo(i)
        /\ NoLine \notin ResponsesTo(i)
    BY EmptyHas, LineSets
  <2>2. active[i] = "none" /\ client[i] = "unused"
    BY DEF Init
  <2>3. Named(i)
    BY <2>1, <2>2 DEF Init, Named
  <2>4. Standing(i)
    BY <2>1, <2>2 DEF Init, Standing, Alone, Somewhere, Sent, Kept, Works, Waits, Leaves
  <2> QED  BY <2>3, <2>4
<1>6. NoFalseDuplicate /\ DrainAnswersEverything
  BY DEF Init, NoFalseDuplicate, DrainAnswersEverything
<1> QED  BY <1>1, <1>2, <1>3, <1>4, <1>5, <1>6 DEF SessionInv

\* Every step of the session keeps the invariant.
LEMMA SessionStep == SessionInv /\ [Next]_vars => SessionInv'
<1> SUFFICES ASSUME SessionInv, [Next]_vars PROVE SessionInv'
  OBVIOUS
<1>1. /\ TypeOK /\ OutputInv /\ RoomIsLeft /\ IntakeInv
      /\ failure = "none" => \A i \in Identifiers : Named(i) /\ Standing(i)
      /\ NoFalseDuplicate /\ DrainAnswersEverything
  BY DEF SessionInv
<1>2. TypeOK' /\ OutputInv' /\ RoomIsLeft' /\ IntakeInv'
  BY <1>1, TypeStep, OutputStep, RoomStep, IntakeStep
<1>3. ASSUME failure' = "none", NEW i \in Identifiers PROVE Named(i)' /\ Standing(i)'
  <2>1. Named(i) /\ Standing(i)
    BY <1>1, <1>3, FailureStays
  <2> QED  BY <1>1, <1>3, <2>1, NamedStep, StandingStep
<1>4. NoFalseDuplicate' /\ DrainAnswersEverything'
  BY <1>1, <1>2, DuplicateStep, DrainStep
<1> QED  BY <1>2, <1>3, <1>4 DEF SessionInv

\* Responses that are found at most once are counted zero or one.
LEMMA OnTheWayCount ==
    ASSUME TypeOK, NEW i \in Identifiers, Once(waiting, ResponsesTo(i))
    PROVE  Cardinality({k \in DOMAIN waiting : waiting[k].kind = "response" /\ waiting[k].id = i})
             = IF Has(waiting, ResponsesTo(i)) THEN 1 ELSE 0
<1> DEFINE W == {k \in DOMAIN waiting : waiting[k].kind = "response" /\ waiting[k].id = i}
<1>1. DOMAIN waiting = 1 .. Len(waiting) /\ \A k \in DOMAIN waiting : waiting[k] \in Answers
  BY DEF TypeOK
<1>2. W = {k \in 1 .. Len(waiting) : waiting[k] \in ResponsesTo(i)}
  BY <1>1 DEF ResponsesTo
<1> HIDE DEF W
<1>3. CASE Has(waiting, ResponsesTo(i))
  <2>1. PICK k \in 1 .. Len(waiting) : waiting[k] \in ResponsesTo(i)
    BY <1>3 DEF Has
  <2>2. W = {k}
    BY <1>2, <2>1 DEF Once
  <2>3. Cardinality(W) = 1
    BY <2>2, FS_Singleton
  <2> QED  BY <1>3, <2>3 DEF W
<1>4. CASE ~ Has(waiting, ResponsesTo(i))
  <2>1. W = {}
    BY <1>2, <1>4 DEF Has
  <2>2. Cardinality(W) = 0
    BY <2>1, FS_EmptySet
  <2> QED  BY <1>4, <2>2 DEF W
<1> QED  BY <1>3, <1>4

\* The places of an identifier's answer, as IdentifierNamesOneThing counts them.
LEMMA NamesAreOne == SessionInv => IdentifierNamesOneThing
<1> SUFFICES ASSUME SessionInv, failure = "none", NEW i \in Identifiers
             PROVE  /\ OnTheWay(i) = IF active[i] = "Answered" THEN 1 ELSE 0
                    /\ i \in pending <=> active[i] \in {"Reserved", "Cancelling"}
                    /\ i \in flagged <=> active[i] = "Cancelling"
  BY DEF IdentifierNamesOneThing
<1>1. TypeOK /\ Named(i)
  BY DEF SessionInv
<1>2. writing \in ResponsesTo(i) <=> (writing.kind = "response" /\ writing.id = i)
  BY <1>1, LineSets DEF TypeOK
<1>3. OnTheWay(i) = (IF Has(waiting, ResponsesTo(i)) THEN 1 ELSE 0)
                        + (IF writing \in ResponsesTo(i) THEN 1 ELSE 0)
  BY <1>1, <1>2, OnTheWayCount DEF OnTheWay, Named
<1>4. OnTheWay(i) = IF active[i] = "Answered" THEN 1 ELSE 0
  BY <1>1, <1>3 DEF Named
<1> QED  BY <1>1, <1>4 DEF Named

\* A worker's answer that fits a line always finds its place in the queue.
WorkersAnswersFit ==
    phase = "serving" /\ failure = "none" =>
        \A i \in pending, b \in 1 .. MaxLine : Takes(Response(i, b))

\* The room that is reserved is enough, whatever the line's bound is.
LEMMA RoomIsEnough == SessionInv => WorkersAnswersFit
<1> SUFFICES ASSUME SessionInv, phase = "serving", failure = "none",
                    NEW i \in pending, NEW b \in 1 .. MaxLine
             PROVE  Takes(Response(i, b))
  BY DEF WorkersAnswersFit
<1> DEFINE c == Cardinality(pending)
           r == c * MaxLine
           v == writing.bytes
<1>1. TypeOK /\ RoomIsLeft
  BY DEF SessionInv
<1>2. c \in Nat /\ c >= 1
  BY <1>1, PendingCard DEF TypeOK
<1>3. /\ r \in Nat /\ r >= MaxLine /\ v \in Nat
      /\ MaxLine \in Nat /\ MaxQueuedBytes \in Nat /\ MaxQueuedMessages \in Nat
      /\ waitingBytes \in Nat /\ Len(waiting) \in Nat
  BY <1>1, <1>2, LineTimes, LineBytes, SessionBounds DEF TypeOK
<1>4. waitingBytes + r + v <= MaxQueuedBytes /\ Len(waiting) + c <= MaxQueuedMessages
  BY <1>1 DEF RoomIsLeft
<1> HIDE DEF c, r, v
<1>5. waitingBytes + b <= MaxQueuedBytes /\ Len(waiting) < MaxQueuedMessages /\ b <= MaxLine
  BY <1>2, <1>3, <1>4
<1> QED  BY <1>5 DEF Takes, Response

\* The invariant holds of every behaviour.
LEMMA SessionInvariant == Spec => []SessionInv
BY SessionInit, SessionStep, PTL DEF Spec

\* The session keeps its types for any number of requests and any bounds; the count of
\* waiting bytes stays within its limit.
THEOREM SessionTypeCorrect == Spec => []TypeOK
<1>1. SessionInv => TypeOK
  BY DEF SessionInv
<1> QED  BY <1>1, SessionInvariant, PTL

\* An identifier names one worker, one answer on its way, or nothing, for any number of
\* requests, cancellations and reuses (ActiveRequestRegistry).
THEOREM SessionIdentifierNamesOneThing == Spec => []IdentifierNamesOneThing
BY NamesAreOne, SessionInvariant, PTL

\* Queued answers, the answer being written and a whole line for each running worker fit
\* the budget, for every budget and every line bound (Session::has_room); and the running
\* count the budget is measured by is the sum of the waiting lines, after any number of
\* writes, refusals and failures (enqueue_line, take_next, fail).
THEOREM SessionRoomIsReserved == Spec => []RoomIsReserved
<1>1. SessionInv => RoomIsLeft
  BY DEF SessionInv
<1>2. SessionInv => BytesAreCounted
  BY DEF SessionInv, OutputInv, Counted, BytesAreCounted
<1>3. SessionInv => RoomIsReserved
  BY <1>1, <1>2 DEF RoomIsReserved
<1> QED  BY <1>3, SessionInvariant, PTL

\* So a worker that comes back with an answer of a legal length never finds the queue
\* full and never ends the session (OutputQueue::enqueue_line).
THEOREM SessionWorkersAnswersFit == Spec => []WorkersAnswersFit
BY RoomIsEnough, SessionInvariant, PTL

\* A client that reuses an identifier only after its answer is never refused as a
\* duplicate, however late the delivery is heard of (Session::awaits_delivery).
THEOREM SessionNoFalseDuplicate == Spec => []NoFalseDuplicate
<1>1. SessionInv => NoFalseDuplicate
  BY DEF SessionInv
<1> QED  BY <1>1, SessionInvariant, PTL

\* A session that drains leaves no request it read without its answer, those that
\* were withdrawn or whose identifier was used again aside (Session::step).
THEOREM SessionDrainAnswersEverything == Spec => []DrainAnswersEverything
<1>1. SessionInv => DrainAnswersEverything
  BY DEF SessionInv
<1> QED  BY <1>1, SessionInvariant, PTL
=============================================================================
