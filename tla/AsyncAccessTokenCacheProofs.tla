-------------------- MODULE AsyncAccessTokenCacheProofs --------------------
(***************************************************************************)
(* Proofs about the access token cache, for any number of callers and any  *)
(* width of the generation counter.                                        *)
(***************************************************************************)
EXTENDS AsyncAccessTokenCache, TLAPS

(* Every generation anybody speaks of has been installed, and an open      *)
(* flight has a number left for its token.                                 *)
Numbered ==
    /\ \A c \in Callers : lease[c] <= generation /\ rejected[c] <= generation
    /\ \A g \in refused : g <= generation
    /\ token # "none" => generation # 0
    /\ flight # NoCaller => generation < MaxGeneration

CacheInv == TypeOK /\ ExchangeIsExclusive /\ RefusedIsNeverHeld /\ Numbered

(* What the locked sections of acquire share: the refusal is taken, and    *)
(* what is left of the token was never refused.                            *)
LEMMA RejectionTaken ==
    ASSUME CacheInv, NEW c \in Callers, TakeRejected(c)
    PROVE  /\ AfterRejection(c) \in {"none", "fresh", "due"}
           /\ AfterRejection(c) # "none" => AfterRejection(c) = token
           /\ AfterRejection(c) # "none" => generation \notin refused'
           /\ rejected' \in [Callers -> Generations]
           /\ \A d \in Callers : rejected'[d] <= generation
           /\ refused' \in SUBSET Generations
           /\ \A g \in refused' : g <= generation
           /\ pc[c] = "acquire"
<1>1. 0 \in Generations
  BY GenerationAssumption, SMT DEF Generations
<1>2. rejected[c] \in Generations /\ rejected[c] <= generation /\ generation \in Generations
  BY DEF CacheInv, TypeOK, Numbered
<1>3. generation \in Nat
  BY <1>2, GenerationAssumption DEF Generations
<1>4. AfterRejection(c) \in {"none", "fresh", "due"}
  BY DEF CacheInv, TypeOK, AfterRejection
<1>5. AfterRejection(c) # "none" => AfterRejection(c) = token
  BY DEF AfterRejection
<1>6. AfterRejection(c) # "none" => generation \notin refused'
  BY DEF CacheInv, RefusedIsNeverHeld, AfterRejection, TakeRejected
<1>7. rejected' \in [Callers -> Generations]
  BY <1>1 DEF CacheInv, TypeOK, TakeRejected
<1>8. \A d \in Callers : rejected'[d] <= generation
  BY <1>3 DEF CacheInv, TypeOK, Numbered, TakeRejected
<1>9. refused' \in SUBSET Generations
  BY <1>2 DEF CacheInv, TypeOK, TakeRejected
<1>10. \A g \in refused' : g <= generation
  BY <1>2 DEF CacheInv, Numbered, TakeRejected
<1>11. pc[c] = "acquire"
  BY DEF TakeRejected
<1> QED BY <1>4, <1>5, <1>6, <1>7, <1>8, <1>9, <1>10, <1>11

(* Ending a request puts its locals back to legal values.                  *)
LEMMA EndTypes ==
    ASSUME TypeOK, Numbered, NEW c \in Callers, End(c)
    PROVE  /\ pc' = [pc EXCEPT ![c] = "ended"]
           /\ pc' \in [Callers -> Places]
           /\ kind' \in [Callers -> Kinds]
           /\ lease' \in [Callers -> Generations]
           /\ sends' \in [Callers -> Seq(Generations)]
           /\ \A d \in Callers : lease'[d] <= generation
<1>1. 0 \in Generations /\ generation \in Nat
  BY GenerationAssumption, SMT DEF Generations, TypeOK
<1>2. <<>> \in Seq(Generations)
  OBVIOUS
<1>3. pc' \in [Callers -> Places] /\ kind' \in [Callers -> Kinds]
  BY DEF End, TypeOK, Places, Kinds
<1>4. lease' \in [Callers -> Generations] /\ sends' \in [Callers -> Seq(Generations)]
  BY <1>1, <1>2 DEF End, TypeOK
<1>5. \A d \in Callers : lease'[d] <= generation
  BY <1>1 DEF End, TypeOK, Numbered
<1> QED BY <1>3, <1>4, <1>5 DEF End

(* Initially the cache is empty and nobody holds anything.                 *)
LEMMA CacheInit == Init => CacheInv
<1> SUFFICES ASSUME Init PROVE CacheInv
  OBVIOUS
<1>1. 0 \in Generations
  BY GenerationAssumption, SMT DEF Generations
<1>2. <<>> \in Seq(Generations)
  OBVIOUS
<1>3. TypeOK
  BY <1>1, <1>2 DEF Init, TypeOK, Places, Kinds
<1>4. ExchangeIsExclusive
  BY CallerAssumption DEF Init, ExchangeIsExclusive
<1>5. RefusedIsNeverHeld
  BY DEF Init, RefusedIsNeverHeld
<1>6. Numbered
  BY DEF Init, Numbered
<1> QED BY <1>3, <1>4, <1>5, <1>6 DEF CacheInv

(* Every step keeps the invariant: one case for each action.               *)
LEMMA CacheStep == CacheInv /\ [Next]_vars => CacheInv'
<1> SUFFICES ASSUME CacheInv, [Next]_vars PROVE CacheInv'
  OBVIOUS
<1>0. 0 \in Generations /\ generation \in Nat /\ generation \in Generations
  BY GenerationAssumption, SMT DEF Generations, CacheInv, TypeOK
<1>1. CASE UNCHANGED vars
  BY <1>1 DEF vars, CacheInv, TypeOK, ExchangeIsExclusive, RefusedIsNeverHeld, Numbered
<1>2. CASE Age
  <2>91. TypeOK'
    BY <1>2 DEF Age, request, waiting, CacheInv, TypeOK
  <2>92. ExchangeIsExclusive'
    BY <1>2 DEF Age, request, waiting, CacheInv, TypeOK, ExchangeIsExclusive
  <2>93. RefusedIsNeverHeld'
    BY <1>2 DEF Age, CacheInv, RefusedIsNeverHeld
  <2>94. Numbered'
    BY <1>2 DEF Age, request, CacheInv, Numbered
  <2> QED BY <2>91, <2>92, <2>93, <2>94 DEF CacheInv
<1>3. ASSUME NEW c \in Callers, NEW k \in {"read", "csrf"}, Begin(c, k)
      PROVE  CacheInv'
  <2>91. TypeOK'
    BY <1>3 DEF Begin, cache, waiting, CacheInv, TypeOK, Places, Kinds
  <2>92. ExchangeIsExclusive'
    BY <1>3 DEF Begin, cache, waiting, CacheInv, TypeOK, ExchangeIsExclusive
  <2>93. RefusedIsNeverHeld'
    BY <1>3 DEF Begin, cache, CacheInv, RefusedIsNeverHeld
  <2>94. Numbered'
    BY <1>3 DEF Begin, cache, CacheInv, Numbered
  <2> QED BY <2>91, <2>92, <2>93, <2>94 DEF CacheInv
<1>4. ASSUME NEW c \in Callers, Grant(c) PROVE CacheInv'
  <2>1. TakeRejected(c)
    BY <1>4 DEF Grant
  <2>2. token = "fresh" /\ generation \notin refused'
    BY <1>4, <2>1, RejectionTaken DEF Grant
  <2>3. /\ pc' \in [Callers -> Places]
        /\ kind' \in [Callers -> Kinds]
        /\ lease' \in [Callers -> Generations]
        /\ sends' \in [Callers -> Seq(Generations)]
        /\ \A d \in Callers : lease'[d] <= generation
        /\ pc' = [pc EXCEPT ![c] = "authenticated"] \/ pc' = [pc EXCEPT ![c] = "ended"]
    <3>1. CASE End(c)
      BY <3>1, EndTypes DEF CacheInv
    <3>2. CASE ~ AfterPost(c)
      <4>1. /\ lease' = [lease EXCEPT ![c] = generation]
            /\ pc' = [pc EXCEPT ![c] = "authenticated"]
            /\ kind' = kind /\ sends' = sends
        BY <1>4, <3>2 DEF Grant
      <4>2. pc' \in [Callers -> Places]
        BY <4>1 DEF CacheInv, TypeOK, Places
      <4>3. lease' \in [Callers -> Generations] /\ \A d \in Callers : lease'[d] <= generation
        BY <1>0, <4>1 DEF CacheInv, TypeOK, Numbered
      <4> QED BY <4>1, <4>2, <4>3 DEF CacheInv, TypeOK
    <3> QED BY <1>4, <3>1, <3>2 DEF Grant
  <2>91. TypeOK'
    BY <1>4, <2>1, <2>3, RejectionTaken DEF Grant, waiting, CacheInv, TypeOK
  <2>92. ExchangeIsExclusive'
    BY <1>4, <2>1, <2>3, RejectionTaken DEF Grant, waiting, CacheInv, TypeOK,
                                            ExchangeIsExclusive
  <2>93. RefusedIsNeverHeld'
    BY <1>4, <2>2 DEF Grant, RefusedIsNeverHeld
  <2>94. Numbered'
    BY <1>4, <2>1, <2>3, RejectionTaken DEF Grant, CacheInv, Numbered
  <2> QED BY <2>91, <2>92, <2>93, <2>94 DEF CacheInv
<1>5. ASSUME NEW c \in Callers, Join(c) PROVE CacheInv'
  <2>1. TakeRejected(c)
    BY <1>5 DEF Join
  <2>91. TypeOK'
    BY <1>5, <2>1, RejectionTaken DEF Join, request, CacheInv, TypeOK, Places
  <2>92. ExchangeIsExclusive'
    BY <1>5, <2>1, RejectionTaken DEF Join, request, CacheInv, TypeOK, ExchangeIsExclusive
  <2>93. RefusedIsNeverHeld'
    BY <1>5, <2>1, RejectionTaken DEF Join, RefusedIsNeverHeld
  <2>94. Numbered'
    BY <1>5, <2>1, RejectionTaken DEF Join, request, CacheInv, Numbered
  <2> QED BY <2>91, <2>92, <2>93, <2>94 DEF CacheInv
<1>6. ASSUME NEW c \in Callers, StartFlight(c) PROVE CacheInv'
  <2>1. TakeRejected(c)
    BY <1>6 DEF StartFlight
  <2>91. TypeOK'
    BY <1>6, <2>1, RejectionTaken DEF StartFlight, request, waiting, CacheInv, TypeOK, Places
  <2>92. ExchangeIsExclusive'
    BY <1>6, <2>1, RejectionTaken, CallerAssumption DEF StartFlight, waiting, CacheInv,
                                                        TypeOK, ExchangeIsExclusive
  <2>93. RefusedIsNeverHeld'
    BY <1>6 DEF StartFlight, RefusedIsNeverHeld
  <2>94. Numbered'
    BY <1>6, <2>1, RejectionTaken DEF StartFlight, request, CacheInv, Numbered
  <2> QED BY <2>91, <2>92, <2>93, <2>94 DEF CacheInv
<1>7. ASSUME NEW c \in Callers, Exhausted(c) PROVE CacheInv'
  <2>1. TakeRejected(c)
    BY <1>7 DEF Exhausted
  <2>2. End(c)
    BY <1>7 DEF Exhausted
  <2>91. TypeOK'
    BY <1>7, <2>1, <2>2, RejectionTaken, EndTypes DEF Exhausted, waiting, CacheInv, TypeOK
  <2>92. ExchangeIsExclusive'
    BY <1>7, <2>1, <2>2, RejectionTaken, EndTypes DEF Exhausted, waiting, CacheInv, TypeOK,
                                                      ExchangeIsExclusive
  <2>93. RefusedIsNeverHeld'
    BY <1>7 DEF Exhausted, RefusedIsNeverHeld
  <2>94. Numbered'
    BY <1>7, <2>1, <2>2, RejectionTaken, EndTypes DEF Exhausted, CacheInv, Numbered
  <2> QED BY <2>91, <2>92, <2>93, <2>94 DEF CacheInv
<1>8. ASSUME NEW c \in Callers, Install(c) PROVE CacheInv'
  <2>1. flight = c /\ flight # NoCaller /\ generation < MaxGeneration
    BY <1>8, CallerAssumption DEF Install, CacheInv, ExchangeIsExclusive, Numbered
  <2>2. generation + 1 \in Generations /\ generation + 1 # 0
    BY <1>0, <2>1, GenerationAssumption DEF Generations
  <2>3. refused \subseteq Nat /\ lease \in [Callers -> Nat] /\ rejected \in [Callers -> Nat]
    BY GenerationAssumption DEF CacheInv, TypeOK, Generations
  <2>4. generation + 1 \notin refused
    BY <1>0, <2>3 DEF CacheInv, Numbered
  <2>91. TypeOK'
    BY <1>8, <2>2 DEF Install, Broadcast, request, CacheInv, TypeOK, Places
  <2>92. ExchangeIsExclusive'
    BY <1>8, <2>1, CallerAssumption DEF Install, Broadcast, CacheInv, TypeOK,
                                        ExchangeIsExclusive
  <2>93. RefusedIsNeverHeld'
    BY <1>8, <2>4 DEF Install, RefusedIsNeverHeld
  <2>94. Numbered'
    BY <1>0, <1>8, <2>2, <2>3 DEF Install, request, CacheInv, Numbered
  <2> QED BY <2>91, <2>92, <2>93, <2>94 DEF CacheInv
<1>9. ASSUME NEW c \in Callers, ExchangeFails(c) PROVE CacheInv'
  <2>1. flight = c
    BY <1>9 DEF ExchangeFails, CacheInv, ExchangeIsExclusive
  <2>2. End(c)
    BY <1>9 DEF ExchangeFails
  <2>91. TypeOK'
    BY <1>9, <2>2, EndTypes DEF ExchangeFails, Broadcast, CacheInv, TypeOK
  <2>92. ExchangeIsExclusive'
    BY <1>9, <2>1, <2>2, CallerAssumption
       DEF End, ExchangeFails, Broadcast, CacheInv, TypeOK, ExchangeIsExclusive
  <2>93. RefusedIsNeverHeld'
    BY <1>9 DEF ExchangeFails, CacheInv, RefusedIsNeverHeld
  <2>94. Numbered'
    BY <1>9, <2>2, EndTypes DEF ExchangeFails, CacheInv, Numbered
  <2> QED BY <2>91, <2>92, <2>93, <2>94 DEF CacheInv
<1>10. ASSUME NEW c \in Callers, Wake(c) PROVE CacheInv'
  <2>1. /\ pc' \in [Callers -> Places]
        /\ kind' \in [Callers -> Kinds]
        /\ lease' \in [Callers -> Generations]
        /\ sends' \in [Callers -> Seq(Generations)]
        /\ \A d \in Callers : lease'[d] <= generation
        /\ pc' = [pc EXCEPT ![c] = "acquire"] \/ pc' = [pc EXCEPT ![c] = "ended"]
    <3>1. CASE End(c)
      BY <3>1, EndTypes DEF CacheInv
    <3>2. CASE UNCHANGED request /\ pc' = [pc EXCEPT ![c] = "acquire"]
      BY <3>2 DEF request, CacheInv, TypeOK, Numbered, Places
    <3> QED BY <1>10, <3>1, <3>2 DEF Wake
  <2>91. TypeOK'
    BY <1>10, <2>1 DEF Wake, Unsubscribe, cache, CacheInv, TypeOK
  <2>92. ExchangeIsExclusive'
    BY <1>10, <2>1 DEF Wake, Unsubscribe, cache, CacheInv, TypeOK, ExchangeIsExclusive
  <2>93. RefusedIsNeverHeld'
    BY <1>10 DEF Wake, cache, CacheInv, RefusedIsNeverHeld
  <2>94. Numbered'
    BY <1>10, <2>1 DEF Wake, cache, CacheInv, Numbered
  <2> QED BY <2>91, <2>92, <2>93, <2>94 DEF CacheInv
<1>11. ASSUME NEW c \in Callers, Send(c) PROVE CacheInv'
  <2>1. Append(sends[c], lease[c]) \in Seq(Generations)
    BY DEF CacheInv, TypeOK
  <2>91. TypeOK'
    BY <1>11, <2>1 DEF Send, cache, waiting, CacheInv, TypeOK, Places
  <2>92. ExchangeIsExclusive'
    BY <1>11 DEF Send, cache, waiting, CacheInv, TypeOK, ExchangeIsExclusive
  <2>93. RefusedIsNeverHeld'
    BY <1>11 DEF Send, cache, CacheInv, RefusedIsNeverHeld
  <2>94. Numbered'
    BY <1>11 DEF Send, cache, CacheInv, Numbered
  <2> QED BY <2>91, <2>92, <2>93, <2>94 DEF CacheInv
<1>12. ASSUME NEW c \in Callers, PostRefused(c) \/ AnsweredFinally(c) PROVE CacheInv'
  <2>1. End(c) /\ pc[c] \in {"authenticated", "sent"} /\ UNCHANGED <<cache, rejected, waiting>>
    BY <1>12 DEF PostRefused, AnsweredFinally
  <2>91. TypeOK'
    BY <2>1, EndTypes DEF cache, waiting, CacheInv, TypeOK
  <2>92. ExchangeIsExclusive'
    BY <2>1, EndTypes DEF cache, waiting, CacheInv, TypeOK, ExchangeIsExclusive
  <2>93. RefusedIsNeverHeld'
    BY <2>1 DEF cache, CacheInv, RefusedIsNeverHeld
  <2>94. Numbered'
    BY <2>1, EndTypes DEF cache, CacheInv, Numbered
  <2> QED BY <2>91, <2>92, <2>93, <2>94 DEF CacheInv
<1>13. ASSUME NEW c \in Callers, AnsweredUnauthorized(c) PROVE CacheInv'
  <2>91. TypeOK'
    BY <1>0, <1>13 DEF AnsweredUnauthorized, cache, waiting, CacheInv, TypeOK, Places
  <2>92. ExchangeIsExclusive'
    BY <1>13 DEF AnsweredUnauthorized, cache, waiting, CacheInv, TypeOK, ExchangeIsExclusive
  <2>93. RefusedIsNeverHeld'
    BY <1>13 DEF AnsweredUnauthorized, cache, CacheInv, RefusedIsNeverHeld
  <2>94. Numbered'
    BY <1>0, <1>13 DEF AnsweredUnauthorized, cache, CacheInv, TypeOK, Numbered
  <2> QED BY <2>91, <2>92, <2>93, <2>94 DEF CacheInv
<1>14. ASSUME NEW c \in Callers, NEW k \in {"post", "capture"}, TokenReadFor(c, k)
       PROVE  CacheInv'
  <2>1. <<>> \in Seq(Generations)
    OBVIOUS
  <2>91. TypeOK'
    BY <1>0, <1>14, <2>1 DEF TokenReadFor, cache, waiting, CacheInv, TypeOK, Places, Kinds
  <2>92. ExchangeIsExclusive'
    BY <1>14 DEF TokenReadFor, cache, waiting, CacheInv, TypeOK, ExchangeIsExclusive
  <2>93. RefusedIsNeverHeld'
    BY <1>14 DEF TokenReadFor, cache, CacheInv, RefusedIsNeverHeld
  <2>94. Numbered'
    BY <1>0, <1>14 DEF TokenReadFor, cache, CacheInv, TypeOK, Numbered
  <2> QED BY <2>91, <2>92, <2>93, <2>94 DEF CacheInv
<1>15. ASSUME NEW c \in Callers, DropOwner(c) PROVE CacheInv'
  <2>1. End(c)
    BY <1>15 DEF DropOwner
  <2>91. TypeOK'
    BY <1>15, <2>1, EndTypes DEF DropOwner, Broadcast, CacheInv, TypeOK
  <2>92. ExchangeIsExclusive'
    BY <1>15, <2>1, CallerAssumption
       DEF End, DropOwner, Broadcast, CacheInv, TypeOK, ExchangeIsExclusive
  <2>93. RefusedIsNeverHeld'
    BY <1>15 DEF DropOwner, RefusedIsNeverHeld
  <2>94. Numbered'
    BY <1>15, <2>1, EndTypes DEF DropOwner, CacheInv, Numbered
  <2> QED BY <2>91, <2>92, <2>93, <2>94 DEF CacheInv
<1>16. ASSUME NEW c \in Callers, DropWaiter(c) PROVE CacheInv'
  <2>1. End(c)
    BY <1>16 DEF DropWaiter
  <2>91. TypeOK'
    BY <1>16, <2>1, EndTypes DEF DropWaiter, Unsubscribe, cache, CacheInv, TypeOK
  <2>92. ExchangeIsExclusive'
    BY <1>16, <2>1, EndTypes DEF DropWaiter, Unsubscribe, cache, CacheInv, TypeOK,
                                 ExchangeIsExclusive
  <2>93. RefusedIsNeverHeld'
    BY <1>16 DEF DropWaiter, cache, CacheInv, RefusedIsNeverHeld
  <2>94. Numbered'
    BY <1>16, <2>1, EndTypes DEF DropWaiter, cache, CacheInv, Numbered
  <2> QED BY <2>91, <2>92, <2>93, <2>94 DEF CacheInv
<1> QED
  BY <1>1, <1>2, <1>3, <1>4, <1>5, <1>6, <1>7, <1>8, <1>9, <1>10, <1>11, <1>12, <1>13,
     <1>14, <1>15, <1>16 DEF Next, Step, TokenRead, CaptureTokenRead

LEMMA CacheInvariant == Spec => []CacheInv
BY CacheInit, CacheStep, PTL DEF Spec

(* The cache, its callers and what they sent stay within their types; in   *)
(* particular Install's unchecked `generation += 1` never passes the       *)
(* counter's limit, because the check was made before the flight opened.   *)
THEOREM CacheTypeCorrect == Spec => []TypeOK
<1>1. CacheInv => TypeOK
  BY DEF CacheInv
<1> QED BY <1>1, CacheInvariant, PTL

(* At most one exchange is in progress, it holds no token to fall back on, *)
(* and every caller still waiting waits for that exchange.                 *)
THEOREM CacheExchangeIsExclusive == Spec => []ExchangeIsExclusive
<1>1. CacheInv => ExchangeIsExclusive
  BY DEF CacheInv
<1> QED BY <1>1, CacheInvariant, PTL

(* A generation the author refused is never held again once acquire has    *)
(* been told.                                                              *)
THEOREM CacheRefusedIsNeverHeld == Spec => []RefusedIsNeverHeld
<1>1. CacheInv => RefusedIsNeverHeld
  BY DEF CacheInv
<1> QED BY <1>1, CacheInvariant, PTL

(* No step evicts a usable token but one that takes a refusal of that very *)
(* generation.                                                             *)
LEMMA KeptStep ==
    ASSUME CacheInv, [Next]_vars, token = "fresh", token' = "none"
    PROVE  \E c \in Callers : rejected[c] = generation /\ rejected'[c] = 0
<1>1. flight = NoCaller
  BY DEF CacheInv, ExchangeIsExclusive
<1>2. \A c \in Callers : pc[c] # "exchanging"
  BY <1>1, CallerAssumption DEF CacheInv, ExchangeIsExclusive
<1>3. ASSUME NEW c \in Callers, TakeRejected(c), AfterRejection(c) # "fresh"
      PROVE  rejected[c] = generation /\ rejected'[c] = 0
  BY <1>3 DEF AfterRejection, TakeRejected, CacheInv, TypeOK
<1>4. PICK c \in Callers : Step(c)
  BY DEF Next, Age, vars
<1>5. StartFlight(c) \/ Exhausted(c) \/ Join(c)
  BY <1>2, <1>4
     DEF Step, Begin, Grant, Install, ExchangeFails, Wake, Send, PostRefused,
         AnsweredUnauthorized, TokenRead, CaptureTokenRead, TokenReadFor, AnsweredFinally,
         DropOwner, DropWaiter, cache
<1> QED BY <1>3, <1>5 DEF StartFlight, Exhausted, Join

(* A usable token outlives stale leases, failed exchanges and dropped      *)
(* owners.                                                                 *)
THEOREM CacheUsableTokenIsKept == Spec => UsableTokenIsKept
<1>1. CacheInv /\ [Next]_vars
        => [token = "fresh" /\ token' = "none"
              => \E c \in Callers : rejected[c] = generation /\ rejected'[c] = 0]_vars
  BY KeptStep
<1> QED BY <1>1, CacheInvariant, PTL DEF Spec, UsableTokenIsKept

-----------------------------------------------------------------------------
(* What a request has sent, at each place it can be: on its way back to    *)
(* the wire, the generation it was refused under is either still to be     *)
(* presented to the cache or known to it as refused.                       *)
Paced(c) ==
    /\ pc[c] = "ended" => Len(sends[c]) = 0
    /\ pc[c] \in {"acquire", "exchanging", "joined"} =>
           /\ Len(sends[c]) \in {0, 1}
           /\ Len(sends[c]) = 1 =>
                  /\ sends[c][1] <= generation
                  /\ sends[c][1] # 0
                  /\ rejected[c] = sends[c][1] \/ sends[c][1] \in refused
    /\ pc[c] = "authenticated" =>
           /\ lease[c] # 0
           /\ Len(sends[c]) \in {0, 1}
           /\ kind[c] = "post" => Len(sends[c]) = 0
           /\ Len(sends[c]) = 1 => sends[c][1] < lease[c] /\ sends[c][1] \in refused
    /\ pc[c] = "sent" =>
           /\ lease[c] # 0
           /\ Len(sends[c]) \in {1, 2}
           /\ kind[c] = "post" => Len(sends[c]) = 1
           /\ Len(sends[c]) = 1 => sends[c][1] = lease[c]
           /\ Len(sends[c]) = 2 => sends[c][1] < sends[c][2] /\ sends[c][1] \in refused

RepeatInv == \A c \in Callers : Paced(c)

(* A request that a step does not touch keeps its pace: generations only   *)
(* grow and a refusal is never forgotten.                                  *)
LEMMA OthersPaced ==
    ASSUME CacheInv, CacheInv', NEW d \in Callers, Paced(d),
           pc'[d] = pc[d], kind'[d] = kind[d], lease'[d] = lease[d],
           rejected'[d] = rejected[d], sends'[d] = sends[d],
           generation <= generation', refused \subseteq refused'
    PROVE  Paced(d)'
<1>1. generation \in Nat /\ generation' \in Nat
  BY GenerationAssumption DEF CacheInv, TypeOK, Generations
<1>2. sends[d] \in Seq(Nat)
  BY GenerationAssumption DEF CacheInv, TypeOK, Generations
<1>3. Len(sends[d]) = 1 /\ sends[d][1] <= generation => sends[d][1] <= generation'
  <2> SUFFICES ASSUME Len(sends[d]) = 1, sends[d][1] <= generation
               PROVE  sends[d][1] <= generation'
    OBVIOUS
  <2>1. sends[d][1] \in Nat
    BY <1>2
  <2> QED BY <1>1, <2>1
<1> QED BY <1>3 DEF Paced

(* A request that ended has sent nothing.                                  *)
LEMMA EndPaced ==
    ASSUME TypeOK, NEW c \in Callers, End(c)
    PROVE  Paced(c)'
<1>1. pc'[c] = "ended" /\ sends'[c] = <<>>
  BY DEF End, TypeOK
<1> QED BY <1>1 DEF Paced

(* A granted token is newer than the one the request was refused under.    *)
LEMMA GrantPaced ==
    ASSUME CacheInv, NEW c \in Callers, Paced(c), Grant(c)
    PROVE  Paced(c)'
<1>1. CASE End(c)
  BY <1>1, EndPaced DEF CacheInv
<1>2. CASE ~ AfterPost(c)
  <2>1. /\ pc'[c] = "authenticated" /\ lease'[c] = generation
        /\ kind'[c] = kind[c] /\ sends'[c] = sends[c]
    BY <1>2 DEF Grant, CacheInv, TypeOK
  <2>2. pc[c] = "acquire" /\ AfterRejection(c) = "fresh"
    BY DEF Grant, TakeRejected
  <2>3. token = "fresh" /\ generation \notin refused /\ generation # 0
    BY <2>2 DEF AfterRejection, CacheInv, RefusedIsNeverHeld, Numbered
  <2>4. rejected[c] # 0 => rejected[c] # generation
    BY <2>2 DEF AfterRejection
  <2>5. Len(sends[c]) = 1 => sends[c][1] # generation /\ sends[c][1] <= generation
    BY <2>2, <2>3, <2>4 DEF Paced
  <2>6. generation \in Nat /\ sends[c] \in Seq(Nat)
    BY GenerationAssumption DEF CacheInv, TypeOK, Generations
  <2>7. Len(sends[c]) = 1 => sends[c][1] < generation
    <3> SUFFICES ASSUME Len(sends[c]) = 1 PROVE sends[c][1] < generation
      OBVIOUS
    <3>1. sends[c][1] \in Nat
      BY <2>6
    <3> QED BY <2>5, <2>6, <3>1
  <2>8. Len(sends[c]) \in {0, 1}
    BY <2>2 DEF Paced
  <2>9. kind[c] = "post" => Len(sends[c]) = 0
    BY <1>2, <2>6, <2>8 DEF AfterPost
  <2>10. Len(sends[c]) = 1 => sends[c][1] \in refused'
    BY <2>2 DEF Paced, Grant, TakeRejected
  <2> QED BY <2>1, <2>3, <2>7, <2>8, <2>9, <2>10 DEF Paced
<1> QED BY <1>1, <1>2 DEF Grant

(* In its loop a request keeps what it sent, and the refusal it takes out  *)
(* of its hand is on the cache's record.                                   *)
LEMMA LoopPaced ==
    ASSUME CacheInv, NEW c \in Callers, Paced(c), TakeRejected(c),
           pc'[c] \in {"exchanging", "joined"}, sends' = sends, generation' = generation
    PROVE  Paced(c)'
<1>1. pc[c] = "acquire" /\ rejected'[c] = 0
  BY DEF TakeRejected, CacheInv, TypeOK
<1>2. Len(sends[c]) = 1 => sends[c][1] \in refused'
  BY <1>1 DEF Paced, TakeRejected
<1> QED BY <1>1, <1>2 DEF Paced

(* A step of c changes the locals of c alone, numbers no generation twice  *)
(* and forgets no refusal.                                                 *)
LEMMA StepLocal ==
    ASSUME CacheInv, NEW c \in Callers, Step(c)
    PROVE  /\ \A d \in Callers \ {c} :
                  /\ pc'[d] = pc[d] /\ kind'[d] = kind[d] /\ lease'[d] = lease[d]
                  /\ rejected'[d] = rejected[d] /\ sends'[d] = sends[d]
           /\ generation <= generation'
           /\ refused \subseteq refused'
<1>1. generation \in Nat
  BY GenerationAssumption DEF CacheInv, TypeOK, Generations
<1>2. CASE \E k \in {"read", "csrf"} : Begin(c, k)
  BY <1>1, <1>2 DEF Begin, cache, waiting, CacheInv, TypeOK
<1>3. CASE Grant(c)
  <2>1. CASE End(c)
    BY <1>1, <1>3, <2>1 DEF Grant, TakeRejected, End, CacheInv, TypeOK
  <2>2. CASE ~ AfterPost(c)
    BY <1>1, <1>3, <2>2 DEF Grant, TakeRejected, CacheInv, TypeOK
  <2> QED BY <1>3, <2>1, <2>2 DEF Grant
<1>4. CASE Join(c) \/ StartFlight(c)
  BY <1>1, <1>4 DEF Join, StartFlight, TakeRejected, request, CacheInv, TypeOK
<1>5. CASE Exhausted(c)
  BY <1>1, <1>5 DEF Exhausted, TakeRejected, End, CacheInv, TypeOK
<1>6. CASE Install(c)
  BY <1>1, <1>6 DEF Install, request, CacheInv, TypeOK
<1>7. CASE ExchangeFails(c) \/ DropOwner(c)
  BY <1>1, <1>7 DEF ExchangeFails, DropOwner, End, CacheInv, TypeOK
<1>8. CASE Wake(c)
  <2>1. CASE End(c)
    BY <1>1, <1>8, <2>1 DEF Wake, End, cache, CacheInv, TypeOK
  <2>2. CASE UNCHANGED request /\ pc' = [pc EXCEPT ![c] = "acquire"]
    BY <1>1, <1>8, <2>2 DEF Wake, request, cache, CacheInv, TypeOK
  <2> QED BY <1>8, <2>1, <2>2 DEF Wake
<1>9. CASE Send(c)
  BY <1>1, <1>9 DEF Send, cache, CacheInv, TypeOK
<1>10. CASE PostRefused(c) \/ AnsweredFinally(c) \/ DropWaiter(c)
  BY <1>1, <1>10 DEF PostRefused, AnsweredFinally, DropWaiter, End, cache, CacheInv, TypeOK
<1>11. CASE AnsweredUnauthorized(c) \/ TokenRead(c) \/ CaptureTokenRead(c)
  BY <1>1, <1>11 DEF AnsweredUnauthorized, TokenRead, CaptureTokenRead, TokenReadFor, cache,
                     CacheInv, TypeOK
<1> QED
  BY <1>2, <1>3, <1>4, <1>5, <1>6, <1>7, <1>8, <1>9, <1>10, <1>11 DEF Step

(* The request that steps keeps its pace: one case for each action.        *)
LEMMA OwnPaced ==
    ASSUME CacheInv, CacheInv', NEW c \in Callers, Paced(c), Step(c)
    PROVE  Paced(c)'
<1>1. generation \in Nat /\ sends[c] \in Seq(Nat) /\ lease[c] \in Nat
  BY GenerationAssumption DEF CacheInv, TypeOK, Generations
<1>2. CASE \E k \in {"read", "csrf"} : Begin(c, k)
  <2>1. pc[c] = "ended" /\ pc'[c] = "acquire" /\ sends' = sends
    BY <1>2 DEF Begin, CacheInv, TypeOK
  <2> QED BY <2>1 DEF Paced
<1>3. CASE Grant(c)
  BY <1>3, GrantPaced
<1>4. CASE Join(c) \/ StartFlight(c)
  <2>1. /\ TakeRejected(c) /\ pc'[c] \in {"exchanging", "joined"}
        /\ sends' = sends /\ generation' = generation
    BY <1>4 DEF Join, StartFlight, request, CacheInv, TypeOK
  <2> QED BY <2>1, LoopPaced
<1>5. CASE End(c)
  BY <1>5, EndPaced DEF CacheInv
<1>6. CASE Install(c)
  <2>1. /\ pc[c] = "exchanging" /\ pc'[c] = "acquire" /\ generation' = generation + 1
        /\ sends' = sends /\ rejected' = rejected /\ refused' = refused
    BY <1>6 DEF Install, request, CacheInv, TypeOK
  <2>2. Len(sends[c]) = 1 => sends[c][1] <= generation + 1
    <3> SUFFICES ASSUME Len(sends[c]) = 1 PROVE sends[c][1] <= generation + 1
      OBVIOUS
    <3>1. sends[c][1] \in Nat /\ sends[c][1] <= generation
      BY <1>1, <2>1 DEF Paced
    <3> QED BY <1>1, <3>1
  <2> QED BY <2>1, <2>2 DEF Paced
<1>7. CASE Wake(c) /\ ~ End(c)
  <2>1. /\ pc[c] = "joined" /\ pc'[c] = "acquire" /\ generation' = generation
        /\ sends' = sends /\ rejected' = rejected /\ refused' = refused
    BY <1>7 DEF Wake, request, cache, CacheInv, TypeOK
  <2> QED BY <2>1 DEF Paced
<1>8. CASE Send(c)
  <2>1. /\ pc[c] = "authenticated" /\ pc'[c] = "sent" /\ kind' = kind /\ lease' = lease
        /\ sends'[c] = Append(sends[c], lease[c]) /\ refused' = refused
    BY <1>8 DEF Send, cache, CacheInv, TypeOK
  <2>2. /\ lease[c] # 0 /\ Len(sends[c]) \in {0, 1}
        /\ kind[c] = "post" => Len(sends[c]) = 0
        /\ Len(sends[c]) = 1 => sends[c][1] < lease[c] /\ sends[c][1] \in refused
    BY <2>1 DEF Paced
  <2>3. Len(sends'[c]) = Len(sends[c]) + 1
    BY <1>1, <2>1
  <2>4. Len(sends[c]) = 0 => sends'[c][1] = lease[c]
    BY <1>1, <2>1
  <2>5. Len(sends[c]) = 1 => sends'[c][1] = sends[c][1] /\ sends'[c][2] = lease[c]
    BY <1>1, <2>1
  <2> QED BY <2>1, <2>2, <2>3, <2>4, <2>5 DEF Paced
<1>9. CASE AnsweredUnauthorized(c)
  <2>1. /\ pc[c] = "sent" /\ pc'[c] = "acquire" /\ Len(sends[c]) = 1 /\ sends' = sends
        /\ rejected'[c] = lease[c] /\ generation' = generation
    BY <1>9 DEF AnsweredUnauthorized, MayRefresh, cache, CacheInv, TypeOK
  <2>2. sends[c][1] = lease[c] /\ lease[c] # 0 /\ lease[c] <= generation
    BY <2>1 DEF Paced, CacheInv, Numbered
  <2> QED BY <2>1, <2>2 DEF Paced
<1>10. CASE TokenRead(c) \/ CaptureTokenRead(c)
  <2>1. pc'[c] = "acquire" /\ sends'[c] = <<>>
    BY <1>10 DEF TokenRead, CaptureTokenRead, TokenReadFor, CacheInv, TypeOK
  <2> QED BY <2>1 DEF Paced
<1> QED
  BY <1>2, <1>3, <1>4, <1>5, <1>6, <1>7, <1>8, <1>9, <1>10
     DEF Step, Exhausted, ExchangeFails, PostRefused, AnsweredFinally, DropOwner, DropWaiter

(* Requests keep their pace, step by step.                                 *)
LEMMA RepeatStep == CacheInv /\ CacheInv' /\ RepeatInv /\ [Next]_vars => RepeatInv'
<1> SUFFICES ASSUME CacheInv, CacheInv', RepeatInv, [Next]_vars, NEW d \in Callers
             PROVE  Paced(d)'
  BY DEF RepeatInv
<1>0. Paced(d)
  BY DEF RepeatInv
<1>1. CASE UNCHANGED vars
  BY <1>0, <1>1 DEF vars, Paced
<1>2. CASE Age
  BY <1>0, <1>2 DEF Age, request, Paced
<1>3. ASSUME NEW c \in Callers, Step(c) PROVE Paced(d)'
  <2>1. CASE d = c
    BY <1>0, <1>3, <2>1, OwnPaced
  <2>2. CASE d # c
    BY <1>0, <1>3, <2>2, StepLocal, OthersPaced
  <2> QED BY <2>1, <2>2
<1> QED BY <1>1, <1>2, <1>3 DEF Next

(* A bounded request, whatever its method, is repeated at most once, after *)
(* the author refused the generation it went out under and under a newer   *)
(* one; the POST that submits a command is never repeated.                 *)
THEOREM CacheRepeatIsOnceAndNewer == Spec => []RepeatIsOnceAndNewer
<1>1. Init => RepeatInv
  BY DEF Init, RepeatInv, Paced
<1>2. CacheInv /\ RepeatInv => RepeatIsOnceAndNewer
  <2> SUFFICES ASSUME CacheInv, RepeatInv, NEW c \in Callers
               PROVE  /\ Len(sends[c]) <= (IF kind[c] = "post" THEN 1 ELSE 2)
                      /\ Len(sends[c]) = 2 =>
                             sends[c][1] < sends[c][2] /\ sends[c][1] \in refused
    BY DEF RepeatIsOnceAndNewer
  <2>0. Len(sends[c]) \in Nat
    BY DEF CacheInv, TypeOK
  <2>1. Paced(c) /\ pc[c] \in Places
    BY DEF RepeatInv, CacheInv, TypeOK
  <2>2. Len(sends[c]) \in {0, 1} \/ (pc[c] = "sent" /\ Len(sends[c]) = 2)
    BY <2>1 DEF Paced, Places
  <2>3. CASE Len(sends[c]) \in {0, 1}
    <3>1. CASE Len(sends[c]) = 0
      BY <3>1
    <3>2. CASE Len(sends[c]) = 1
      BY <3>2
    <3> QED BY <2>3, <3>1, <3>2
  <2>4. CASE pc[c] = "sent" /\ Len(sends[c]) = 2
    <3>1. kind[c] # "post" /\ sends[c][1] < sends[c][2] /\ sends[c][1] \in refused
      BY <2>1, <2>4 DEF Paced
    <3> QED BY <2>0, <2>4, <3>1
  <2> QED BY <2>2, <2>3, <2>4
<1> QED BY <1>1, <1>2, RepeatStep, CacheInvariant, PTL DEF Spec

=============================================================================
