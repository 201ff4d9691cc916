----------------------- MODULE AsyncAccessTokenCache -----------------------
(***************************************************************************)
(* The cache of one cloud access token that every request of one daemon    *)
(* shares (async_access_token_cache.rs), and the requests that use it:     *)
(* bounded requests of any method, which are repeated once after a refused *)
(* token (selected_author_authenticated_read.rs), among them the POST that *)
(* captures a high-water mark (subscription_high_water.rs), and job        *)
(* submissions, whose POST is not repeated (selected_author_submission.rs).*)
(*                                                                         *)
(* The mutex is held only for memory transitions, so each locked section   *)
(* is one step and callers interleave at every await.  A future can be     *)
(* dropped at each await.  A flight is named by the caller that owns it:   *)
(* a caller owns one flight at a time, and what a flight broadcasts is     *)
(* written straight to the callers that joined it.                         *)
(***************************************************************************)
EXTENDS Naturals, Sequences, FiniteSets

CONSTANTS
    Callers,        \* the tasks that authenticate through this cache
    NoCaller,       \* no flight is open
    MaxGeneration   \* the largest generation the counter holds (u64::MAX)

ASSUME CallerAssumption == NoCaller \notin Callers
ASSUME GenerationAssumption == MaxGeneration \in Nat

VARIABLES
    token,       \* State.token, and whether refresh_required holds of it now
    generation,  \* State.generation
    flight,      \* State.flight, by its owner
    pc,          \* where each caller's request stands
    kind,        \* the request: a read, a token read, one of the two POSTs
    rejected,    \* acquire's `rejected`, 0 for None
    lease,       \* generation of the lease the request holds, 0 for none
    joined,      \* the flight a waiting caller subscribed to
    news,        \* what that flight has broadcast to it
    sends,       \* generations under which the current request was sent
    refused      \* every generation acquire was told the author refused

cache   == <<token, generation, flight, refused>>
waiting == <<joined, news>>
request == <<kind, lease, sends>>
vars    == <<token, generation, flight, pc, kind, rejected, lease,
             joined, news, sends, refused>>

-----------------------------------------------------------------------------
Generations == 0 .. MaxGeneration

(* A POST needs a read of a cross-site token ("csrf") first: then comes a  *)
(* submission's "post", or the "capture" of a high-water mark.             *)
Kinds == {"read", "csrf", "post", "capture"}

(* "acquire" is a caller about to lock the cell in acquire's loop. *)
Places == {"ended", "acquire", "exchanging", "joined", "authenticated", "sent"}

TypeOK ==
    /\ token \in {"none", "fresh", "due"}
    /\ generation \in Generations
    /\ flight \in Callers \cup {NoCaller}
    /\ pc \in [Callers -> Places]
    /\ kind \in [Callers -> Kinds]
    /\ rejected \in [Callers -> Generations]
    /\ lease \in [Callers -> Generations]
    /\ joined \in [Callers -> Callers \cup {NoCaller}]
    /\ news \in [Callers -> {"pending", "completed", "failed"}]
    /\ sends \in [Callers -> Seq(Generations)]
    /\ refused \in SUBSET Generations

Init ==
    /\ token = "none"
    /\ generation = 0
    /\ flight = NoCaller
    /\ pc = [c \in Callers |-> "ended"]
    /\ kind = [c \in Callers |-> "read"]
    /\ rejected = [c \in Callers |-> 0]
    /\ lease = [c \in Callers |-> 0]
    /\ joined = [c \in Callers |-> NoCaller]
    /\ news = [c \in Callers |-> "pending"]
    /\ sends = [c \in Callers |-> <<>>]
    /\ refused = {}

-----------------------------------------------------------------------------
(* A request begins with its initial authentication.                       *)
Begin(c, k) ==
    /\ pc[c] = "ended"
    /\ pc' = [pc EXCEPT ![c] = "acquire"]
    /\ kind' = [kind EXCEPT ![c] = k]
    /\ UNCHANGED <<cache, rejected, lease, waiting, sends>>

(* The request's future is finished or dropped, and its locals with it.    *)
End(c) ==
    /\ pc' = [pc EXCEPT ![c] = "ended"]
    /\ kind' = [kind EXCEPT ![c] = "read"]
    /\ lease' = [lease EXCEPT ![c] = 0]
    /\ sends' = [sends EXCEPT ![c] = <<>>]

\* Slip: the refusal is not held against the current generation.
AfterRejectionForgotten(c) == token

(* The token a locked section goes on with: the refused generation is      *)
(* dropped if it is still the current one.                                 *)
AfterRejection(c) ==
    IF rejected[c] # 0 /\ rejected[c] = generation THEN "none" ELSE token

\* Slip: the token refreshed after a POST sends it once more.
AfterPostNever(c) == FALSE

(* The POST is out: what refresh_after_unauthorized returns is discarded.  *)
AfterPost(c) == kind[c] = "post" /\ sends[c] # <<>>

(* rejected.take(), which every locked section of acquire begins with.     *)
TakeRejected(c) ==
    /\ pc[c] = "acquire"
    /\ rejected' = [rejected EXCEPT ![c] = 0]
    /\ refused' = refused \cup ({rejected[c]} \ {0})

(* Acquire returns a token that needs no refresh, and a lease on it.  The  *)
(* refresh after a POST only prepares later requests: its token is unused. *)
Grant(c) ==
    /\ TakeRejected(c)
    /\ AfterRejection(c) = "fresh"
    /\ \/ /\ ~ AfterPost(c)
          /\ lease' = [lease EXCEPT ![c] = generation]
          /\ pc' = [pc EXCEPT ![c] = "authenticated"]
          /\ UNCHANGED <<kind, sends>>
       \/ /\ AfterPost(c)
          /\ End(c)
    /\ UNCHANGED <<token, generation, flight, waiting>>

(* No usable token and a flight is open: subscribe to it.  The channel     *)
(* holds its value, so subscribing late loses nothing.                     *)
Join(c) ==
    /\ TakeRejected(c)
    /\ AfterRejection(c) # "fresh"
    /\ flight # NoCaller
    /\ token' = AfterRejection(c)
    /\ joined' = [joined EXCEPT ![c] = flight]
    /\ news' = [news EXCEPT ![c] = "pending"]
    /\ pc' = [pc EXCEPT ![c] = "joined"]
    /\ UNCHANGED <<generation, flight, request>>

\* Slip: the token that is due stays in place while its successor is fetched.
StartFlightKeepingToken(c) ==
    /\ TakeRejected(c)
    /\ AfterRejection(c) # "fresh"
    /\ flight = NoCaller
    /\ generation < MaxGeneration
    /\ token' = AfterRejection(c)
    /\ flight' = c
    /\ pc' = [pc EXCEPT ![c] = "exchanging"]
    /\ UNCHANGED <<generation, request, waiting>>

\* Slip: a flight opens although its token could not be numbered.
StartFlightUnnumbered(c) ==
    /\ TakeRejected(c)
    /\ AfterRejection(c) # "fresh"
    /\ flight = NoCaller
    /\ token' = "none"
    /\ flight' = c
    /\ pc' = [pc EXCEPT ![c] = "exchanging"]
    /\ UNCHANGED <<generation, request, waiting>>

(* No usable token and no flight: drop what is held and open a flight.     *)
StartFlight(c) ==
    /\ TakeRejected(c)
    /\ AfterRejection(c) # "fresh"
    /\ flight = NoCaller
    /\ generation < MaxGeneration
    /\ token' = "none"
    /\ flight' = c
    /\ pc' = [pc EXCEPT ![c] = "exchanging"]
    /\ UNCHANGED <<generation, request, waiting>>

(* The same with no generation left: refused before any exchange.          *)
Exhausted(c) ==
    /\ TakeRejected(c)
    /\ AfterRejection(c) # "fresh"
    /\ flight = NoCaller
    /\ generation = MaxGeneration
    /\ token' = "none"
    /\ End(c)
    /\ UNCHANGED <<generation, flight, waiting>>

(* completed.send_replace: every caller subscribed to c's flight is told.  *)
Broadcast(c, result) ==
    [w \in Callers |-> IF pc[w] = "joined" /\ joined[w] = c THEN result ELSE news[w]]

(* The exchange returned a token with life left: it is the next            *)
(* generation, and the owner goes round its loop to take it.               *)
Install(c) ==
    /\ pc[c] = "exchanging"
    /\ generation' = generation + 1
    /\ token' = "fresh"
    /\ flight' = NoCaller
    /\ news' = Broadcast(c, "completed")
    /\ pc' = [pc EXCEPT ![c] = "acquire"]
    /\ UNCHANGED <<rejected, request, joined, refused>>

(* The exchange failed, or its token already needs refreshing: nothing is  *)
(* installed and every joined caller shares the failure.                   *)
ExchangeFails(c) ==
    /\ pc[c] = "exchanging"
    /\ flight' = NoCaller
    /\ news' = Broadcast(c, "failed")
    /\ End(c)
    /\ UNCHANGED <<token, generation, rejected, joined, refused>>

(* The caller lets go of its receiver.                                     *)
Unsubscribe(c) ==
    /\ joined' = [joined EXCEPT ![c] = NoCaller]
    /\ news' = [news EXCEPT ![c] = "pending"]

(* A joined caller reads the flight's result: it goes round its loop, or   *)
(* fails with the flight.                                                  *)
Wake(c) ==
    /\ pc[c] = "joined"
    /\ \/ /\ news[c] = "completed"
          /\ pc' = [pc EXCEPT ![c] = "acquire"]
          /\ UNCHANGED request
       \/ /\ news[c] = "failed"
          /\ End(c)
    /\ Unsubscribe(c)
    /\ UNCHANGED <<cache, rejected>>

-----------------------------------------------------------------------------
(* The request goes out under the lease it holds.  before_post runs only   *)
(* now, after all the authentication a POST needs.                         *)
Send(c) ==
    /\ pc[c] = "authenticated"
    /\ pc' = [pc EXCEPT ![c] = "sent"]
    /\ sends' = [sends EXCEPT ![c] = Append(@, lease[c])]
    /\ UNCHANGED <<cache, kind, rejected, lease, waiting>>

(* before_post, or the check of the submission after it, refuses.          *)
PostRefused(c) ==
    /\ pc[c] = "authenticated"
    /\ kind[c] = "post"
    /\ End(c)
    /\ UNCHANGED <<cache, rejected, waiting>>

(* A 401 refreshes once: before the one repeat of a bounded request, or    *)
(* after a submission's POST, for whoever comes next.                      *)
MayRefresh(c) == Len(sends[c]) = 1

AnsweredUnauthorized(c) ==
    /\ pc[c] = "sent"
    /\ MayRefresh(c)
    /\ pc' = [pc EXCEPT ![c] = "acquire"]
    /\ rejected' = [rejected EXCEPT ![c] = lease[c]]
    /\ lease' = [lease EXCEPT ![c] = 0]
    /\ UNCHANGED <<cache, kind, waiting, sends>>

(* The token read was answered with a token: authenticate anew for the     *)
(* POST that k says.                                                       *)
TokenReadFor(c, k) ==
    /\ pc[c] = "sent"
    /\ kind[c] = "csrf"
    /\ kind' = [kind EXCEPT ![c] = k]
    /\ sends' = [sends EXCEPT ![c] = <<>>]
    /\ lease' = [lease EXCEPT ![c] = 0]
    /\ pc' = [pc EXCEPT ![c] = "acquire"]
    /\ UNCHANGED <<cache, rejected, waiting>>

TokenRead(c) == TokenReadFor(c, "post")

(* capture_high_water_authenticated_async, with its own bounded POST.      *)
CaptureTokenRead(c) == TokenReadFor(c, "capture")

(* Any other answer, a second 401 and a transport failure end the request. *)
AnsweredFinally(c) ==
    /\ pc[c] = "sent"
    /\ End(c)
    /\ UNCHANGED <<cache, rejected, waiting>>

\* Slip: a dropped owner closes its flight and tells nobody.
DropOwnerSilently(c) ==
    /\ pc[c] = "exchanging"
    /\ flight = c
    /\ flight' = NoCaller
    /\ token' = "none"
    /\ End(c)
    /\ UNCHANGED <<generation, rejected, waiting, refused>>

(* FlightOwner::drop: an owner dropped with its flight still open closes   *)
(* it, leaves no token and fails everyone who joined it.                   *)
DropOwner(c) ==
    /\ pc[c] = "exchanging"
    /\ flight = c
    /\ flight' = NoCaller
    /\ token' = "none"
    /\ news' = Broadcast(c, "failed")
    /\ End(c)
    /\ UNCHANGED <<generation, rejected, joined, refused>>

(* A future dropped at any other await ends without a trace in the cache.  *)
DropWaiter(c) ==
    /\ pc[c] \in {"joined", "sent"}
    /\ End(c)
    /\ Unsubscribe(c)
    /\ UNCHANGED <<cache, rejected>>

(* The monotonic clock reaches the token's deadline less the refresh skew. *)
Age ==
    /\ token = "fresh"
    /\ token' = "due"
    /\ UNCHANGED <<generation, flight, pc, request, rejected, waiting, refused>>

Step(c) ==
    \/ \E k \in {"read", "csrf"} : Begin(c, k)
    \/ Grant(c)
    \/ Join(c)
    \/ StartFlight(c)
    \/ Exhausted(c)
    \/ Install(c)
    \/ ExchangeFails(c)
    \/ Wake(c)
    \/ Send(c)
    \/ PostRefused(c)
    \/ AnsweredUnauthorized(c)
    \/ TokenRead(c)
    \/ CaptureTokenRead(c)
    \/ AnsweredFinally(c)
    \/ DropOwner(c)
    \/ DropWaiter(c)

Next == Age \/ \E c \in Callers : Step(c)

Spec == Init /\ [][Next]_vars

(***************************************************************************)
(* An exchange is bounded by the client's deadlines, a broadcast wakes its *)
(* receivers and the runtime polls woken tasks; nothing makes the author   *)
(* answer, a caller begin, or a future be dropped.                         *)
(***************************************************************************)
Fairness ==
    \A c \in Callers :
        /\ WF_vars(Install(c) \/ ExchangeFails(c))
        /\ WF_vars(Wake(c))

FairSpec == Spec /\ Fairness

-----------------------------------------------------------------------------
(***************************************************************************)
(* Properties.                                                             *)
(***************************************************************************)

(* One cache has at most one exchange in progress, and that exchange owns  *)
(* the cache: while it runs no token is held, so nothing that goes wrong   *)
(* with it (a failure, a dropped owner) can leave an old token to fall     *)
(* back on.  Whatever a caller waits for is either that exchange or one    *)
(* that has already told it how it ended.                                  *)
ExchangeIsExclusive ==
    /\ \A c \in Callers : pc[c] = "exchanging" <=> flight = c
    /\ flight # NoCaller => token = "none"
    /\ \A c \in Callers :
           pc[c] = "joined" /\ news[c] = "pending"
               => joined[c] = flight /\ flight # NoCaller

(* Once acquire has been told that the author refused a generation, no     *)
(* token of that generation is held again, whatever flights fail, are      *)
(* dropped or succeed meanwhile: nobody is served a refused token.         *)
RefusedIsNeverHeld ==
    token # "none" => generation \notin refused

(* A bounded request, also the POST of a capture, is repeated at most      *)
(* once, after the author refused the generation it went out under, and    *)
(* then under a newer one; the POST that submits a command is sent at most *)
(* once, whatever the refresh after it brings.                             *)
RepeatIsOnceAndNewer ==
    \A c \in Callers :
        /\ Len(sends[c]) <= (IF kind[c] = "post" THEN 1 ELSE 2)
        /\ Len(sends[c]) = 2 => sends[c][1] < sends[c][2] /\ sends[c][1] \in refused

(* A usable token is thrown away only for a caller that holds a refusal of *)
(* that very generation: a stale lease, a dropped owner or a failed        *)
(* exchange never evicts what somebody else just installed.                *)
UsableTokenIsKept ==
    [][token = "fresh" /\ token' = "none"
          => \E c \in Callers : rejected[c] = generation /\ rejected'[c] = 0]_vars

(* Every caller that joined a flight is released from it, also when the    *)
(* flight's owner is dropped in mid-exchange.                              *)
JoinedAreReleased ==
    \A c \in Callers : pc[c] = "joined" ~> pc[c] # "joined"
=============================================================================
