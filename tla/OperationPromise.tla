--------------------------- MODULE OperationPromise ---------------------------
(***************************************************************************)
(* What the daemon promises about one admitted operation, whatever crashes,  *)
(* timeouts and retries happen on the way (ARCHITECTURE.md; the headers of   *)
(* service/scheduler.rs and operation/remote_submission.rs).  The command    *)
(* leaves the daemon at most once.  The verdict claims what the author made  *)
(* known and no more: non-execution only of work that will never run,        *)
(* success only of work that succeeded, and proven success is never taken    *)
(* back, though its result may be lost.                                      *)
(***************************************************************************)

VARIABLES sent,     \* the command has left the daemon
          ran,      \* what became of it at the author
          verdict   \* what the durable row says

vars == <<sent, ran, verdict>>

Ran == {"no", "never", "running", "done", "failed", "no_effect"}
Verdict == {"pending", "proven", "succeeded", "unavailable", "not_executed", "failed", "unknown"}

Init == sent = FALSE /\ ran = "no" /\ verdict = "pending"

Send == ~sent /\ verdict = "pending" /\ sent' = TRUE /\ UNCHANGED <<ran, verdict>>

\* The author may run a command it received long after the daemon gave up on it.
Arrive == sent /\ ran = "no" /\ ran' \in {"running", "never"} /\ UNCHANGED <<sent, verdict>>

Finish == ran = "running" /\ ran' \in {"done", "failed", "no_effect"}
          /\ UNCHANGED <<sent, verdict>>

WillNotRun == (~sent /\ ran = "no") \/ ran \in {"never", "no_effect"}

Justified(v) ==
    \/ v = "unknown"      /\ verdict = "pending"
    \/ v = "not_executed" /\ verdict = "pending" /\ WillNotRun
    \/ v = "failed"       /\ verdict = "pending" /\ ran = "failed"
    \/ v = "proven"       /\ verdict = "pending" /\ ran = "done"
    \/ v \in {"succeeded", "unavailable"} /\ verdict = "proven"

Conclude == \E v \in Verdict : Justified(v) /\ verdict' = v /\ UNCHANGED <<sent, ran>>

Next == Send \/ Arrive \/ Finish \/ Conclude

Spec == Init /\ [][Next]_vars
=============================================================================
