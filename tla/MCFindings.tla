----------------------------- MODULE MCFindings -----------------------------
(* What the repository says of the pipeline and its code does not do: each is  *)
(* a property that TLC refutes.                                                *)
EXTENDS Repair

\* recovery_start_index: "Only the resume endpoint can re-queue, so this never
\* auto-retries a failure."  A step whose failure is on record is sent again
\* only in an execution that came back through the queue.
FailureAwaitsHuman ==
  At("attempt") /\ ka.job = "step" /\ ka.att = 1
    /\ rows[ka.cur][ka.sid].st \in StepFailed
  => ka.requeued

\* The head of executor.py: a failure after the target was changed goes to the
\* non-terminal paused_for_review.  So an execution that ended without success,
\* and not by a human's abort, has changed nothing.
NoSilentDeath ==
  \A e \in Exec :
    status[e] \in {"blocked", "failed_retryable"} => applied[planOf[e]] = {}
=============================================================================
