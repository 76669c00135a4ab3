------------------------------ MODULE Lifecycle ------------------------------
(***************************************************************************)
(* What the Gate and the Knowledge Agent together promise about the status *)
(* of an execution: it is queued once, claimed, and then ends, or pauses   *)
(* until a human lets it be queued again or aborts it.  What has ended     *)
(* stays as it is.  Repair implements it when requests come one at a time. *)
(***************************************************************************)
CONSTANT Exec

VARIABLE status

Init == status = [e \in Exec |-> "none"]

Edge ==
  {<<"none", "queued">>, <<"queued", "executing">>,
   <<"executing", "final_verifying">>, <<"final_verifying", "final_verified">>,
   <<"final_verified", "kb_done">>,
   <<"paused_for_review", "queued">>, <<"paused_for_review", "execution_failed">>}
    \cup ({"executing", "final_verifying"}
            \X {"paused_for_review", "blocked", "failed_retryable"})

Move(e, to) ==
  /\ <<status[e], to>> \in Edge
  /\ status' = [status EXCEPT ![e] = to]

Next == \E e \in Exec, edge \in Edge : Move(e, edge[2])

Spec == Init /\ [][Next]_status
==============================================================================
