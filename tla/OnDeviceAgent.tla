---------------------------- MODULE OnDeviceAgent ----------------------------
(***************************************************************************)
(* What the On-Device Agent answers to one command: its hooks first, the   *)
(* PolicyCard and then the AuditHook, and after them the command runner.   *)
(***************************************************************************)
EXTENDS RunnerCatalog

\* PolicyCard.before_run in the mode of AADS_POLICY_MODE.
BeforeRun(mode, profile, runner) ==
  IF ProfileAllows(profile, runner) THEN "allow"
  ELSE IF mode = "audit" THEN "warn" ELSE "deny"

Decisions(mode, profile, runner) == <<BeforeRun(mode, profile, runner), "allow">>

\* CommandRunner.run: the exit code of the command, or its time is up.
RunnerAnswers == {"success", "failed", "timeout"}

\* run_command: the first hook that denies ends it, and a warning is what the
\* answer shows of the hooks.
RunCommand(mode, profile, runner) ==
  LET hooks == Decisions(mode, profile, runner)
  IN IF Contains(hooks, "deny")
     THEN {[status |-> "blocked", hook |-> "deny", retryable |-> FALSE]}
     ELSE {[status |-> s,
            hook |-> IF Contains(hooks, "warn") THEN "warn" ELSE Last(hooks),
            retryable |-> s # "success"] : s \in RunnerAnswers}
==============================================================================
