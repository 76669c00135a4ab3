---------------------------- MODULE RunnerCatalog ----------------------------
(***************************************************************************)
(* The catalogue that turns a service and an operation into a command, its *)
(* probes and its permission manifest, and the predicate by which Layer 2  *)
(* and the On-Device Agent decide whether a manifest lets a command run.   *)
(*                                                                         *)
(* An argv is kept as far as commands are told apart by it: the commands   *)
(* that start with the same words share a prefix here.  A path is the      *)
(* sequence of its names, and the root is the empty one.                   *)
(***************************************************************************)
EXTENDS Naturals, Sequences, SequencesExt

Service == {"nginx", "postgresql", "redis", "mysql"}

\* An operation is a pair of a service and a name.
Named(names) == Service \X names

Probes ==
  Named({"status"})
    \cup {<<"nginx", "config_test">>, <<"nginx", "http_check">>, <<"redis", "ping">>}
    \cup {<<"postgresql", "connection_test">>, <<"mysql", "connection_test">>}

Mutations ==
  Named({"reload", "restore_config", "ensure_snapshot"})
    \cup {<<"nginx", "start">>} \cup ({"postgresql", "redis", "mysql"} \X {"restart"})

Operation == Probes \cup Mutations

Root == <<>>
DevNull == <<"dev", "null">>
Etc(s) == <<"etc", s>>
Snapshots(s) == <<"var", "lib", "aads-agent", "snapshots", s>>

NullArg == "/dev/null"

\* Every other operation has a program of its own.
Argv(o) ==
  CASE o[2] = "status"     -> <<"systemctl", "is-active", o[1]>>
    [] o[2] = "http_check" -> <<"curl", "-o", NullArg>>
    [] OTHER               -> <<"own", o[1], o[2]>>

Timeout(o) ==
  CASE o[2] = "config_test"    -> 15
    [] o[2] = "restore_config" -> 60
    [] o \in {<<"postgresql", "restart">>, <<"mysql", "restart">>} -> 60
    [] o \in Probes            -> 10
    [] OTHER                   -> 30

\* runner_for: cwd is "/", and env is empty.
RunnerFor(o) ==
  [argv    |-> Argv(o),
   root    |-> o \in Mutations \cup {<<"nginx", "config_test">>},
   effect  |-> IF o \in Probes THEN "read" ELSE "mutate",
   timeout |-> Timeout(o),
   cwd     |-> Root,
   env     |-> FALSE]

FinalProbe(s) ==
  <<s, CASE s = "nginx" -> "http_check" [] s = "redis" -> "ping" [] OTHER -> "connection_test">>

\* The probe after a step; for an operation without one, that of the nginx
\* configuration.
VerificationFor(o) ==
  CASE o = <<"nginx", "start">> -> <<"nginx", "status">>
    [] o[1] # "nginx" /\ o[2] \in {"restart", "reload", "restore_config"} -> FinalProbe(o[1])
    [] OTHER -> <<"nginx", "config_test">>

\* primary_service, and final_verification_for, which has the same order.
PrimaryService(services) ==
  LET order == <<"postgresql", "redis", "mysql", "nginx">>
  IN order[CHOOSE i \in 1 .. 4 :
             order[i] \in services /\ \A j \in 1 .. i - 1 : order[j] \notin services]

-----------------------------------------------------------------------------
(* The permission manifest *)

PathPermissions(s) ==
  [path : {Etc(s), Snapshots(s)}, mode : {{"r", "w"}}]
    \cup IF s = "nginx" THEN {[path |-> DevNull, mode |-> {"w"}]} ELSE {}

Permission(runner, argv, extra) ==
  [argv |-> argv, extra |-> extra, root |-> runner.root, effect |-> runner.effect,
   timeout |-> runner.timeout]

\* Mutant: pins the program and its first argument, and lets the rest go.
ExecutionProfileForBug(ops, services) ==
  [commands |-> [i \in DOMAIN ops |->
                   Permission(RunnerFor(ops[i]), SubSeq(Argv(ops[i]), 1, 2), TRUE)],
   paths    |-> UNION {PathPermissions(s) : s \in services}]

\* One permission for each command of the plan, its argv pinned to the last
\* word.  Commands of the same key have the same timeout here, so their merger
\* changes nothing.
ExecutionProfileFor(ops, services) ==
  [commands |-> [i \in DOMAIN ops |->
                   Permission(RunnerFor(ops[i]), Argv(ops[i]), FALSE)],
   paths    |-> UNION {PathPermissions(s) : s \in services}]

Matches(perm, argv) ==
  IsPrefix(perm.argv, argv) /\ (perm.extra \/ Len(argv) = Len(perm.argv))

\* _covered: the path itself or one below it; without a mode any will do.
Grants(paths, path, mode) ==
  \E perm \in paths : IsPrefix(perm.path, path) /\ mode \subseteq perm.mode

StartsIn(profile, cwd) ==
  /\ \A i \in DOMAIN cwd : cwd[i] # ".."
  /\ cwd = Root \/ Grants(profile.paths, cwd, {"r"})

PathArgs(argv) == IF NullArg \in {argv[i] : i \in 2 .. Len(argv)} THEN {DevNull} ELSE {}

\* profile_allows: the first permission that matches decides.
ProfileAllows(profile, runner) ==
  /\ \E i \in DOMAIN profile.commands :
       LET perm == profile.commands[i]
       IN /\ Matches(perm, runner.argv)
          /\ \A j \in 1 .. i - 1 : ~Matches(profile.commands[j], runner.argv)
          /\ runner.root = perm.root
          /\ runner.effect = perm.effect
          /\ runner.timeout <= perm.timeout
  /\ StartsIn(profile, runner.cwd)
  /\ \A path \in PathArgs(runner.argv) : Grants(profile.paths, path, {})
  /\ ~runner.env

-----------------------------------------------------------------------------
(* For the properties of a manifest *)

\* In a directory of one of the services, or in the root.
AtHome(place, services) ==
  \/ place = Root
  \/ /\ \A i \in DOMAIN place : place[i] # ".."
     /\ \E s \in services : IsPrefix(Etc(s), place) \/ IsPrefix(Snapshots(s), place)
==============================================================================
