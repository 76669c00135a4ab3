------------------------------ MODULE MCAnalysis ------------------------------
(* Two services.  A web server whose lines have a container, and a database      *)
(* whose lines come from a file and have none; the lines of nginx may come from  *)
(* a file too, and a line of the container may name no service at all.           *)
EXTENDS Analysis

Row(container, service, seen, config, time) ==
  [container |-> container, service |-> service, seen |-> seen, config |-> config,
   time |-> time]

MCAnomaly ==
  {Row("web", "nginx", {"nginx"}, FALSE, 0), Row("web", "nginx", {"nginx"}, FALSE, 3),
   Row("web", "app", {}, FALSE, 1),
   Row(NoContainer, "nginx", {"nginx"}, FALSE, 1),
   Row(NoContainer, "postgresql", {"postgresql"}, TRUE, 0)}

\* Up to three rows, and four that make two clusters.
MCBatch ==
  BoundedSeq(MCAnomaly, 3)
    \cup {<<Row("web", "nginx", {"nginx"}, FALSE, 0), Row("web", "app", {}, FALSE, 1),
           Row(NoContainer, "postgresql", {"postgresql"}, TRUE, 0),
           Row(NoContainer, "postgresql", {"postgresql"}, TRUE, 0)>>}

\* A repair of its own; one of a service that may not have been observed; one
\* that is not in the catalogue; and one whose repair is not an Execute step.
MCDraft ==
  {[execute |-> <<<<"nginx", "reload">>, <<"nginx", "status">>>>, aside |-> {}],
   [execute |-> <<<<"postgresql", "restart">>>>, aside |-> {<<"nginx", "start">>}],
   [execute |-> <<<<"nginx", "restart">>>>, aside |-> {}]}

MCSettings ==
  {[test |-> TRUE, force |-> FALSE, reuse |-> TRUE],
   [test |-> TRUE, force |-> TRUE, reuse |-> FALSE],
   [test |-> FALSE, force |-> FALSE, reuse |-> TRUE]}
==============================================================================
