---------------------------- MODULE MCCorrelation ----------------------------
(* Instances of Correlation for TLC, with the groups of Grouping. *)
EXTENDS Correlation, TLC

CONSTANTS e1, e2, e3, e4, e5

\* Telemetry of a laptop two users share, over 90 minutes: two clusters, and e3 that
\* bridges them and turns the case into an account takeover.
Telemetry == {e1, e2, e3, e4, e5}
Minutes == (e1 :> 0) @@ (e2 :> 5) @@ (e3 :> 45) @@ (e4 :> 90) @@ (e5 :> 90)
Users == [x \in Telemetry |-> IF x = e2 THEN "bob" ELSE "alice"]
OwnFlags == (e1 :> {"NEW_DEVICE"}) @@ (e2 :> {"OTHER"}) @@ (e3 :> {}) @@
            (e4 :> {"SENSITIVE_RESOURCE_ACCESS"}) @@ (e5 :> {"MASS_DOWNLOAD"})
Logins == {<<e1, e3>>}

Record(x) ==
  [time |-> Minutes[x], user |-> Users[x], host |-> "laptop", device |-> "laptop",
   source |-> IF x = e3 THEN "abroad" ELSE "office", destination |-> "none"]

\* They have a user, a host or an address in common.
RelatedEvents ==
  {x \in Telemetry \X Telemetry :
     \E f \in {"user", "host", "device", "source"} : Record(x[1])[f] = Record(x[2])[f]}

G == INSTANCE Grouping WITH
  Events <- Telemetry, Event <- [x \in Telemetry |-> Record(x)], None <- "none",
  CorrelationWindow <- 60, MinScore <- 5, MaxSpan <- 90, MinCohesion <- 5

Symmetric == Permutations(Pipelines)

AllBatches == {{e1, e2}, {e3}, {e4, e5}}

\* The groups of every set of events (the @@ has TLC tabulate them once).
GroupTable == [S \in SUBSET Telemetry |-> G!connected_groups(S)] @@ <<>>
ConnectedGroups == GroupTable
=============================================================================
