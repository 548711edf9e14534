----------------------------- MODULE MCDetection -----------------------------
(* An instance of Detection for TLC: two hours of two users' telemetry. *)
EXTENDS Detection

Blank ==
  [kind |-> "authentication", time |-> 0, user |-> "alice", host |-> "laptop",
   device |-> "laptop", source |-> "home", destination |-> "none", country |-> "US",
   success |-> TRUE, denied |-> FALSE, trusted |-> TRUE, traits |-> {}]

\* Logins from two countries; denied prompts of a new device; two privileged
\* actions, the last in sight of the second login but not of the first; and bob's
\* download, with a transfer from the laptop to the address it came from.
Telemetry ==
  << [Blank EXCEPT !.time = 0],
     [Blank EXCEPT !.time = 50, !.country = "FR", !.source = "abroad"],
     [Blank EXCEPT !.time = 55, !.country = "FR", !.source = "abroad"],
     [Blank EXCEPT !.time = 60, !.success = FALSE, !.denied = TRUE, !.trusted = FALSE],
     [Blank EXCEPT !.time = 64, !.success = FALSE, !.denied = TRUE, !.trusted = FALSE],
     [Blank EXCEPT !.time = 70, !.success = FALSE, !.denied = TRUE, !.trusted = FALSE],
     [Blank EXCEPT !.kind = "cloud", !.time = 108, !.traits = {"privileged"}],
     [Blank EXCEPT !.kind = "cloud", !.time = 60, !.user = "bob", !.host = "none",
        !.device = "none", !.source = "inside", !.traits = {"sensitive", "download"}],
     [Blank EXCEPT !.kind = "network", !.time = 62, !.user = "none", !.device = "none",
        !.source = "outside", !.destination = "inside", !.traits = {"egress"}],
     [Blank EXCEPT !.kind = "cloud", !.time = 58, !.traits = {"privileged"}] >>

EventTable == Telemetry
Numbers == DOMAIN Telemetry
AllBatches == {{n} : n \in Numbers \ {5, 8}} \cup {{2, 7}, {4, 5, 6}, {8, 9}}
=============================================================================
