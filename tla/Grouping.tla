------------------------------- MODULE Grouping -------------------------------
(***************************************************************************)
(* How correlation groups suspicious events (correlation_engine.py):       *)
(* connection scores, the anchors that make two events worth comparing,    *)
(* connected components, and the guardrails on span and cohesion.  Times   *)
(* are minutes; the thresholds are those of config.py.  Pure definitions.  *)
(***************************************************************************)
EXTENDS Integers, FiniteSetsExt

CONSTANTS
  Events,   \* identifiers of suspicious events
  Event,    \* their records: time, user, host, device, source, destination
  None,     \* the value of a field the telemetry does not have
  CorrelationWindow, MinScore,   \* settings.correlation_window_minutes, _min_score
  MaxSpan, MinCohesion           \* settings.max_incident_span_minutes, min_group_...

ASSUME ThresholdsAssumption == {CorrelationWindow, MinScore, MaxSpan, MinCohesion} \subseteq Nat
ASSUME EventAssumption == \A e \in Events : Event[e].time \in Nat

Gap(a, b) == IF a.time < b.time THEN b.time - a.time ELSE a.time - b.time
Same(x, y, points) == IF x # None /\ x = y THEN points ELSE 0
Addresses(a) == {a.source, a.destination} \ {None}

connection_score(d, e) ==
  LET a == Event[d]  b == Event[e] IN
  IF Gap(a, b) > CorrelationWindow THEN 0
  ELSE Same(a.user, b.user, 4) + Same(a.host, b.host, 4) + Same(a.device, b.device, 3)
       + Same(a.source, b.source, 3)
       + (IF Addresses(a) \cap Addresses(b) # {} THEN 2 ELSE 0)
       + (IF Gap(a, b) <= 15 THEN 3 ELSE 1)

\* Mutant: events are anchored to users and addresses only.
Buckets_NoHosts(e) ==
  LET a == Event[e] IN
  {b \in { <<"u", a.user>>, <<"s", a.source>>, <<"ip", a.destination>> } : b[2] # None}

\* The buckets an event goes into: a source and a destination address are keyed
\* apart from each other.
Buckets(e) ==
  LET a == Event[e] IN
  {b \in { <<"u", a.user>>, <<"h", a.host>>, <<"s", a.source>>, <<"d", a.device>>,
           <<"ip", a.destination>> } : b[2] # None}

candidate_pairs(S) ==
  {p \in kSubset(2, S) : \A d, e \in p : Buckets(d) \cap Buckets(e) # {}}

Score(p) == LET d == CHOOSE d \in p : TRUE
                e == CHOOSE e \in p : e # d
            IN connection_score(d, e)

Edges(S) == {p \in candidate_pairs(S) : Score(p) >= MinScore}

\* The connected component of e: what every set closed under the edges holds.
Closed(C, edges) == \A p \in edges : p \cap C # {} => p \subseteq C
Component(S, e) ==
  {d \in S : \A C \in SUBSET S : e \in C /\ Closed(C, Edges(S)) => d \in C}

Span(C) == Max({Event[e].time : e \in C}) - Min({Event[e].time : e \in C})

\* The mean score of all pairs of the group, unconnected ones included.
Cohesive(C) ==
  MapThenSumSet(Score, kSubset(2, C)) >= MinCohesion * Cardinality(kSubset(2, C))

connected_groups(S) ==
  {C \in {Component(S, e) : e \in S} :
     Cardinality(C) >= 2 /\ Span(C) <= MaxSpan /\ Cohesive(C)}
=============================================================================
