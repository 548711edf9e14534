------------------------------- MODULE Detection -------------------------------
(***************************************************************************)
(* The detection rules (detection_engine.py) over a set of telemetry, and  *)
(* their use by the pipeline: each batch is looked at with a bounded part  *)
(* of what is stored, and findings become rows that are never rewritten.   *)
(* Batches come whole, in any order and more than once; what overlapping   *)
(* pipelines do to each other is in Correlation.                           *)
(*                                                                         *)
(* An event is a number; of two events of the same minute the lower one    *)
(* comes first.  Beside what Grouping reads, its record has the kind of    *)
(* telemetry, country, success (result), denied (the MFA prompt), trusted  *)
(* (the device is in the baseline) and traits: what the rules that look at *)
(* one event test for.  Times are minutes.                                 *)
(***************************************************************************)
EXTENDS Grouping

CONSTANTS
  TravelWindow, FatigueWindow, PrivilegeWindow,  \* settings.*_window_minutes
  FatigueThreshold,                              \* settings.mfa_fatigue_threshold
  Batches                                        \* sets of events that are ingested together

ASSUME WindowsAssumption == {TravelWindow, FatigueWindow, PrivilegeWindow} \subseteq Nat
ASSUME FatigueAssumption == FatigueThreshold \in Nat \ {0}
ASSUME BatchesAssumption ==
  Events \subseteq Nat /\ IsFiniteSet(Events) /\ Batches \subseteq (SUBSET Events) \ {{}}
ASSUME AuthenticationAssumption ==  \* the schema requires a user
  \A e \in Events : Event[e].kind = "authentication" => Event[e].user # None

VARIABLES
  stored,    \* events in the database
  rows,      \* detection_findings: the risk contribution of <<event, flag>>
  overtaken  \* history: events stored before one that precedes them

vars == <<stored, rows, overtaken>>

Before(d, e) ==
  Event[d].time < Event[e].time \/ (Event[d].time = Event[e].time /\ d < e)
Within(d, e, window) == Before(d, e) /\ Gap(Event[d], Event[e]) <= window
SameUser(d, e) == Event[d].user = Event[e].user

-----------------------------------------------------------------------------
(* The rules: findings are <<event, flag, risk contribution>>. *)

Authentications(S) == {e \in S : Event[e].kind = "authentication"}
Logins(S) == {e \in Authentications(S) : Event[e].success}

\* Logins of one user from two countries inside the window.
Travel(p, c) ==
  SameUser(p, c) /\ Event[p].country # Event[c].country /\ Within(p, c, TravelWindow)

\* Mutant: a login is compared with the one before it only.
detect_impossible_travel_Adjacent(S) ==
  LET L == Logins(S)
      pairs == {t \in L \X L : /\ Travel(t[1], t[2])
                               /\ ~\E q \in L : /\ SameUser(q, t[2])
                                                /\ Before(t[1], q) /\ Before(q, t[2])}
  IN {<<t[2], "IMPOSSIBLE_TRAVEL", 30>> : t \in pairs}
     \cup {<<t[1], "IMPOSSIBLE_TRAVEL", 0>> : t \in pairs}

\* Each login with the last one before it that makes an impossible travel.
detect_impossible_travel(S) ==
  LET L == Logins(S)
      pairs == {t \in L \X L : /\ Travel(t[1], t[2])
                               /\ ~\E q \in L : Travel(q, t[2]) /\ Before(t[1], q)}
  IN {<<t[2], "IMPOSSIBLE_TRAVEL", 30>> : t \in pairs}
     \cup {<<t[1], "IMPOSSIBLE_TRAVEL", 0>> : t \in pairs}

\* The denied prompts of a user up to e, as many as the threshold.
Denied(S) == {e \in Authentications(S) : Event[e].denied}
Prompts(S, e) ==
  LET upTo == {d \in Denied(S) : SameUser(d, e) /\ (d = e \/ Before(d, e))} IN
  {d \in upTo : Cardinality({x \in upTo : Before(d, x)}) < FatigueThreshold}

EndsBurst(S, e) ==
  /\ e \in Denied(S) /\ Cardinality(Prompts(S, e)) = FatigueThreshold
  /\ Span(Prompts(S, e)) <= FatigueWindow

\* The first burst of each user.
detect_mfa_fatigue(S) ==
  LET ends == {e \in S : /\ EndsBurst(S, e)
                         /\ ~\E x \in S : EndsBurst(S, x) /\ SameUser(x, e) /\ Before(x, e)}
  IN {<<e, "MFA_FATIGUE", 7>> : e \in ends}
     \cup {<<d, "MFA_FATIGUE", 6>> : d \in UNION {Prompts(S, e) \ {e} : e \in ends}}

detect_new_devices(S) ==
  {<<e, "NEW_DEVICE", 12>> : e \in {x \in Authentications(S) : ~Event[x].trusted}}

\* What one event shows by itself: kind, trait, flag, risk contribution.
EventRules ==
  { <<"endpoint", "powershell", "SUSPICIOUS_POWERSHELL", 30>>,
    <<"endpoint", "credential_store", "CREDENTIAL_ACCESS", 30>>,
    <<"endpoint", "run_key", "PERSISTENCE", 25>>,
    <<"network", "malicious_ip", "KNOWN_MALICIOUS_IP", 35>>,
    <<"network", "egress", "UNUSUAL_EGRESS", 25>>,
    <<"network", "double_egress", "DATA_EXFILTRATION", 30>>,
    <<"cloud", "privileged", "UNUSUAL_ADMIN_ACTION", 20>>,
    <<"cloud", "sensitive", "SENSITIVE_RESOURCE_ACCESS", 20>>,
    <<"cloud", "download", "MASS_DOWNLOAD", 20>> }

\* Downloads count on sensitive resources only.
detect_event_rules(S) ==
  UNION {{<<e, r[3], r[4]>> :
            r \in {x \in EventRules :
                     /\ x[1] = Event[e].kind /\ x[2] \in Event[e].traits
                     /\ x[2] = "download" => "sensitive" \in Event[e].traits}} : e \in S}

Privileged(S) == {e \in S : Event[e].kind = "cloud" /\ "privileged" \in Event[e].traits}

\* Mutant: denied prompts of a new device establish a session as well.
detect_temporal_privilege_AnyResult(S, found) ==
  LET anomalous == {l \in Authentications(S) : \E f \in found :
                      f[1] = l /\ f[2] \in {"IMPOSSIBLE_TRAVEL", "NEW_DEVICE"}}
  IN {<<c, "PRIVILEGE_ESCALATION", 30>> :
        c \in {x \in Privileged(S) : \E l \in anomalous :
                 SameUser(l, x) /\ Within(l, x, PrivilegeWindow)}}

\* A privileged action soon after a successful login that these findings flag.
detect_temporal_privilege(S, found) ==
  LET anomalous == {l \in Logins(S) : \E f \in found :
                      f[1] = l /\ f[2] \in {"IMPOSSIBLE_TRAVEL", "NEW_DEVICE"}}
  IN {<<c, "PRIVILEGE_ESCALATION", 30>> :
        c \in {x \in Privileged(S) : \E l \in anomalous :
                 SameUser(l, x) /\ Within(l, x, PrivilegeWindow)}}

run_detection(S) ==
  LET found == detect_impossible_travel(S) \cup detect_mfa_fatigue(S)
               \cup detect_new_devices(S) \cup detect_event_rules(S)
  IN found \cup detect_temporal_privilege(S, found)

-----------------------------------------------------------------------------
(* The pipeline. *)

Lookback == Max({CorrelationWindow, TravelWindow, PrivilegeWindow, FatigueWindow})

Shared(x, y) == x # None /\ x = y

\* Mutant: history starts at the earliest event of the batch.
historical_context_Short(S, batch) ==
  {e \in S : /\ Event[e].time \in Min({Event[b].time : b \in batch})..Max({Event[b].time : b \in batch})
             /\ \E b \in batch : Shared(Event[b].user, Event[e].user)}

\* Stored events that share an entity with the batch, up to its last event.
historical_context(S, batch) ==
  LET times == {Event[b].time : b \in batch} IN
  {e \in S :
     /\ Event[e].time + Lookback >= Min(times) /\ Event[e].time <= Max(times)
     /\ \E b \in batch :
          \/ Shared(Event[b].user, Event[e].user) \/ Shared(Event[b].host, Event[e].host)
          \/ Shared(Event[b].source, Event[e].source)
          \/ Event[b].destination \in Addresses(Event[e])}

\* Mutant: a finding that is there already is counted again.
Recorded_Added(found) ==
  LET keys == {<<f[1], f[2]>> : f \in found} IN
  [k \in DOMAIN rows \cup keys |->
     (IF k \in DOMAIN rows THEN rows[k] ELSE 0)
     + (IF k \in keys THEN Max({f[3] : f \in {g \in found : <<g[1], g[2]>> = k}}) ELSE 0)]

\* uq_finding: the first contribution recorded for an event and a flag stays; within
\* a run the positive one of a login comes before the zero one.
Recorded(found) ==
  LET keys == {<<f[1], f[2]>> : f \in found} IN
  [k \in DOMAIN rows \cup keys |->
     IF k \in DOMAIN rows THEN rows[k]
     ELSE Max({f[3] : f \in {g \in found : <<g[1], g[2]>> = k}})]

Init == stored = {} /\ rows = [k \in {} |-> 0] /\ overtaken = {}

Process(batch) ==
  /\ stored' = stored \cup batch
  /\ rows' = Recorded(run_detection(historical_context(stored', batch) \cup batch))
  /\ overtaken' = overtaken \cup {e \in stored : \E d \in batch \ stored : Before(d, e)}

Next == \E batch \in Batches : Process(batch)
Spec == Init /\ [][Next]_vars

Flagged(e, flag) == <<e, flag>> \in DOMAIN rows
Suspicious == {e \in stored : \E k \in DOMAIN rows : k[1] = e /\ rows[k] > 0}
Punctual == stored \ overtaken

-----------------------------------------------------------------------------
(* What detection promises. *)

FlagNames == {r[3] : r \in EventRules}
  \cup {"IMPOSSIBLE_TRAVEL", "MFA_FATIGUE", "NEW_DEVICE", "PRIVILEGE_ESCALATION"}

TypeOK ==
  /\ stored \subseteq Events /\ overtaken \subseteq stored
  /\ DOMAIN rows \subseteq stored \X FlagNames
  /\ \A k \in DOMAIN rows : rows[k] \in 0..35

\* However telemetry is cut into batches and whatever order they come in, each
\* contextual row has its cause among the stored events.
RowsAreExplained ==
  \A e \in stored :
    /\ Flagged(e, "IMPOSSIBLE_TRAVEL") =>
         \E d \in Logins(stored) : Travel(d, e) \/ Travel(e, d)
    /\ Flagged(e, "MFA_FATIGUE") =>
         \E G \in kSubset(FatigueThreshold, {d \in Denied(stored) : SameUser(d, e)}) :
           e \in G /\ Span(G) <= FatigueWindow
    /\ Flagged(e, "PRIVILEGE_ESCALATION") =>
         \E l \in Logins(stored) :
           /\ SameUser(l, e) /\ Within(l, e, PrivilegeWindow)
           /\ Flagged(l, "IMPOSSIBLE_TRAVEL") \/ Flagged(l, "NEW_DEVICE")

\* A login that no earlier event has come after is charged for an impossible travel
\* whichever batches it and the other login were in.
TravelIsCharged ==
  \A c \in Logins(Punctual) :
    (\E p \in Logins(stored) : Travel(p, c)) =>
      Flagged(c, "IMPOSSIBLE_TRAVEL") /\ rows[<<c, "IMPOSSIBLE_TRAVEL">>] = 30

\* A burst of denied prompts whose last came in order is flagged, or one before it
\* that was still in sight of the batch it came in.
FatigueIsSeen ==
  \A e \in Punctual : EndsBurst(stored, e) =>
    \E x \in stored :
      /\ EndsBurst(stored, x) /\ SameUser(x, e)
      /\ x = e \/ \E batch \in Batches : e \in batch /\ Within(x, e, Lookback + Span(batch))
      /\ \A d \in Prompts(stored, x) : Flagged(d, "MFA_FATIGUE")

\* A privileged action that came in order is flagged after a suspicious login, if
\* what makes the login suspicious is not older than the lookback: rows found
\* earlier are not read again.
PrivilegeIsSeen ==
  \A c \in Privileged(Punctual) :
    (\E l \in Logins(stored) :
       /\ SameUser(l, c) /\ Within(l, c, PrivilegeWindow)
       /\ \/ ~Event[l].trusted
          \/ \E p \in Logins(stored) : Travel(p, l) /\ Within(p, c, Lookback))
    => Flagged(c, "PRIVILEGE_ESCALATION")

\* The anchors lose no edge: two suspicious events that score high enough are
\* compared, unless all they share is an address that is the source of one and the
\* destination of the other, which are anchored apart.
EdgesAreCompared ==
  \A p \in kSubset(2, Suspicious) :
    Score(p) >= MinScore =>
      \/ p \in candidate_pairs(Suspicious)
      \/ \E d, e \in p : Shared(Event[d].source, Event[e].destination)
=============================================================================
