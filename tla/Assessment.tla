------------------------------ MODULE Assessment ------------------------------
(***************************************************************************)
(* What a case is made of its findings (risk_engine.py, playbook_engine.py *)
(* and infer_incident_type): its type, its playbook, its risk score.  The  *)
(* findings of a case come one by one, and every enrichment assesses the   *)
(* case anew from all of them.                                             *)
(***************************************************************************)
EXTENDS Playbook, FiniteSets

VARIABLES
  flags,     \* the flags of the case's findings
  strength,  \* what the findings contribute, up to the cap
  impact     \* the impact of the most sensitive of its events
assessmentVars == <<flags, strength, impact>>

FindingFlags == Flags \cup {"UNUSUAL_ADMIN_ACTION"}

BEHAVIORAL_FLAGS ==
  {"IMPOSSIBLE_TRAVEL", "MFA_FATIGUE", "NEW_DEVICE", "UNUSUAL_ADMIN_ACTION",
   "UNUSUAL_EGRESS"}

\* The points of a finding of the flag, of which at most 12 count: the first
\* login of an impossible journey has none, denied prompts have 6 and the last
\* of them 7, every other rule gives at least 12.
Contributions(flag) ==
  CASE flag = "IMPOSSIBLE_TRAVEL" -> {0, 12}
    [] flag = "MFA_FATIGUE" -> {6, 7}
    [] flag \notin {"IMPOSSIBLE_TRAVEL", "MFA_FATIGUE"} -> {12}

\* A privileged action has 15; a sensitive resource or the credential store 20.
Impacts == {0, 15, 20}

\* Mutant: no cap.
Capped_Not(n, cap) == n

Capped(n, cap) == IF n < cap THEN n ELSE cap

\* Mutant: the anomaly is the share of the behavioural flags among all flags.
Behavioral_Share(fs) ==
  IF fs = {} THEN 0
  ELSE (20 * Cardinality(fs \cap BEHAVIORAL_FLAGS)) \div Cardinality(fs)

Behavioral(fs) == Capped(7 * Cardinality(fs \cap BEHAVIORAL_FLAGS), 20)

ThreatIntelligence(fs) == IF "KNOWN_MALICIOUS_IP" \in fs THEN 20 ELSE 0

\* What exceeds 100 is taken off the strength.
calculate_risk(s, i, fs) ==
  LET total == s + i + Behavioral(fs) + ThreatIntelligence(fs) IN
  IF total > 100 THEN total - Capped(total - 100, s) ELSE total

\* LOW, MEDIUM, HIGH, CRITICAL.
severity(score) ==
  CASE score >= 75 -> 3 [] score >= 50 /\ score < 75 -> 2
    [] score >= 25 /\ score < 50 -> 1 [] score < 25 -> 0

risk_score == calculate_risk(strength, impact, flags)

AssessmentTypeOK ==
  flags \subseteq FindingFlags /\ strength \in 0..40 /\ impact \in Impacts

AssessmentInit == flags = {} /\ strength = 0 /\ impact = 0

\* One more finding; the maximum impact of the events, with its own, is now i.
AddFinding(flag, points, i) ==
  /\ i >= impact
  /\ flags' = flags \cup {flag}
  /\ strength' = Capped(strength + points, 40)
  /\ impact' = i

AssessmentNext ==
  \E flag \in FindingFlags :
    \E points \in Contributions(flag), i \in Impacts : AddFinding(flag, points, i)

AssessmentSpec == AssessmentInit /\ [][AssessmentNext]_assessmentVars

-----------------------------------------------------------------------------
TypeOf ==
  [ credential |-> "Credential Compromise", endpoint |-> "Endpoint Compromise",
    exfiltration |-> "Potential Data Exfiltration", none |-> "Suspicious Activity" ]

\* The two classifications of a case agree: the type the correlation engine
\* shows is the type of the playbook the response engine measures against.
TypeMatchesPlaybook ==
  infer_incident_type(flags) = TypeOf[select_playbook(flags)]

\* What is recommended suffices: with all of it executed, a case that has a
\* playbook is contained; and it is never contained by low-impact actions alone,
\* which nobody approves.
Containable ==
  /\ select_playbook(flags) # "none" =>
       containment_progress(flags, select_playbook(flags), recommend_playbook(flags))
  /\ ~containment_progress(flags, select_playbook(flags),
                           {a \in recommend_playbook(flags) : ~HighImpact(a)})

\* More findings never make a case look better: neither the score nor the
\* severity falls, nor the residual risk, whatever has been executed and although
\* a case that changes its type forgets what was executed; and no score is above
\* 100.
RiskOnlyRises ==
  [][LET before == risk_score
         after == risk_score'
         sameType == infer_incident_type(flags') = infer_incident_type(flags)
     IN /\ before <= after /\ after <= 100
        /\ severity(before) <= severity(after)
        /\ before # after \/ ~sameType =>
             \A executed \in SUBSET recommend_playbook(flags) :
               residual_risk(before, executed)
                 <= residual_risk(after, IF sameType THEN executed ELSE {})
    ]_assessmentVars
=============================================================================
