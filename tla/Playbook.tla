------------------------------- MODULE Playbook -------------------------------
(***************************************************************************)
(* The response playbooks (playbook_engine.py) and the classification of   *)
(* an incident by its detection flags (infer_incident_type).  Pure         *)
(* definitions: the modules of the incident's life are built on them.      *)
(*                                                                         *)
(* A playbook is an identifier, with the actions it offers, the objectives *)
(* it requires and the relation "this action serves that objective".       *)
(***************************************************************************)
EXTENDS Integers

Flags == {"IMPOSSIBLE_TRAVEL", "MFA_FATIGUE", "NEW_DEVICE",
          "SUSPICIOUS_POWERSHELL", "CREDENTIAL_ACCESS", "KNOWN_MALICIOUS_IP",
          "UNUSUAL_EGRESS", "SENSITIVE_RESOURCE_ACCESS", "MASS_DOWNLOAD",
          "DATA_EXFILTRATION", "OTHER"}

ACTION_REDUCTIONS ==
  [ Revoke |-> 12, ForceReset |-> 10, BlockSource |-> 8, Isolate |-> 20,
    Kill |-> 8, BlockDestination |-> 12, Disable |-> 15, Snapshot |-> 0,
    Preserve |-> 0, Escalate |-> 0 ]

Actions == DOMAIN ACTION_REDUCTIONS

\* _require_approval asks for an approval from 12 points on.
HighImpact(a) == ACTION_REDUCTIONS[a] >= 12

PlaybookIds == {"credential", "endpoint", "exfiltration", "none"}

Offered ==
  [ credential |-> {"Revoke", "Disable", "ForceReset", "BlockSource", "Escalate"},
    endpoint |-> {"Isolate", "Kill", "BlockDestination", "Snapshot"},
    exfiltration |-> {"BlockDestination", "Disable", "Preserve", "Escalate"},
    none |-> {} ]

Serves ==
  { <<"credential", "Revoke", "invalidate_session">>,
    <<"credential", "Disable", "secure_identity">>,
    <<"credential", "ForceReset", "secure_identity">>,
    <<"credential", "BlockSource", "block_known_source">>,
    <<"endpoint", "Isolate", "isolate_host">>,
    <<"endpoint", "Kill", "stop_malicious_execution">>,
    <<"endpoint", "BlockDestination", "block_destination">>,
    <<"exfiltration", "BlockDestination", "block_destination">>,
    <<"exfiltration", "Disable", "restrict_identity">> }

Required ==
  [ credential |-> {"invalidate_session", "secure_identity"},
    endpoint |-> {"isolate_host", "stop_malicious_execution"},
    exfiltration |-> {"block_destination", "restrict_identity"},
    none |-> {} ]

AccountTakeover(flags) ==
  "IMPOSSIBLE_TRAVEL" \in flags /\ flags \cap {"MFA_FATIGUE", "NEW_DEVICE"} # {}
MaliciousExecution(flags) ==
  /\ "SUSPICIOUS_POWERSHELL" \in flags
  /\ flags \cap {"CREDENTIAL_ACCESS", "KNOWN_MALICIOUS_IP"} # {}
SuspiciousTransfer(flags) ==
  /\ "UNUSUAL_EGRESS" \in flags
  /\ flags \cap {"SENSITIVE_RESOURCE_ACCESS", "MASS_DOWNLOAD", "DATA_EXFILTRATION"} # {}

\* Mutant: the transfer is looked at before the execution.
select_playbook_Reordered(flags) ==
  CASE AccountTakeover(flags) -> "credential"
    [] ~AccountTakeover(flags) /\ SuspiciousTransfer(flags) -> "exfiltration"
    [] ~AccountTakeover(flags) /\ ~SuspiciousTransfer(flags)
         /\ MaliciousExecution(flags) -> "endpoint"
    [] OTHER -> "none"

\* The first playbook whose conditions hold.
select_playbook(flags) ==
  CASE AccountTakeover(flags) -> "credential"
    [] ~AccountTakeover(flags) /\ MaliciousExecution(flags) -> "endpoint"
    [] ~AccountTakeover(flags) /\ ~MaliciousExecution(flags)
         /\ SuspiciousTransfer(flags) -> "exfiltration"
    [] OTHER -> "none"

\* The order in which the conditions are looked at: evidence that is added never
\* selects a playbook of lower rank.
Rank == [credential |-> 3, endpoint |-> 2, exfiltration |-> 1, none |-> 0]

\* The correlation engine decides the type with conditions of its own.
infer_incident_type(flags) ==
  IF "IMPOSSIBLE_TRAVEL" \in flags /\ flags \cap {"MFA_FATIGUE", "NEW_DEVICE"} # {}
  THEN "Credential Compromise"
  ELSE IF "SUSPICIOUS_POWERSHELL" \in flags
            /\ flags \cap {"CREDENTIAL_ACCESS", "KNOWN_MALICIOUS_IP"} # {}
  THEN "Endpoint Compromise"
  ELSE IF "UNUSUAL_EGRESS" \in flags
            /\ flags \cap {"SENSITIVE_RESOURCE_ACCESS", "MASS_DOWNLOAD",
                           "DATA_EXFILTRATION"} # {}
  THEN "Potential Data Exfiltration"
  ELSE "Suspicious Activity"

IncidentTypes == {"Credential Compromise", "Endpoint Compromise",
                  "Potential Data Exfiltration", "Suspicious Activity"}

\* Mutant: only high-impact actions are recommended.
recommend_playbook_HighOnly(flags) ==
  {a \in Offered[select_playbook(flags)] : HighImpact(a)}

recommend_playbook(flags) == Offered[select_playbook(flags)]

\* The objectives stored in the actions of playbook `id` that are executed.
Objectives(id, executed) == {x[3] : x \in {y \in Serves : y[1] = id /\ y[2] \in executed}}

\* They complete what the playbook requires, and it requires something.
Completes(id, executed) == Required[id] # {} /\ Required[id] \subseteq Objectives(id, executed)

\* progress["required"] and progress["completed"] == progress["required"]: what
\* the playbook selected by the flags requires, against the actions of a case that
\* were recommended by playbook `id`.
containment_progress(flags, id, executed) ==
  LET required == Required[select_playbook(flags)] IN
  required # {} /\ required \subseteq Objectives(id, executed)

\* What the executed actions take off the risk; the others of the table have 0.
Points(a, executed) == IF a \in executed THEN ACTION_REDUCTIONS[a] ELSE 0
Reduction(executed) ==
  Points("Revoke", executed) + Points("ForceReset", executed)
  + Points("BlockSource", executed) + Points("Isolate", executed)
  + Points("Kill", executed) + Points("BlockDestination", executed)
  + Points("Disable", executed)

\* Mutant: the difference is not cut off at zero.
residual_risk_Uncapped(original, executed) == original - Reduction(executed)

residual_risk(original, executed) ==
  IF original > Reduction(executed) THEN original - Reduction(executed) ELSE 0
=============================================================================
