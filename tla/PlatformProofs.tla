----------------------------- MODULE PlatformProofs -----------------------------
(***************************************************************************)
(* The components around the two pipelines.  First the assessment of a     *)
(* case, the rule catalogue and the event feed, each by itself; the        *)
(* connector and the work on a case have modules of their own.  At the end *)
(* the five side by side, as MCPlatform composes them: every behaviour of  *)
(* the composition is one of each part, so that what is proved of a part   *)
(* holds there.                                                            *)
(***************************************************************************)
EXTENDS MCPlatform, CaseProofs, ConnectorProofs, FiniteSetTheorems, TLAPS

-----------------------------------------------------------------------------
(***************************************************************************)
(* The assessment, and the playbooks it measures a case against.           *)
(***************************************************************************)

(* Types. *)

LEMMA AssessmentInitType == AssessmentInit => AssessmentTypeOK
  BY DEF AssessmentInit, AssessmentTypeOK, Impacts

LEMMA CappedBelow ==
  ASSUME NEW n \in Nat, NEW cap \in Nat
  PROVE  Capped(n, cap) \in 0..cap /\ Capped(n, cap) <= n
  BY DEF Capped

LEMMA AssessmentStepType ==
  ASSUME AssessmentTypeOK, AssessmentNext
  PROVE  AssessmentTypeOK'
<1>1. PICK flag \in FindingFlags :
        \E points \in Contributions(flag), i \in Impacts : AddFinding(flag, points, i)
  BY DEF AssessmentNext
<1>2. PICK points \in Contributions(flag) : \E i \in Impacts : AddFinding(flag, points, i)
  BY <1>1
<1>3. PICK i \in Impacts : AddFinding(flag, points, i)
  BY <1>2
<1>4. points \in Nat
  BY <1>1, <1>2 DEF Contributions
<1>5. strength + points \in Nat
  BY <1>4 DEF AssessmentTypeOK
<1>6. Capped(strength + points, 40) \in 0..40
  BY <1>5, CappedBelow
<1> QED BY <1>1, <1>3, <1>6 DEF AddFinding, AssessmentTypeOK

LEMMA AssessmentTypes == AssessmentSpec => []AssessmentTypeOK
<1>1. AssessmentTypeOK /\ [AssessmentNext]_assessmentVars => AssessmentTypeOK'
  BY AssessmentStepType DEF assessmentVars, AssessmentTypeOK
<1> QED BY AssessmentInitType, <1>1, PTL DEF AssessmentSpec

-----------------------------------------------------------------------------
(* The two classifications. *)

\* Whatever findings a case has, the type the correlation engine shows is the type
\* of the playbook the response engine measures containment against.
THEOREM ClassificationsAgree == AssessmentSpec => []TypeMatchesPlaybook
<1>1. TypeMatchesPlaybook
  BY DEF TypeMatchesPlaybook, TypeOf, infer_incident_type, select_playbook,
     AccountTakeover, MaliciousExecution, SuspiciousTransfer
<1> QED BY <1>1, PTL

\* Whatever findings a case has, the recommended actions together contain it, and
\* those nobody need approve do not.
THEOREM CasesCanBeContained == AssessmentSpec => []Containable
<1>1. select_playbook(flags) \in PlaybookIds
  BY DEF select_playbook, PlaybookIds
<1>2. ASSUME NEW id \in PlaybookIds \ {"none"}
      PROVE  Required[id] # {} /\ Required[id] \subseteq Objectives(id, Offered[id])
  <2>1. /\ Required["credential"] = {"invalidate_session", "secure_identity"}
        /\ {"Revoke", "Disable"} \subseteq Offered["credential"]
    BY DEF Required, Offered
  <2>2. /\ Required["endpoint"] = {"isolate_host", "stop_malicious_execution"}
        /\ {"Isolate", "Kill"} \subseteq Offered["endpoint"]
    BY DEF Required, Offered
  <2>3. /\ Required["exfiltration"] = {"block_destination", "restrict_identity"}
        /\ {"BlockDestination", "Disable"} \subseteq Offered["exfiltration"]
    BY DEF Required, Offered
  <2>4. ASSUME NEW a \in Offered[id], NEW o, <<id, a, o>> \in Serves
        PROVE  o \in Objectives(id, Offered[id])
    BY <2>4 DEF Objectives
  <2>5. /\ <<"credential", "Revoke", "invalidate_session">> \in Serves
        /\ <<"credential", "Disable", "secure_identity">> \in Serves
        /\ <<"endpoint", "Isolate", "isolate_host">> \in Serves
        /\ <<"endpoint", "Kill", "stop_malicious_execution">> \in Serves
        /\ <<"exfiltration", "BlockDestination", "block_destination">> \in Serves
        /\ <<"exfiltration", "Disable", "restrict_identity">> \in Serves
    BY DEF Serves
  <2>6. CASE id = "credential"
    BY <2>1, <2>4, <2>5, <2>6
  <2>7. CASE id = "endpoint"
    BY <2>2, <2>4, <2>5, <2>7
  <2>8. CASE id = "exfiltration"
    BY <2>3, <2>4, <2>5, <2>8
  <2> QED BY <2>6, <2>7, <2>8 DEF PlaybookIds
<1>3. ASSUME NEW id \in PlaybookIds
      PROVE  \/ Required[id] = {}
             \/ ~(Required[id] \subseteq Objectives(id, {a \in Offered[id] : ~HighImpact(a)}))
  BY DEF PlaybookIds, Required, Objectives, Offered, Serves, HighImpact, ACTION_REDUCTIONS
<1>4. Containable
  BY <1>1, <1>2, <1>3 DEF Containable, containment_progress, Completes, recommend_playbook
<1> QED BY <1>4, PTL

-----------------------------------------------------------------------------
(* Risk. *)

LEMMA BehavioralRises ==
  ASSUME NEW fs, NEW gs, fs \subseteq gs
  PROVE  /\ Behavioral(fs) \in 0..20 /\ Behavioral(gs) \in 0..20
         /\ Behavioral(fs) <= Behavioral(gs)
<1> DEFINE F == fs \cap BEHAVIORAL_FLAGS
           G == gs \cap BEHAVIORAL_FLAGS
<1>1. IsFiniteSet(BEHAVIORAL_FLAGS)
  <2> DEFINE A == {"IMPOSSIBLE_TRAVEL"}
             B == A \cup {"MFA_FATIGUE"}
             C == B \cup {"NEW_DEVICE"}
             D == C \cup {"UNUSUAL_ADMIN_ACTION"}
             E == D \cup {"UNUSUAL_EGRESS"}
  <2>1. BEHAVIORAL_FLAGS = E
    BY DEF BEHAVIORAL_FLAGS
  <2>2. IsFiniteSet(A)
    BY FS_Singleton
  <2> HIDE DEF A
  <2>3. IsFiniteSet(B)
    BY <2>2, FS_AddElement
  <2> HIDE DEF B
  <2>4. IsFiniteSet(C)
    BY <2>3, FS_AddElement
  <2> HIDE DEF C
  <2>5. IsFiniteSet(D)
    BY <2>4, FS_AddElement
  <2> HIDE DEF D
  <2>6. IsFiniteSet(E)
    BY <2>5, FS_AddElement
  <2> QED BY <2>1, <2>6
<1>2. F \subseteq G /\ G \subseteq BEHAVIORAL_FLAGS
  OBVIOUS
<1>3. IsFiniteSet(G) /\ IsFiniteSet(F)
  BY <1>1, <1>2, FS_Subset
<1>4. Cardinality(F) \in Nat /\ Cardinality(G) \in Nat /\ Cardinality(F) <= Cardinality(G)
  BY <1>2, <1>3, FS_Subset, FS_CardinalityType
<1> QED BY <1>4 DEF Behavioral, Capped

LEMMA ThreatRises ==
  ASSUME NEW fs, NEW gs, fs \subseteq gs
  PROVE  /\ ThreatIntelligence(fs) \in 0..20 /\ ThreatIntelligence(gs) \in 0..20
         /\ ThreatIntelligence(fs) <= ThreatIntelligence(gs)
  BY DEF ThreatIntelligence

\* What exceeds 100 is all strength, so taking it off caps the score.
LEMMA TakenOffStrength ==
  ASSUME NEW s \in 0..40, NEW i \in 0..20, NEW b \in 0..20, NEW t \in 0..20
  PROVE  LET total == s + i + b + t IN
         (IF total > 100 THEN total - Capped(total - 100, s) ELSE total)
           = (IF total < 100 THEN total ELSE 100)
  BY DEF Capped

LEMMA RiskIsCapped ==
  ASSUME NEW s \in 0..40, NEW i \in Impacts, NEW fs
  PROVE  /\ calculate_risk(s, i, fs) =
              LET total == s + i + Behavioral(fs) + ThreatIntelligence(fs)
              IN IF total < 100 THEN total ELSE 100
         /\ calculate_risk(s, i, fs) \in 0..100
<1>1. Behavioral(fs) \in 0..20 /\ ThreatIntelligence(fs) \in 0..20
  BY BehavioralRises, ThreatRises
<1>2. i \in 0..20
  BY DEF Impacts
<1> DEFINE b == Behavioral(fs)  t == ThreatIntelligence(fs)
<1>3. calculate_risk(s, i, fs) =
        IF s + i + b + t > 100 THEN (s + i + b + t) - Capped((s + i + b + t) - 100, s)
        ELSE s + i + b + t
  BY DEF calculate_risk
<1> HIDE DEF b, t
<1>4. b \in 0..20 /\ t \in 0..20
  BY <1>1 DEF b, t
<1>5. calculate_risk(s, i, fs) = IF s + i + b + t < 100 THEN s + i + b + t ELSE 100
  BY <1>2, <1>3, <1>4, TakenOffStrength
<1>6. calculate_risk(s, i, fs) \in 0..100
  BY <1>2, <1>4, <1>5
<1> QED BY <1>5, <1>6 DEF b, t

LEMMA RiskRises ==
  ASSUME NEW s \in 0..40, NEW t \in 0..40, s <= t,
         NEW i \in Impacts, NEW j \in Impacts, i <= j,
         NEW fs, NEW gs, fs \subseteq gs
  PROVE  calculate_risk(s, i, fs) <= calculate_risk(t, j, gs)
<1> DEFINE bf == Behavioral(fs)  bg == Behavioral(gs)
           tf == ThreatIntelligence(fs)  tg == ThreatIntelligence(gs)
<1>1. bf \in 0..20 /\ bg \in 0..20 /\ bf <= bg
  BY BehavioralRises
<1>2. tf \in 0..20 /\ tg \in 0..20 /\ tf <= tg
  BY ThreatRises
<1>3. i \in 0..20 /\ j \in 0..20
  BY DEF Impacts
<1>4. /\ calculate_risk(s, i, fs) = IF s + i + bf + tf < 100 THEN s + i + bf + tf ELSE 100
      /\ calculate_risk(t, j, gs) = IF t + j + bg + tg < 100 THEN t + j + bg + tg ELSE 100
  BY RiskIsCapped
<1> HIDE DEF bf, bg, tf, tg
<1>5. (IF s + i + bf + tf < 100 THEN s + i + bf + tf ELSE 100)
        <= (IF t + j + bg + tg < 100 THEN t + j + bg + tg ELSE 100)
  BY <1>1, <1>2, <1>3
<1> QED BY <1>4, <1>5

LEMMA SeverityRises ==
  ASSUME NEW m \in 0..100, NEW n \in 0..100, m <= n
  PROVE  severity(m) <= severity(n)
  BY DEF severity

LEMMA ResidualRises ==
  ASSUME NEW m \in 0..100, NEW n \in 0..100, m <= n, NEW executed
  PROVE  /\ residual_risk(m, executed) <= residual_risk(n, executed)
         /\ residual_risk(m, executed) <= residual_risk(n, {})
<1>1. Reduction(executed) \in Nat
  BY DEF Reduction, Points, ACTION_REDUCTIONS
<1>2. Reduction({}) = 0
  BY DEF Reduction, Points
<1> QED BY <1>1, <1>2 DEF residual_risk

\* However the findings of a case come, neither its risk score nor its severity
\* nor its residual risk falls, and the score stays within 100.
THEOREM RiskNeverFalls == AssessmentSpec => RiskOnlyRises
<1> DEFINE Rises ==
      LET before == risk_score
          after == risk_score'
          sameType == infer_incident_type(flags') = infer_incident_type(flags)
      IN /\ before <= after /\ after <= 100
         /\ severity(before) <= severity(after)
         /\ before # after \/ ~sameType =>
              \A executed \in SUBSET recommend_playbook(flags) :
                residual_risk(before, executed)
                  <= residual_risk(after, IF sameType THEN executed ELSE {})
<1>1. ASSUME AssessmentTypeOK, AssessmentNext PROVE Rises
  <2>1. /\ strength \in 0..40 /\ strength' \in 0..40
        /\ impact \in Impacts /\ impact' \in Impacts
    BY <1>1, AssessmentStepType DEF AssessmentTypeOK
  <2>2. flags \subseteq flags' /\ strength <= strength' /\ impact <= impact'
    <3>1. PICK flag \in FindingFlags :
            \E points \in Contributions(flag), i \in Impacts : AddFinding(flag, points, i)
      BY <1>1 DEF AssessmentNext
    <3>2. PICK points \in Contributions(flag) : \E i \in Impacts : AddFinding(flag, points, i)
      BY <3>1
    <3>3. points \in Nat
      BY <3>1, <3>2 DEF Contributions
    <3> QED BY <2>1, <3>2, <3>3 DEF AddFinding, Capped
  <2>3. risk_score \in 0..100 /\ risk_score' \in 0..100 /\ risk_score <= risk_score'
    BY <2>1, <2>2, RiskIsCapped, RiskRises DEF risk_score
  <2>4. risk_score' <= 100 /\ severity(risk_score) <= severity(risk_score')
    BY <2>3, SeverityRises
  <2>5. ASSUME NEW executed \in SUBSET recommend_playbook(flags), NEW same \in BOOLEAN
        PROVE  residual_risk(risk_score, executed)
                 <= residual_risk(risk_score', IF same THEN executed ELSE {})
    BY <2>3, ResidualRises
  <2> QED BY <2>3, <2>4, <2>5
<1>2. AssessmentTypeOK /\ [AssessmentNext]_assessmentVars => [Rises]_assessmentVars
  BY <1>1
<1> QED BY AssessmentTypes, <1>2, PTL DEF AssessmentSpec, RiskOnlyRises

-----------------------------------------------------------------------------
(***************************************************************************)
(* The rule catalogue: PromotionsAreSound for any versions, releases and   *)
(* requests.  The invariant: as long as nothing has overtaken a request,   *)
(* what it has loaded is what the catalogue says.                          *)
(***************************************************************************)

\* What a request that nothing has overtaken knows.
UpToDate(q) ==
  q.fresh =>
    /\ q.pc # "idle"
    /\ q.pc \in {"survey", "commit"} =>
         q.row = catalog[q.version] /\ q.target \in Transitions[q.row.status]
    /\ q.pc = "survey" => q.target = "ACTIVE"
    /\ q.pc = "commit" =>
         q.old = IF q.target = "ACTIVE" THEN ActiveVersions \ {q.version} ELSE {}

CatalogInv == CatalogTypeOK /\ \A r \in Requests : UpToDate(request[r])

\* A request at rest is in its type.
LEMMA NoRequestType == NoRequest \in CatalogRequest /\ ~NoRequest.fresh
  BY CatalogAssumption DEF NoRequest, CatalogRequest, RuleRow, Absent, RuleStatuses

\* Nothing is loaded at first.
LEMMA InitInv == CatalogInit => CatalogInv
  BY NoRequestType
  DEF CatalogInit, CatalogInv, CatalogTypeOK, UpToDate, RuleRow, Absent, RuleStatuses

\* A step of one request that leaves the catalogue alone.
LEMMA OneRequest ==
  ASSUME CatalogInv, NEW r \in Requests, NEW q \in CatalogRequest,
         request' = [request EXCEPT ![r] = q], UNCHANGED catalog, UpToDate(q)
  PROVE  CatalogInv'
<1>1. CatalogTypeOK'
  BY DEF CatalogInv, CatalogTypeOK
<1>2. ASSUME NEW s \in Requests PROVE UpToDate(request[s])'
  <2>1. request'[s] = IF s = r THEN q ELSE request[s]
    BY DEF CatalogInv, CatalogTypeOK
  <2>2. UpToDate(request'[s])
    BY <2>1 DEF CatalogInv
  <2> QED BY <2>2 DEF UpToDate, ActiveVersions
<1> QED BY <1>1, <1>2 DEF CatalogInv

\* A step that commits leaves no other request up to date.
LEMMA OneCommit ==
  ASSUME CatalogInv, NEW r \in Requests, request' = Overtakes(r),
         catalog' \in [Versions -> RuleRow]
  PROVE  CatalogInv'
<1>1. ASSUME NEW s \in Requests
      PROVE request'[s] \in CatalogRequest /\ ~request'[s].fresh
  <2>1. CASE s = r
    BY <2>1, NoRequestType DEF Overtakes
  <2>2. CASE s # r
    BY <2>2 DEF Overtakes, CatalogInv, CatalogTypeOK, CatalogRequest
  <2> QED BY <2>1, <2>2
<1>2. request' = [s \in Requests |-> request'[s]]
  BY DEF Overtakes
<1> QED BY <1>1, <1>2 DEF CatalogInv, CatalogTypeOK, UpToDate

LEMMA MissingInv ==
  ASSUME CatalogInv, NEW r \in Requests, NEW v \in Versions,
         NEW row \in RuleRow, row.status \in RuleStatuses, Missing(r, v, row)
  PROVE  CatalogInv'
<1> DEFINE q == [ pc |-> "add", version |-> v, row |-> row, target |-> row.status,
                  old |-> {}, lit |-> {}, fresh |-> TRUE ]
<1>1. q \in CatalogRequest /\ UpToDate(q)
  BY DEF CatalogRequest, UpToDate
<1> QED BY <1>1, OneRequest DEF Missing

LEMMA LoadRuleInv ==
  ASSUME CatalogInv, NEW r \in Requests, NEW v \in Versions,
         NEW target \in RuleStatuses, LoadRule(r, v, target)
  PROVE  CatalogInv'
<1> DEFINE q == [ pc |-> IF target = "ACTIVE" THEN "survey" ELSE "commit",
                  version |-> v, row |-> catalog[v], target |-> target,
                  old |-> {}, lit |-> {}, fresh |-> TRUE ]
<1>1. q \in CatalogRequest
  BY DEF CatalogRequest, CatalogInv, CatalogTypeOK
<1>2. UpToDate(q)
  BY DEF UpToDate, LoadRule
<1> QED BY <1>1, <1>2, OneRequest DEF LoadRule

LEMMA SurveyInv ==
  ASSUME CatalogInv, NEW r \in Requests, Survey(r)
  PROVE  CatalogInv'
<1> DEFINE p == request[r]
           others == ActiveVersions \ {p.version}
           q == [ pc |-> "commit", version |-> p.version, row |-> p.row,
                  target |-> p.target, old |-> others,
                  lit |-> {v \in others : catalog[v].enabled}, fresh |-> p.fresh ]
<1>1. p \in CatalogRequest /\ UpToDate(p) /\ p.pc = "survey"
  BY DEF CatalogInv, CatalogTypeOK, Survey
<1>2. q \in CatalogRequest
  BY <1>1 DEF CatalogRequest, ActiveVersions
<1>3. UpToDate(q)
  BY <1>1 DEF UpToDate
<1> QED BY <1>1, <1>2, <1>3, OneRequest DEF Survey

LEMMA CommitPromotionInv ==
  ASSUME CatalogInv, NEW r \in Requests, CommitPromotion(r)
  PROVE  CatalogInv'
<1>1. request[r] \in CatalogRequest /\ catalog \in [Versions -> RuleRow]
  BY DEF CatalogInv, CatalogTypeOK
<1>2. Promoted(request[r]) \in [Versions -> RuleRow]
  <2>1. \A v \in Versions : StatusAfter(request[r], v) \in RuleStatuses \cup {"ABSENT"}
    BY <1>1 DEF StatusAfter, RuleRow, RuleStatuses, CatalogRequest
  <2>2. \A v \in Versions : EnabledAfter(request[r], v) \in BOOLEAN
    BY <1>1 DEF EnabledAfter, RuleRow
  <2> QED BY <2>1, <2>2 DEF Promoted, RuleRow
<1> QED BY <1>2, OneCommit DEF CommitPromotion

LEMMA AddRuleInv ==
  ASSUME CatalogInv, NEW r \in Requests, AddRule(r)
  PROVE  CatalogInv'
<1>1. request[r] \in CatalogRequest /\ catalog \in [Versions -> RuleRow]
  BY DEF CatalogInv, CatalogTypeOK
<1>2. catalog' \in [Versions -> RuleRow]
  BY <1>1 DEF AddRule, CatalogRequest
<1> QED BY <1>2, OneCommit DEF AddRule

LEMMA NextInv == CatalogInv /\ [CatalogNext]_catalogVars => CatalogInv'
<1> SUFFICES ASSUME CatalogInv, [CatalogNext]_catalogVars PROVE CatalogInv'
  OBVIOUS
<1>1. ASSUME NEW r \in Requests, NEW v \in Versions, CreateRule(r, v) \/ Bootstrap(r, v)
      PROVE  CatalogInv'
  BY <1>1, MissingInv DEF CreateRule, Bootstrap, RuleRow, RuleStatuses
<1>2. ASSUME NEW r \in Requests, RequestGone(r)
      PROVE  CatalogInv'
  BY <1>2, OneRequest, NoRequestType DEF RequestGone, UpToDate
<1>3. CASE UNCHANGED catalogVars
  BY <1>3 DEF catalogVars, CatalogInv, CatalogTypeOK, UpToDate, ActiveVersions
<1> QED
  BY <1>1, <1>2, <1>3, AddRuleInv, LoadRuleInv, SurveyInv, CommitPromotionInv,
     CatalogAssumption
  DEF CatalogNext

\* In every reachable state the catalogue and the requests are in their types,
\* and a request that nothing has overtaken has what the catalogue says.
THEOREM RequestsAreUpToDate == CatalogSpec => []CatalogInv
  BY InitInv, NextInv, PTL DEF CatalogSpec

-----------------------------------------------------------------------------
\* The request whose commit a step is.
LEMMA Committer ==
  ASSUME CatalogInv, [CatalogNext]_catalogVars, NEW r \in Requests, Commits(r)
  PROVE  AddRule(r) \/ CommitPromotion(r)
<1>1. catalog' # catalog
  BY DEF Commits
<1>2. PICK s \in Requests : AddRule(s) \/ CommitPromotion(s)
  BY <1>1 DEF CatalogNext, catalogVars, Bootstrap, CreateRule, Missing, LoadRule, Survey,
              RequestGone
<1>3. CASE s # r
  <2>1. request'[r] = [request[r] EXCEPT !.fresh = FALSE]
    BY <1>2, <1>3 DEF AddRule, CommitPromotion, Overtakes
  <2>2. request'[r].pc = request[r].pc
    BY <2>1 DEF CatalogInv, CatalogTypeOK, CatalogRequest
  <2> QED BY <2>2 DEF Commits
<1> QED BY <1>2, <1>3

\* What a promotion writes that nothing has overtaken.
LEMMA PromotionCommits ==
  ASSUME CatalogInv, NEW r \in Requests, CommitPromotion(r), request[r].fresh
  PROVE  /\ request[r].target = "ACTIVE" =>
              /\ ActiveVersions' = {request[r].version}
              /\ catalog'[request[r].version].enabled
         /\ (ActiveVersions # {} /\ ActiveVersions' = {}) =>
              /\ request[r].target = "RETIRED"
              /\ ActiveVersions = {request[r].version}
         /\ \A v \in Versions :
              catalog[v].status = "RETIRED" => catalog'[v].status = "RETIRED"
<1> DEFINE q == request[r]
<1>1. /\ q \in CatalogRequest /\ catalog \in [Versions -> RuleRow] /\ UpToDate(q)
      /\ q.pc = "commit" /\ q.fresh
  BY DEF CatalogInv, CatalogTypeOK, CommitPromotion
<1>2. q.version \in Versions /\ q.target \in RuleStatuses /\ q.row = catalog[q.version]
  BY <1>1 DEF CatalogRequest, UpToDate
<1>3. q.target \in Transitions[catalog[q.version].status]
  BY <1>1, <1>2 DEF UpToDate
<1>4. catalog[q.version].status \in RuleStatuses \cup {"ABSENT"}
  BY <1>1, <1>2 DEF RuleRow
<1>5. \/ catalog[q.version].status = "DRAFT" /\ q.target = "TESTING"
      \/ catalog[q.version].status = "TESTING" /\ q.target \in {"ACTIVE", "DRAFT"}
      \/ catalog[q.version].status = "ACTIVE" /\ q.target = "RETIRED"
  BY <1>3, <1>4 DEF Transitions, RuleStatuses
<1>6. q.old = IF q.target = "ACTIVE" THEN ActiveVersions \ {q.version} ELSE {}
  BY <1>1 DEF UpToDate
<1>7. \A v \in Versions : /\ catalog'[v].status = StatusAfter(q, v)
                         /\ catalog'[v].enabled = EnabledAfter(q, v)
  BY DEF CommitPromotion, Promoted
<1>8. \A v \in Versions :
        catalog'[v].status = IF v = q.version THEN q.target
                             ELSE IF v \in q.old THEN "RETIRED" ELSE catalog[v].status
  BY <1>7 DEF StatusAfter
<1>9. q.target = "ACTIVE" =>
        ActiveVersions' = {q.version} /\ catalog'[q.version].enabled
  <2> SUFFICES ASSUME q.target = "ACTIVE"
               PROVE  ActiveVersions' = {q.version} /\ catalog'[q.version].enabled
    OBVIOUS
  <2>1. ActiveVersions' = {q.version}
    BY <1>2, <1>6, <1>8 DEF ActiveVersions
  <2>2. EnabledAfter(q, q.version)
    BY <1>2, Zenon DEF EnabledAfter
  <2> QED BY <1>2, <1>7, <2>1, <2>2
<1>10. (ActiveVersions # {} /\ ActiveVersions' = {}) =>
         q.target = "RETIRED" /\ ActiveVersions = {q.version}
  BY <1>2, <1>5, <1>6, <1>8 DEF ActiveVersions
<1>11. \A v \in Versions :
         catalog[v].status = "RETIRED" => catalog'[v].status = "RETIRED"
  BY <1>2, <1>5, <1>8
<1> QED BY <1>9, <1>10, <1>11

\* Adding a version takes no other out of force.
LEMMA AdditionCommits ==
  ASSUME CatalogInv, NEW r \in Requests, AddRule(r)
  PROVE  /\ ActiveVersions \subseteq ActiveVersions'
         /\ \A v \in Versions :
              catalog[v].status = "RETIRED" => catalog'[v].status = "RETIRED"
         /\ request[r].pc # "commit"
<1>1. /\ catalog[request[r].version].status = "ABSENT"
      /\ catalog' = [catalog EXCEPT ![request[r].version] = request[r].row]
      /\ request[r].pc = "add"
  BY DEF AddRule
<1>2. catalog \in [Versions -> RuleRow]
  BY DEF CatalogInv, CatalogTypeOK
<1>3. \A v \in Versions : catalog[v].status # "ABSENT" => catalog'[v] = catalog[v]
  BY <1>1, <1>2
<1> QED BY <1>1, <1>3 DEF ActiveVersions

\* Whatever requests overlap: a promotion that nothing overtakes leaves exactly
\* its version in force, retiring is the only way to be left without one, and
\* RETIRED is final.
THEOREM PromotionsAreAlwaysSound == CatalogSpec => PromotionsAreSound
<1>1. CatalogInv /\ [CatalogNext]_catalogVars =>
        [\A r \in Requests :
           Commits(r) /\ request[r].fresh =>
             /\ (request[r].pc = "commit" /\ request[r].target = "ACTIVE") =>
                  /\ ActiveVersions' = {request[r].version}
                  /\ catalog'[request[r].version].enabled
             /\ (ActiveVersions # {} /\ ActiveVersions' = {}) =>
                  /\ request[r].target = "RETIRED"
                  /\ ActiveVersions = {request[r].version}
             /\ \A v \in Versions :
                  catalog[v].status = "RETIRED" => catalog'[v].status = "RETIRED"]_catalogVars
  BY Committer, PromotionCommits, AdditionCommits
<1> QED BY <1>1, RequestsAreUpToDate, PTL DEF CatalogSpec, PromotionsAreSound

-----------------------------------------------------------------------------
(***************************************************************************)
(* The event feed: FeedIsComplete for any events, timestamps, limits and   *)
(* caps, however telemetry comes in and is deleted between the pages.  The *)
(* invariant says of a traversal under way what FeedIsComplete says of its *)
(* end: by cursor it has been given what is behind the cursor; by offset,  *)
(* an event it has not been given has at least as many newer ones before   *)
(* it as the offset counts.                                                *)
(***************************************************************************)

Newer(e) == {f \in table : Stamp[f] > Stamp[e]}

CursorInv ==
  reader.mode = "cursor" =>
    \A e \in steady : e <= reader.at \/ reader.done => e \in reader.seen

\* Event e is still to come.
Ahead(e) == ~reader.done /\ Cardinality(Newer(e)) >= reader.at

OffsetInv ==
  reader.mode = "offset" =>
    \A e \in steady : Untied(e) => e \in reader.seen \/ Ahead(e)

Started ==
  /\ steady \subseteq table
  /\ reader.mode = "idle" => ~reader.done

FeedInv == FeedTypeOK /\ Started /\ CursorInv /\ OffsetInv

LEMMA EventTypes ==
  /\ EventIds \subseteq Nat \ {0} /\ IsFiniteSet(EventIds)
  /\ \A e \in EventIds : Stamp[e] \in Nat
  /\ CursorCap \in Nat \ {0} /\ OffsetCap \in Nat \ {0} /\ Asked \subseteq Nat
  BY FeedAssumption

\* Sets of events are finite, and a subset has no more elements.
LEMMA Sizes ==
  ASSUME NEW S \in SUBSET EventIds
  PROVE  /\ IsFiniteSet(S) /\ Cardinality(S) \in Nat
         /\ \A T \in SUBSET S : /\ Cardinality(T) \in Nat
                                /\ Cardinality(T) <= Cardinality(S)
                                /\ Cardinality(T) = Cardinality(S) => T = S
<1>1. IsFiniteSet(S)
  BY FS_Subset, EventTypes
<1>2. ASSUME NEW T \in SUBSET S
      PROVE  /\ Cardinality(T) \in Nat /\ Cardinality(T) <= Cardinality(S)
             /\ Cardinality(T) = Cardinality(S) => T = S
  BY <1>1, FS_Subset, FS_CardinalityType
<1> QED BY <1>1, <1>2, FS_CardinalityType

LEMMA ReaderFacts ==
  ASSUME FeedInv
  PROVE  /\ reader.mode \in {"idle", "cursor", "offset"} /\ reader.at \in Nat
         /\ reader.limit \in Nat /\ reader.seen \subseteq EventIds
         /\ reader.done \in BOOLEAN /\ table \subseteq EventIds /\ steady \subseteq table
  BY DEF FeedInv, FeedTypeOK, Reader, Started

LEMMA FeedInitInv == FeedInit => FeedInv
<1> SUFFICES ASSUME FeedInit PROVE FeedInv
  OBVIOUS
<1>1. FeedTypeOK /\ Started
  BY DEF FeedInit, FeedTypeOK, Reader, Started
<1>2. CursorInv /\ OffsetInv
  BY DEF FeedInit, CursorInv, OffsetInv
<1> QED BY <1>1, <1>2 DEF FeedInv

LEMMA StartReadingInv ==
  ASSUME FeedInv, NEW mode \in {"cursor", "offset"}, NEW n \in Asked, StartReading(mode, n)
  PROVE  FeedInv'
<1>1. table' = table /\ steady' = table
  BY DEF StartReading
<1>2. PICK limit \in Nat :
        reader' = [mode |-> mode, at |-> 0, limit |-> limit, seen |-> {}, done |-> FALSE]
  BY EventTypes DEF StartReading, CursorLimit, AtMost
<1>3. FeedTypeOK' /\ Started'
  BY <1>1, <1>2, ReaderFacts DEF FeedTypeOK, Reader, Started
<1>4. CursorInv'
  <2>1. \A e \in steady' : e \in Nat \ {0}
    BY <1>1, ReaderFacts, EventTypes
  <2>2. reader'.at = 0 /\ ~reader'.done
    BY <1>2
  <2>3. \A e \in steady' : ~(e <= reader'.at)
    BY <2>1, <2>2
  <2> QED BY <2>2, <2>3 DEF CursorInv
<1>5. OffsetInv'
  <2> SUFFICES ASSUME NEW e \in steady' PROVE Ahead(e)'
    BY DEF OffsetInv
  <2>1. Newer(e)' \in SUBSET EventIds
    BY <1>1, ReaderFacts DEF Newer
  <2>2. Cardinality(Newer(e)') \in Nat
    BY <2>1, Sizes
  <2> QED BY <1>2, <2>2 DEF Ahead
<1> QED BY <1>3, <1>4, <1>5 DEF FeedInv

\* Between two pages: what is newer than an event of the traversal stays so.
LEMMA BetweenPages ==
  ASSUME FeedInv, reader' = reader, table' \subseteq EventIds, steady' \subseteq table',
         steady' \subseteq steady, \A e \in steady' : Newer(e) \subseteq Newer(e)'
  PROVE  FeedInv'
<1>1. FeedTypeOK' /\ Started'
  BY ReaderFacts DEF FeedInv, FeedTypeOK, Started
<1>2. CursorInv'
  BY DEF FeedInv, CursorInv
<1>3. OffsetInv'
  <2> SUFFICES ASSUME reader.mode = "offset", NEW e \in steady', Untied(e), e \notin reader.seen
               PROVE  Ahead(e)'
    BY DEF OffsetInv
  <2>1. Ahead(e)
    BY DEF FeedInv, OffsetInv
  <2>2. Newer(e)' \in SUBSET EventIds /\ Newer(e) \in SUBSET Newer(e)'
    BY DEF Newer
  <2>3. /\ Cardinality(Newer(e)) \in Nat /\ Cardinality(Newer(e)') \in Nat
        /\ Cardinality(Newer(e)) <= Cardinality(Newer(e)')
    BY <2>2, Sizes
  <2> QED BY <2>1, <2>3, ReaderFacts DEF Ahead
<1> QED BY <1>1, <1>2, <1>3 DEF FeedInv

LEMMA InsertEventInv ==
  ASSUME FeedInv, NEW e \in EventIds, InsertEvent(e)
  PROVE  FeedInv'
<1>1. reader' = reader /\ steady' = steady /\ table' = table \cup {e}
  BY DEF InsertEvent
<1>2. \A f \in steady' : Newer(f) \subseteq Newer(f)'
  BY <1>1 DEF Newer
<1> QED BY <1>1, <1>2, BetweenPages, ReaderFacts

LEMMA RetentionInv ==
  ASSUME FeedInv, NEW cutoff \in Nat, Retention(cutoff)
  PROVE  FeedInv'
<1> DEFINE kept == {e \in table : Stamp[e] >= cutoff}
<1>1. reader' = reader /\ steady' = steady \cap kept /\ table' = kept
  BY DEF Retention
<1>2. ASSUME NEW f \in steady', NEW g \in Newer(f) PROVE g \in Newer(f)'
  <2>1. g \in table /\ Stamp[g] > Stamp[f] /\ Stamp[f] >= cutoff
    BY <1>1 DEF Newer
  <2>2. Stamp[g] \in Nat /\ Stamp[f] \in Nat
    BY <1>1, <2>1, ReaderFacts, EventTypes
  <2> QED BY <1>1, <2>1, <2>2 DEF Newer
<1> QED BY <1>1, <1>2, BetweenPages, ReaderFacts

LEMMA CursorPageInv ==
  ASSUME FeedInv, CursorPage
  PROVE  FeedInv'
<1> DEFINE rest == {e \in table : e > reader.at}
<1>1. reader.mode = "cursor" /\ table' = table /\ steady' = steady
  BY DEF CursorPage
<1>2. \A e \in steady : e \in EventIds /\ e \in Nat /\ e \in table
                        /\ (e <= reader.at => e \in reader.seen)
  BY <1>1, ReaderFacts, EventTypes DEF FeedInv, CursorInv
<1>3. CASE reader' = Given(rest, reader.at, TRUE)
  <2>1. FeedTypeOK' /\ Started' /\ reader'.mode = "cursor"
    BY <1>1, <1>3, ReaderFacts DEF Given, FeedTypeOK, Reader, Started
  <2>2. CursorInv'
    BY <1>1, <1>2, <1>3, ReaderFacts DEF Given, CursorInv
  <2> QED BY <2>1, <2>2 DEF FeedInv, OffsetInv
<1>4. ASSUME NEW last \in rest, reader' = Given({e \in rest : e <= last}, last, FALSE)
      PROVE  FeedInv'
  <2>1. last \in Nat
    BY ReaderFacts, EventTypes
  <2>2. FeedTypeOK' /\ Started' /\ reader'.mode = "cursor"
    BY <1>1, <1>4, <2>1, ReaderFacts DEF Given, FeedTypeOK, Reader, Started
  <2>3. CursorInv'
    BY <1>1, <1>2, <1>4, <2>1, ReaderFacts DEF Given, CursorInv
  <2> QED BY <2>2, <2>3 DEF FeedInv, OffsetInv
<1> QED BY <1>3, <1>4 DEF CursorPage

\* What comes before a set of rows that may come first is in it: an event that is
\* not in it has at least all of it before itself.
LEMMA BehindThePage ==
  ASSUME FeedInv, NEW S \in SUBSET table, ComesFirst(S), NEW e \in table, e \notin S,
         Untied(e)
  PROVE  S \subseteq Newer(e)
<1> SUFFICES ASSUME NEW f \in S PROVE Stamp[f] > Stamp[e]
  BY DEF Newer
<1>1. Stamp[f] >= Stamp[e] /\ f # e /\ f \in EventIds /\ e \in EventIds
  BY ReaderFacts DEF ComesFirst
<1>2. Stamp[f] # Stamp[e]
  BY <1>1 DEF Untied
<1> QED BY <1>1, <1>2, EventTypes

\* And an event that is in it has only rows of it before itself.
LEMMA WithinTheSkipped ==
  ASSUME FeedInv, NEW S \in SUBSET table, ComesFirst(S), NEW e \in S
  PROVE  Cardinality(Newer(e)) < Cardinality(S)
<1>1. ASSUME NEW f \in Newer(e) PROVE f \in S \ {e}
  <2>1. f \in table /\ Stamp[f] > Stamp[e] /\ Stamp[f] \in Nat /\ Stamp[e] \in Nat
    BY ReaderFacts, EventTypes DEF Newer
  <2>2. f \in S
    BY <2>1 DEF ComesFirst
  <2> QED BY <2>1, <2>2
<1>2. Newer(e) \in SUBSET S /\ Newer(e) # S /\ S \in SUBSET EventIds
  BY <1>1, ReaderFacts
<1>3. /\ Cardinality(Newer(e)) \in Nat /\ Cardinality(S) \in Nat
      /\ Cardinality(Newer(e)) <= Cardinality(S) /\ Cardinality(Newer(e)) # Cardinality(S)
  BY <1>2, Sizes
<1> QED BY <1>3

LEMMA OffsetPageInv ==
  ASSUME FeedInv, OffsetPage
  PROVE  FeedInv'
<1>1. reader.mode = "offset" /\ ~reader.done /\ table' = table /\ steady' = steady
  BY DEF OffsetPage
<1>2. PICK skipped \in SUBSET table, page \in SUBSET table :
        /\ page \cap skipped = {}
        /\ ComesFirst(skipped) /\ ComesFirst(skipped \cup page)
        /\ Cardinality(skipped) = AtMost(reader.at, Cardinality(table))
        /\ Cardinality(page) = AtMost(reader.limit, Cardinality(table \ skipped))
        /\ reader' = Given(page, reader.at + reader.limit, Cardinality(page) < reader.limit)
  BY DEF OffsetPage
<1> DEFINE ending == Cardinality(page) < reader.limit
<1>3. /\ reader'.mode = "offset" /\ reader'.at = reader.at + reader.limit
      /\ reader'.limit = reader.limit /\ reader'.seen = reader.seen \cup page
      /\ reader'.done = ending
  BY <1>1, <1>2 DEF Given
<1>4. FeedTypeOK'
  <2>1. ending \in BOOLEAN /\ reader.at + reader.limit \in Nat
    BY ReaderFacts
  <2>2. reader.seen \cup page \subseteq EventIds /\ reader.limit \in Nat
    BY ReaderFacts
  <2> HIDE DEF ending
  <2>3. reader' = [mode |-> "offset", at |-> reader.at + reader.limit,
                   limit |-> reader.limit, seen |-> reader.seen \cup page,
                   done |-> ending]
    BY <1>1, <1>2 DEF Given, ending
  <2> QED BY <1>1, <2>1, <2>2, <2>3, ReaderFacts DEF FeedTypeOK, Reader
<1>5. ASSUME NEW e \in steady, Untied(e), e \notin reader.seen \cup page
      PROVE  Ahead(e)'
  <2>1. e \in table /\ Cardinality(Newer(e)) >= reader.at
    BY <1>1, <1>5, ReaderFacts DEF FeedInv, OffsetInv, Ahead
  <2>2. /\ table \in SUBSET EventIds /\ skipped \in SUBSET EventIds
        /\ table \ skipped \in SUBSET EventIds /\ page \in SUBSET EventIds
        /\ Newer(e) \in SUBSET EventIds /\ skipped \cup page \in SUBSET EventIds
    BY ReaderFacts DEF Newer
  <2>3. /\ Cardinality(table) \in Nat /\ Cardinality(skipped) \in Nat
        /\ Cardinality(page) \in Nat /\ Cardinality(Newer(e)) \in Nat
        /\ Cardinality(table \ skipped) \in Nat
    BY <2>2, Sizes
  <2>4. e \notin skipped
    <3>1. SUFFICES ASSUME e \in skipped PROVE FALSE
      OBVIOUS
    <3>2. Cardinality(Newer(e)) < Cardinality(skipped)
      BY <1>2, <3>1, WithinTheSkipped
    <3> QED BY <1>2, <2>1, <2>3, <3>2, ReaderFacts DEF AtMost
  <2>5. Cardinality(skipped) = reader.at
    <3>1. Cardinality(skipped) # Cardinality(table)
      BY <2>1, <2>2, <2>4, Sizes
    <3> QED BY <1>2, <3>1, ReaderFacts, <2>3 DEF AtMost
  <2>6. Cardinality(page) = reader.limit
    <3>1. page \in SUBSET (table \ skipped) /\ page # table \ skipped
      BY <1>2, <1>5, <2>1, <2>4
    <3>2. Cardinality(page) # Cardinality(table \ skipped)
      BY <2>2, <3>1, Sizes
    <3> QED BY <1>2, <3>2, ReaderFacts, <2>3 DEF AtMost
  <2>7. Cardinality(skipped \cup page) = reader.at + reader.limit
    <3>1. IsFiniteSet(skipped) /\ IsFiniteSet(page) /\ skipped \cap page = {}
      BY <1>2, <2>2, Sizes
    <3>2. Cardinality(skipped \cap page) = 0
      BY <3>1, FS_EmptySet
    <3>3. Cardinality(skipped \cup page)
            = Cardinality(skipped) + Cardinality(page) - Cardinality(skipped \cap page)
      BY <3>1, FS_Union
    <3> QED BY <2>5, <2>6, <3>2, <3>3, ReaderFacts
  <2>8. skipped \cup page \in SUBSET Newer(e)
    <3>1. skipped \cup page \in SUBSET table /\ e \notin skipped \cup page
      BY <1>5, <2>4
    <3> QED BY <1>2, <1>5, <2>1, <3>1, BehindThePage
  <2>9. Cardinality(Newer(e)) >= reader.at + reader.limit
    BY <2>2, <2>3, <2>7, <2>8, Sizes, ReaderFacts
  <2>10. Newer(e)' = Newer(e)
    BY <1>1 DEF Newer
  <2>11. ~ending
    BY <2>6, ReaderFacts
  <2> HIDE DEF ending
  <2> QED BY <1>3, <2>9, <2>10, <2>11 DEF Ahead
<1>6. OffsetInv'
  BY <1>1, <1>3, <1>5 DEF OffsetInv
<1>7. Started' /\ CursorInv'
  BY <1>1, <1>3, ReaderFacts DEF Started, CursorInv
<1> QED BY <1>4, <1>6, <1>7 DEF FeedInv

LEMMA FeedNextInv == FeedInv /\ [FeedNext]_feedVars => FeedInv'
<1> SUFFICES ASSUME FeedInv, [FeedNext]_feedVars PROVE FeedInv'
  OBVIOUS
<1>1. ASSUME NEW mode \in {"cursor", "offset"}, NEW n \in Asked, StartReading(mode, n)
      PROVE  FeedInv'
  BY <1>1, StartReadingInv
<1>2. ASSUME NEW e \in EventIds, InsertEvent(e) PROVE FeedInv'
  BY <1>2, InsertEventInv
<1>3. ASSUME NEW e \in EventIds, Retention(Stamp[e] + 1) PROVE FeedInv'
  <2>1. Stamp[e] + 1 \in Nat
    BY EventTypes
  <2> QED BY <1>3, <2>1, RetentionInv
<1>4. CASE CursorPage \/ OffsetPage
  BY <1>4, CursorPageInv, OffsetPageInv
<1>5. CASE UNCHANGED feedVars
  <2>1. UNCHANGED <<table, reader, steady>>
    BY <1>5 DEF feedVars
  <2>2. \A e \in steady' : Newer(e) \subseteq Newer(e)'
    BY <2>1 DEF Newer
  <2> QED BY <2>1, <2>2, BetweenPages, ReaderFacts
<1> QED BY <1>1, <1>2, <1>3, <1>4, <1>5 DEF FeedNext

\* A traversal by cursor is given every event that was there from its beginning to
\* its end, and one by offset every such event with a timestamp of its own,
\* whatever comes in and is deleted between the pages (platform_api.py 444-468,
\* main.py 512-545).
THEOREM TraversalsAreComplete == FeedSpec => []FeedIsComplete
<1>1. FeedInv => FeedIsComplete
  <2> SUFFICES ASSUME FeedInv, reader.done, NEW e \in steady,
                      reader.mode = "cursor" \/ Untied(e)
               PROVE  e \in reader.seen
    BY DEF FeedIsComplete
  <2>1. reader.mode \in {"cursor", "offset"}
    BY ReaderFacts DEF FeedInv, Started
  <2> QED BY <2>1 DEF FeedInv, CursorInv, OffsetInv, Ahead
<1> QED BY <1>1, FeedInitInv, FeedNextInv, PTL DEF FeedSpec

-----------------------------------------------------------------------------
(***************************************************************************)
(* Side by side.                                                           *)
(***************************************************************************)

LEMMA PlatformBegins ==
  PlatformInit =>
    AssessmentInit /\ CatalogInit /\ ConnectorInit /\ CaseInit /\ FeedInit
  BY DEF PlatformInit

\* A step of the platform is one of its parts, and none of the others.
LEMMA PlatformSteps ==
  [PlatformNext]_platformVars =>
    /\ [AssessmentNext]_assessmentVars /\ [CatalogNext]_catalogVars
    /\ [ConnectorNext]_connectorVars /\ [CaseNext]_caseVars /\ [FeedNext]_feedVars
<1>1. CASE PlatformNext
  BY <1>1 DEF PlatformNext
<1>2. CASE UNCHANGED platformVars
  BY <1>2 DEF platformVars
<1> QED BY <1>1, <1>2

\* What is proved of a part holds of it in the composition.
LEMMA PartsRunAsSpecified ==
  PlatformSpec => AssessmentSpec /\ CatalogSpec /\ ConnectorSpec /\ CaseSpec /\ FeedSpec
  BY PlatformBegins, PlatformSteps, PTL
  DEF PlatformSpec, AssessmentSpec, CatalogSpec, ConnectorSpec, CaseSpec, FeedSpec

\* Every variable of the assessment, the catalogue, the connector, a case and the
\* feed keeps its type, whatever the constants: the strength stays within its cap
\* of 40, a token's and a circuit's clocks within their ranges, a trail names only
\* bookmarks and notes, a reader only events.
THEOREM PlatformIsTyped == PlatformSpec => []PlatformTypeOK
<1>1. CatalogInv => CatalogTypeOK
  BY DEF CatalogInv
<1>2. ConnectorInv => ConnectorTypeOK
  BY DEF ConnectorInv
<1>3. CaseInv => CaseTypeOK
  BY DEF CaseInv
<1>4. FeedInv => FeedTypeOK
  BY DEF FeedInv
<1>5. ConnectorSpec => []ConnectorInv
  BY ConnectorInitInv, ConnectorNextInv, PTL DEF ConnectorSpec
<1>6. FeedSpec => []FeedInv
  BY FeedInitInv, FeedNextInv, PTL DEF FeedSpec
<1>7. AssessmentTypeOK /\ CatalogTypeOK /\ ConnectorTypeOK /\ CaseTypeOK /\ FeedTypeOK
        => PlatformTypeOK
  BY DEF PlatformTypeOK
<1> QED
  BY <1>1, <1>2, <1>3, <1>4, <1>5, <1>6, <1>7, PartsRunAsSpecified, AssessmentTypes,
     RequestsAreUpToDate, CaseInvariant, PTL
=============================================================================
