--------------------------- MODULE ResponseActions ---------------------------
(***************************************************************************)
(* The response to one incident: two-person approvals (platform_api.py),   *)
(* the execution of response actions through a connector                   *)
(* (response_actions.py), the PATCH of its status (main.py), and the       *)
(* correlation engine that enriches it with later evidence                 *)
(* (correlation_engine.py).                                                *)
(*                                                                         *)
(* Every one of them reads the rows, works on what it has read and commits *)
(* later; threads interleave between any two of these steps.  There is no  *)
(* lock and no version column: a commit writes the columns that differ     *)
(* from what the thread has loaded (SQLAlchemy), and unique constraints    *)
(* are all that makes it fail.                                             *)
(*                                                                         *)
(* A finding is an event and the flag it raises there.  The pipeline       *)
(* records findings on the events of any case, also of one it does not     *)
(* enrich, and whoever asks what an incident's events show reads the table *)
(* anew.  Timestamps other than the age of an approval, texts and the      *)
(* confidence are left out; the risk score is any of RiskScores.           *)
(***************************************************************************)
EXTENDS Playbook, Sequences, FiniteSets

CONSTANTS
  Users,         \* principals that may request, approve and execute
  NoUser,        \* approved_by of a row nobody has approved
  Threads,       \* API threads and the worker's pipeline
  Tried,         \* the actions that are requested and executed
  Events,        \* telemetry
  Groups,        \* findings an incident may start from
  Batches,       \* findings a later batch of telemetry may add
  RiskScores,    \* the scores calculate_risk may give
  AuthRequired,  \* settings.auth_required
  MaxApprovals,  \* how many approvals are requested at most
  Faults,        \* the kinds of fault that may happen
  MaxFaults      \* how many faults a behaviour has at most

FaultKinds ==
  { "crash",       \* a process dies, or the database fails, between two steps
    "rejected",    \* the connector raises and the provider has done nothing
    "reply_lost" } \* the connector raises and the provider has acted

ASSUME UsersAssumption == NoUser \notin Users
ASSUME EvidenceAssumption ==
  /\ Groups \cup Batches \subseteq SUBSET (Events \X Flags)
  /\ Groups # {} /\ RiskScores \subseteq Nat /\ RiskScores # {}
ASSUME TriedAssumption == Tried \subseteq Actions
ASSUME AuthAssumption == AuthRequired \in BOOLEAN
ASSUME FaultsAssumption == Faults \subseteq FaultKinds /\ MaxFaults \in Nat

VARIABLES
  findings,    \* detection_findings: pairs of an event and a flag
  incident,    \* the row of the incident
  approvals,   \* action_approvals, in the order of insertion
  executions,  \* actions that have their row in connector_executions
  provider,    \* actions the identity provider has carried out
  audit,       \* for each action, its SUCCESS rows in the activity log
  thread,      \* what each thread is doing
  faults       \* number of faults so far

vars == <<findings, incident, approvals, executions, provider, audit, thread, faults>>

IncidentStatuses == {"NEW", "INVESTIGATING", "CONTAINED", "RESOLVED"}
ApprovalStatuses == {"PENDING", "APPROVED", "EXPIRED", "CONSUMED"}
ThreadPCs == {"idle", "insert", "decide", "authorize", "expire", "connect",
              "progress", "commit", "assess", "write"}

\* recommended_actions is one JSON column: the actions of a playbook, each with
\* its objectives, and which of them are EXECUTED.
Plan(playbook, executed) == [playbook |-> playbook, executed |-> executed]
Row(events, type, actions, risk, residual, status) ==
  [events |-> events, type |-> type, actions |-> actions, risk |-> risk,
   residual |-> residual, status |-> status]
\* stale: the row is APPROVED and approval_ttl_minutes have gone by since.
Approval(a, by, approver, status, stale) ==
  [action |-> a, requested_by |-> by, approved_by |-> approver,
   status |-> status, stale |-> stale]

NoAction == "none"

\* A thread at pc: the action, the user and the approval (0: none) it works on,
\* the row it has loaded, the row it has computed from it, whether it has added a
\* row to connector_executions, and the findings it has added.
Job(pc, a, u, item, row, new, fresh) ==
  [pc |-> pc, action |-> a, user |-> u, item |-> item, row |-> row,
   new |-> new, fresh |-> fresh, found |-> {}]

\* A pipeline's transaction.
Enrichment(pc, row, new, found) ==
  [Job(pc, NoAction, NoUser, 0, row, new, FALSE) EXCEPT !.found = found]

NoRow == Row({}, "Suspicious Activity", Plan("none", {}), 0, 0, "NEW")
Idle == Job("idle", NoAction, NoUser, 0, NoRow, NoRow, FALSE)

Plans == [playbook : PlaybookIds, executed : SUBSET Actions]
Rows == [events : SUBSET Events, type : IncidentTypes, actions : Plans,
         risk : Nat, residual : Nat, status : IncidentStatuses]
Approvals == [action : Actions, requested_by : Users,
              approved_by : Users \cup {NoUser}, status : ApprovalStatuses,
              stale : BOOLEAN]
Jobs == [pc : ThreadPCs, action : Actions \cup {NoAction},
         user : Users \cup {NoUser}, item : Nat, row : Rows, new : Rows,
         fresh : BOOLEAN, found : SUBSET (Events \X Flags)]

IncidentType == incident \in Rows /\ findings \subseteq Events \X Flags
TablesType ==
  /\ approvals \in Seq(Approvals)
  /\ executions \subseteq Actions /\ provider \subseteq Actions
  /\ audit \in [Actions -> Nat]
ThreadType ==
  /\ thread \in [Threads -> Jobs]
  /\ \A t \in Threads :
       /\ thread[t].item \in 0..Len(approvals)
       /\ thread[t].pc \in {"decide", "expire"} => thread[t].item # 0
       /\ thread[t].pc = "decide" => thread[t].user \in Users
       /\ thread[t].pc = "insert" => thread[t].user \in Users
       /\ thread[t].pc \in {"insert", "authorize", "expire", "connect", "progress",
                           "commit"} => thread[t].action \in Actions

TypeOK == IncidentType /\ TablesType /\ ThreadType /\ faults \in 0..MaxFaults

EventsOf(found) == {f[1] : f \in found}

\* _finding_flags(): what the findings that are stored say of the events.
FlagsOf(events, found) == {f[2] : f \in {g \in found : g[1] \in events}}

Opened(found, risk) ==
  LET flags == FlagsOf(EventsOf(found), found) IN
  Row(EventsOf(found), infer_incident_type(flags), Plan(select_playbook(flags), {}),
      risk, risk, "NEW")

Init ==
  /\ \E found \in Groups, risk \in RiskScores :
       findings = found /\ incident = Opened(found, risk)
  /\ approvals = <<>> /\ executions = {} /\ provider = {}
  /\ audit = [a \in Actions |-> 0]
  /\ thread = [t \in Threads |-> Idle]
  /\ faults = 0

Fault(kind) == kind \in Faults /\ faults < MaxFaults /\ faults' = faults + 1
Becomes(t, job) == thread' = [thread EXCEPT ![t] = job]

\* What a flush makes of a column: the new value if it differs from the loaded
\* one, the value another thread may have put there if it does not.
Column(loaded, new, current) == IF new = loaded THEN current ELSE new
Flushed(loaded, new) ==
  Row(Column(loaded.events, new.events, incident.events),
      Column(loaded.type, new.type, incident.type),
      Column(loaded.actions, new.actions, incident.actions),
      Column(loaded.risk, new.risk, incident.risk),
      Column(loaded.residual, new.residual, incident.residual),
      Column(loaded.status, new.status, incident.status))

\* uq_open_action_approval: another row of the action has the status.
Taken(a, status, i) ==
  \E j \in 1..Len(approvals) :
    j # i /\ approvals[j].action = a /\ approvals[j].status = status

SetApproval(i, approver, status, stale) ==
  approvals' = [approvals EXCEPT ![i] =
    Approval(approvals[i].action, approvals[i].requested_by, approver, status, stale)]

-----------------------------------------------------------------------------
(* Approvals: request_approval() and approve(). *)

\* No pending row of the action; there is one answers with that row.
RequestApproval(t, u, a) ==
  /\ thread[t].pc = "idle" /\ Len(approvals) < MaxApprovals
  /\ ~Taken(a, "PENDING", 0)
  /\ Becomes(t, Job("insert", a, u, 0, NoRow, NoRow, FALSE))
  /\ UNCHANGED <<findings, incident, approvals, executions, provider, audit, faults>>

\* A second pending row of the action is refused by the unique constraint.
InsertApproval(t) ==
  LET a == thread[t].action IN
  /\ thread[t].pc = "insert"
  /\ IF Taken(a, "PENDING", 0) THEN UNCHANGED approvals
     ELSE approvals' = Append(approvals,
                         Approval(a, thread[t].user, NoUser, "PENDING", FALSE))
  /\ Becomes(t, Idle)
  /\ UNCHANGED <<findings, incident, executions, provider, audit, faults>>

LoadApproval(t, u, i) ==
  /\ thread[t].pc = "idle"
  /\ approvals[i].requested_by # u /\ approvals[i].status = "PENDING"
  /\ Becomes(t, Job("decide", approvals[i].action, u, i, NoRow, NoRow, FALSE))
  /\ UNCHANGED <<findings, incident, approvals, executions, provider, audit, faults>>

\* The commit writes status, approver and time whatever the row is by then.
CommitApproval(t) ==
  LET i == thread[t].item IN
  /\ thread[t].pc = "decide"
  /\ IF Taken(approvals[i].action, "APPROVED", i) THEN UNCHANGED approvals
     ELSE SetApproval(i, thread[t].user, "APPROVED", FALSE)
  /\ Becomes(t, Idle)
  /\ UNCHANGED <<findings, incident, executions, provider, audit, faults>>

\* approval_ttl_minutes go by after the decision.
ApprovalAges(i) ==
  /\ approvals[i].status = "APPROVED" /\ ~approvals[i].stale
  /\ SetApproval(i, approvals[i].approved_by, "APPROVED", TRUE)
  /\ UNCHANGED <<findings, incident, executions, provider, audit, thread, faults>>

-----------------------------------------------------------------------------
(* Execution of an action: ResponseActionService.execute(). *)

NeedsApproval(a) == AuthRequired /\ HighImpact(a)

\* Mutant: nothing refuses an action that has been executed.
LoadIncident_Again(t, a) ==
  /\ thread[t].pc = "idle"
  /\ a \in Offered[incident.actions.playbook]
  /\ Becomes(t, Job("authorize", a, NoUser, 0, incident, NoRow, FALSE))
  /\ UNCHANGED <<findings, incident, approvals, executions, provider, audit, faults>>

\* The action is recommended and its copy in the row is not EXECUTED.
LoadIncident(t, a) ==
  /\ thread[t].pc = "idle"
  /\ a \in Offered[incident.actions.playbook] \ incident.actions.executed
  /\ Becomes(t, Job("authorize", a, NoUser, 0, incident, NoRow, FALSE))
  /\ UNCHANGED <<findings, incident, approvals, executions, provider, audit, faults>>

Goes(t, pc, item) ==
  Becomes(t, Job(pc, thread[t].action, NoUser, item, thread[t].row, NoRow, FALSE))

\* Mutant: the query does not filter on the status.
Authorize_AnyStatus(t) ==
  LET a == thread[t].action
      found == {i \in 1..Len(approvals) : approvals[i].action = a} IN
  /\ thread[t].pc = "authorize"
  /\ IF ~NeedsApproval(a) THEN Goes(t, "connect", 0)
     ELSE \/ found = {} /\ Becomes(t, Idle)
          \/ \E i \in found : Goes(t, "connect", i)
  /\ UNCHANGED <<findings, incident, approvals, executions, provider, audit, faults>>

\* Reads the APPROVED row of the action: none is a 409, an old one expires.
Authorize(t) ==
  LET a == thread[t].action
      found == {i \in 1..Len(approvals) :
                  approvals[i].action = a /\ approvals[i].status = "APPROVED"} IN
  /\ thread[t].pc = "authorize"
  /\ IF ~NeedsApproval(a) THEN Goes(t, "connect", 0)
     ELSE \/ found = {} /\ Becomes(t, Idle)
          \/ \E i \in found :
               Goes(t, IF approvals[i].stale THEN "expire" ELSE "connect", i)
  /\ UNCHANGED <<findings, incident, approvals, executions, provider, audit, faults>>

\* Commits EXPIRED; the unique constraint turns a second one into a 500.
ExpireApproval(t) ==
  LET i == thread[t].item IN
  /\ thread[t].pc = "expire"
  /\ IF Taken(approvals[i].action, "EXPIRED", i) THEN UNCHANGED approvals
     ELSE SetApproval(i, approvals[i].approved_by, "EXPIRED", FALSE)
  /\ Becomes(t, Idle)
  /\ UNCHANGED <<findings, incident, executions, provider, audit, faults>>

\* Mutant: the approval is consumed in a transaction of its own, before the call.
Connect_ConsumesFirst(t) ==
  LET a == thread[t].action
      i == thread[t].item
      seen == a \in executions IN
  /\ thread[t].pc = "connect"
  /\ provider' = IF seen THEN provider ELSE provider \cup {a}
  /\ IF i = 0 THEN UNCHANGED approvals
     ELSE SetApproval(i, approvals[i].approved_by, "CONSUMED", FALSE)
  /\ Becomes(t, Job("progress", a, NoUser, i, thread[t].row, NoRow, ~seen))
  /\ UNCHANGED <<findings, incident, executions, audit, faults>>

\* A row of connector_executions is reused; without one the provider is called.
Connect(t) ==
  LET a == thread[t].action
      seen == a \in executions IN
  /\ thread[t].pc = "connect"
  /\ provider' = IF seen THEN provider ELSE provider \cup {a}
  /\ Becomes(t, Job("progress", a, NoUser, thread[t].item, thread[t].row, NoRow, ~seen))
  /\ UNCHANGED <<findings, incident, approvals, executions, audit, faults>>

\* ConnectorError: 502, nothing is committed.
ConnectFails(t) ==
  /\ thread[t].pc = "connect" /\ thread[t].action \notin executions
  /\ \/ Fault("rejected") /\ UNCHANGED provider
     \/ Fault("reply_lost") /\ provider' = provider \cup {thread[t].action}
  /\ Becomes(t, Idle)
  /\ UNCHANGED <<findings, incident, approvals, executions, audit>>

\* What execute() makes of the row it has loaded, once it has read the flags of
\* the row's events.
Executed(row, a, flags) ==
  LET id == row.actions.playbook
      done == row.actions.executed \cup {a} IN
  Row(row.events, row.type, Plan(id, done), row.risk, residual_risk(row.risk, done),
      IF containment_progress(flags, id, done) THEN "CONTAINED"
      ELSE IF row.status = "NEW" THEN "INVESTIGATING" ELSE row.status)

\* The findings are read after the connector has answered, before the commit.
ReadProgress(t) ==
  LET a == thread[t].action
      row == thread[t].row IN
  /\ thread[t].pc = "progress"
  /\ Becomes(t, Job("commit", a, NoUser, thread[t].item, row,
                    Executed(row, a, FlagsOf(row.events, findings)), thread[t].fresh))
  /\ UNCHANGED <<findings, incident, approvals, executions, provider, audit, faults>>

\* Mutant: the execution row is left for another transaction.
CommitExecution_NotRecorded(t) ==
  LET a == thread[t].action
      i == thread[t].item IN
  /\ thread[t].pc = "commit"
  /\ \/ /\ i # 0 /\ Taken(a, "CONSUMED", i)
        /\ UNCHANGED <<incident, approvals, audit>>
     \/ /\ i # 0 => ~Taken(a, "CONSUMED", i)
        /\ incident' = Flushed(thread[t].row, thread[t].new)
        /\ audit' = [audit EXCEPT ![a] = @ + 1]
        /\ IF i = 0 THEN UNCHANGED approvals
           ELSE SetApproval(i, approvals[i].approved_by, "CONSUMED", FALSE)
  /\ Becomes(t, Idle)
  /\ UNCHANGED <<findings, executions, provider, faults>>

\* One transaction: the action, the execution row, the audit row, the approval.
\* It rolls back when the key of the execution row or the status is taken.
CommitExecution(t) ==
  LET a == thread[t].action
      i == thread[t].item
      fails == \/ thread[t].fresh /\ a \in executions
               \/ i # 0 /\ Taken(a, "CONSUMED", i) IN
  /\ thread[t].pc = "commit"
  /\ \/ fails /\ UNCHANGED <<incident, approvals, executions, audit>>
     \/ /\ ~fails
        /\ incident' = Flushed(thread[t].row, thread[t].new)
        /\ executions' = executions \cup {a}
        /\ audit' = [audit EXCEPT ![a] = @ + 1]
        /\ IF i = 0 THEN UNCHANGED approvals
           ELSE SetApproval(i, approvals[i].approved_by, "CONSUMED", FALSE)
  /\ Becomes(t, Idle)
  /\ UNCHANGED <<findings, provider, faults>>

-----------------------------------------------------------------------------
(* The status of the incident (update_incident) and its enrichment. *)

\* Mutant: a contained case may be taken up again.
Allowed_Reopen ==
  [ NEW |-> {"INVESTIGATING"}, INVESTIGATING |-> {"RESOLVED"},
    CONTAINED |-> {"RESOLVED", "INVESTIGATING"}, RESOLVED |-> {} ]

Allowed ==
  [ NEW |-> {"INVESTIGATING"}, INVESTIGATING |-> {"RESOLVED"},
    CONTAINED |-> {"RESOLVED"}, RESOLVED |-> {} ]

WithStatus(row, status) ==
  Row(row.events, row.type, row.actions, row.risk, row.residual, status)

\* PATCH with another status than the one the row has.
LoadStatus(t, target) ==
  /\ thread[t].pc = "idle"
  /\ target \in Allowed[incident.status]
  /\ Becomes(t, Job("write", NoAction, NoUser, 0, incident,
                    WithStatus(incident, target), FALSE))
  /\ UNCHANGED <<findings, incident, approvals, executions, provider, audit, faults>>

\* Mutant: actions lose their status when later evidence arrives.
Enriched_Forgets(row, events, flags, risk) ==
  Row(events, infer_incident_type(flags), Plan(select_playbook(flags), {}), risk,
      residual_risk(risk, row.actions.executed), row.status)

\* The row with the events of its batch and the flags all of them have by then:
\* actions keep their status if the type is the same.
Enriched(row, events, flags, risk) ==
  LET type == infer_incident_type(flags)
      executed == IF type = row.type
                  THEN row.actions.executed \cap recommend_playbook(flags) ELSE {} IN
  Row(events, type, Plan(select_playbook(flags), executed), risk,
      residual_risk(risk, executed), row.status)

\* What a batch adds to the row, before the row is assessed.
Joined(row, batch, risk) ==
  Row(row.events \cup EventsOf(batch), row.type, row.actions, risk, row.residual,
      row.status)

\* Mutant: a contained or resolved case is enriched like an open one.
LoadForEnrichment_AnyStatus(t, batch, risk) ==
  /\ thread[t].pc = "idle"
  /\ Becomes(t, Enrichment("assess", incident, Joined(incident, batch, risk),
                           batch \ findings))
  /\ UNCHANGED <<findings, incident, approvals, executions, provider, audit, faults>>

\* The findings of the batch that the table does not have are flushed, and an
\* open case is found to join.
LoadForEnrichment(t, batch, risk) ==
  /\ thread[t].pc = "idle"
  /\ incident.status \in {"NEW", "INVESTIGATING"}
  /\ Becomes(t, Enrichment("assess", incident, Joined(incident, batch, risk),
                           batch \ findings))
  /\ UNCHANGED <<findings, incident, approvals, executions, provider, audit, faults>>

\* All findings on the events are read again, those just flushed among them.
Assess(t) ==
  LET job == thread[t]
      flags == FlagsOf(job.new.events, findings \cup job.found) IN
  /\ job.pc = "assess"
  /\ Becomes(t, Enrichment("write", job.row,
                           Enriched(job.row, job.new.events, flags, job.new.risk),
                           job.found))
  /\ UNCHANGED <<findings, incident, approvals, executions, provider, audit, faults>>

\* It rolls back when another transaction has stored one of its findings
\* (uq_finding).
CommitRow(t) ==
  LET job == thread[t] IN
  /\ job.pc = "write"
  /\ IF job.found \cap findings # {} THEN UNCHANGED <<findings, incident>>
     ELSE /\ findings' = findings \cup job.found
          /\ incident' = Flushed(job.row, job.new)
  /\ Becomes(t, Idle)
  /\ UNCHANGED <<approvals, executions, provider, audit, faults>>

\* A transaction of the pipeline records findings, some of them perhaps on events
\* of this case, and does not enrich it: it is CONTAINED or RESOLVED, or what the
\* batch brings forms another group.
Annotate(batch) ==
  /\ findings' = findings \cup batch
  /\ UNCHANGED <<incident, approvals, executions, provider, audit, thread, faults>>

\* A process dies or the database raises: what is not committed is gone.
Dies(t) ==
  /\ thread[t].pc # "idle" /\ Fault("crash")
  /\ Becomes(t, Idle)
  /\ UNCHANGED <<findings, incident, approvals, executions, provider, audit>>

-----------------------------------------------------------------------------
Decision(t) ==
  \/ \E u \in Users, a \in Tried : RequestApproval(t, u, a)
  \/ InsertApproval(t)
  \/ \E u \in Users, i \in 1..Len(approvals) : LoadApproval(t, u, i)
  \/ CommitApproval(t)

Execution(t) ==
  \/ \E a \in Tried : LoadIncident(t, a)
  \/ Authorize(t) \/ ExpireApproval(t) \/ Connect(t) \/ ConnectFails(t)
  \/ ReadProgress(t) \/ CommitExecution(t)

RowChange(t) ==
  \/ \E target \in IncidentStatuses : LoadStatus(t, target)
  \/ \E batch \in Batches, risk \in RiskScores : LoadForEnrichment(t, batch, risk)
  \/ Assess(t) \/ CommitRow(t)

Next ==
  \/ \E t \in Threads : Decision(t) \/ Execution(t) \/ RowChange(t) \/ Dies(t)
  \/ \E i \in 1..Len(approvals) : ApprovalAges(i)
  \/ \E batch \in Batches : Annotate(batch)

Spec == Init /\ [][Next]_vars

-----------------------------------------------------------------------------
(* What holds whatever the threads do to each other. *)

\* Somebody other than the requester has approved the action.
TwoPersons(i) == approvals[i].approved_by \notin {NoUser, approvals[i].requested_by}

\* The provider never carries out a high-impact action, and no execution of one
\* is recorded, unless two persons have stood behind it.
TwoPersonControl ==
  \A a \in provider \cup executions : NeedsApproval(a) =>
    \E i \in 1..Len(approvals) : approvals[i].action = a /\ TwoPersons(i)

\* The case never claims an action that has no execution row, and no execution
\* row exists for an action the provider has not been asked to carry out.
ClaimsAreBacked ==
  incident.actions.executed \subseteq executions /\ executions \subseteq provider

(* What holds as long as requests on the incident do not overlap. *)

\* CONTAINED is earned and kept: the playbook the case recommends has all of its
\* required objectives completed by actions executed on the incident.  Findings
\* that come later, on the events of a contained case too, may select another
\* playbook: the case and its recommendations stay as they are.
ContainedIsEarned ==
  incident.status = "CONTAINED" =>
    Completes(incident.actions.playbook, incident.actions.executed)

\* The residual risk shown is that of the risk and actions shown.
ResidualMatches ==
  incident.residual = residual_risk(incident.risk, incident.actions.executed)

\* A high-impact action of an incident is executed with success at most once,
\* whatever fails in between and whatever later evidence makes of its
\* recommendations. An action that needs no approval is executed at most once
\* per playbook that offers it: a case that changes its type forgets what was
\* executed, and nothing else bars the action.
ExecutedOnce ==
  \A a \in Actions :
    audit[a] <= IF NeedsApproval(a)
                THEN 1
                ELSE Cardinality({id \in PlaybookIds : a \in Offered[id]})

\* Approvals are consumed together with success: as many of them are CONSUMED
\* as there are successful executions of the high-impact action.
Consumed(a) ==
  {i \in 1..Len(approvals) : approvals[i].action = a /\ approvals[i].status = "CONSUMED"}
ConsumedWithSuccess ==
  \A a \in Actions : NeedsApproval(a) => audit[a] = Cardinality(Consumed(a))

\* The rows as the life of a case: an authorization is in force while the table
\* holds an APPROVED row of the action behind which two persons stand.
Granted ==
  {approvals[i].action : i \in
     {j \in 1..Len(approvals) : approvals[j].status = "APPROVED" /\ TwoPersons(j)}}
Contains == {p \in PlaybookIds \X SUBSET Actions : Completes(p[1], p[2])}

\* What the findings stored for the events of the case select.
Evidence == select_playbook(FlagsOf(incident.events, findings))

Life == INSTANCE CaseLife WITH
  Playbooks <- PlaybookIds, Sufficient <- Contains,
  Guarded <- {a \in Actions : NeedsApproval(a)},
  stage <- incident.status, playbook <- incident.actions.playbook, evidence <- Evidence,
  done <- incident.actions.executed, granted <- Granted

\* The single-use capability of the response service, the playbooks and the status
\* rules together: what becomes of a case is a life of CaseLife. An execution uses up
\* an authorization that is in force when it commits and is of an action that is
\* offered and not done; it contains the case when the playbook it is recommended by
\* is complete and is still the one the evidence selects. Evidence rises at every
\* stage, but moves only an open case to another playbook, and never back; and only
\* the analyst who resolves it takes a case out of CONTAINED.
ImplementsCaseLife == Life!Spec

(* What the documentation says, and the code does not do. *)

\* An approval is a single-use capability: a high-impact action succeeds no more
\* often than there are approvals that two persons have stood behind.
Approved(a) == {i \in 1..Len(approvals) : approvals[i].action = a /\ TwoPersons(i)}
SingleUse == \A a \in Actions : NeedsApproval(a) => audit[a] <= Cardinality(Approved(a))

\* A resolved case stays resolved.
ResolvedIsFinal ==
  [][incident.status = "RESOLVED" => incident'.status = "RESOLVED"]_vars
=============================================================================
