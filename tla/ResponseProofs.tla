---------------------------- MODULE ResponseProofs ----------------------------
(***************************************************************************)
(* Theorems about ResponseActions, for any users, threads and faults: type *)
(* correctness, two-person control and the backing of what a case claims,  *)
(* however the requests interleave; and, for requests that do not overlap, *)
(* that CONTAINED is earned and kept, that the residual risk is that of    *)
(* the actions, that each success has used up one approval and is the only *)
(* one, and that the rows of the case implement CaseLife.                  *)
(***************************************************************************)
EXTENDS ResponseActions, FiniteSetTheorems, TLAPS

(* The playbook tables. *)

LEMMA PlaybookType ==
  ASSUME NEW flags
  PROVE  /\ select_playbook(flags) \in PlaybookIds
         /\ infer_incident_type(flags) \in IncidentTypes
         /\ recommend_playbook(flags) \in SUBSET Actions
<1>1. select_playbook(flags) \in PlaybookIds
  BY DEF select_playbook, PlaybookIds
<1>2. infer_incident_type(flags) \in IncidentTypes
  BY DEF infer_incident_type, IncidentTypes
<1>3. \A id \in PlaybookIds : Offered[id] \in SUBSET Actions
  BY DEF PlaybookIds, Offered, Actions, ACTION_REDUCTIONS
<1> QED BY <1>1, <1>2, <1>3 DEF recommend_playbook

LEMMA ReductionType == ASSUME NEW executed PROVE Reduction(executed) \in Nat
BY DEF Reduction, Points, ACTION_REDUCTIONS

LEMMA ResidualType ==
  ASSUME NEW original \in Nat, NEW executed
  PROVE  residual_risk(original, executed) \in Nat
BY ReductionType DEF residual_risk

(* Rows. *)

LEMMA RowType ==
  ASSUME NEW events \in SUBSET Events, NEW type \in IncidentTypes,
         NEW actions \in Plans, NEW risk \in Nat, NEW residual \in Nat,
         NEW status \in IncidentStatuses
  PROVE  Row(events, type, actions, risk, residual, status) \in Rows
BY DEF Row, Rows

LEMMA PlanType ==
  ASSUME NEW id \in PlaybookIds, NEW executed \in SUBSET Actions
  PROVE  Plan(id, executed) \in Plans
BY DEF Plan, Plans

LEMMA FlushedType ==
  ASSUME NEW loaded \in Rows, NEW new \in Rows, incident \in Rows
  PROVE  /\ Flushed(loaded, new) \in Rows
         /\ Flushed(loaded, new).actions \in {incident.actions, new.actions}
<1>1. \A x, y, z, S : y \in S /\ z \in S => Column(x, y, z) \in S
  BY DEF Column
<1>2. /\ Column(loaded.events, new.events, incident.events) \in SUBSET Events
      /\ Column(loaded.type, new.type, incident.type) \in IncidentTypes
      /\ Column(loaded.actions, new.actions, incident.actions) \in Plans
      /\ Column(loaded.risk, new.risk, incident.risk) \in Nat
      /\ Column(loaded.residual, new.residual, incident.residual) \in Nat
      /\ Column(loaded.status, new.status, incident.status) \in IncidentStatuses
  BY <1>1 DEF Rows
<1>3. Flushed(loaded, new) \in Rows
  BY <1>2, RowType DEF Flushed
<1>4. Flushed(loaded, new).actions = Column(loaded.actions, new.actions, incident.actions)
  BY DEF Flushed, Row
<1> QED BY <1>3, <1>4 DEF Column

LEMMA EventsType ==
  ASSUME NEW found \in SUBSET (Events \X Flags)
  PROVE  EventsOf(found) \in SUBSET Events
BY DEF EventsOf

LEMMA OpenedType ==
  ASSUME NEW found \in SUBSET (Events \X Flags), NEW risk \in Nat
  PROVE  Opened(found, risk) \in Rows /\ Opened(found, risk).actions.executed = {}
<1> DEFINE flags == FlagsOf(EventsOf(found), found)
<1>1. select_playbook(flags) \in PlaybookIds /\ infer_incident_type(flags) \in IncidentTypes
  BY PlaybookType
<1>2. Plan(select_playbook(flags), {}) \in Plans
  BY <1>1, PlanType
<1>3. EventsOf(found) \in SUBSET Events /\ "NEW" \in IncidentStatuses
  BY EventsType DEF IncidentStatuses
<1>4. Opened(found, risk) = Row(EventsOf(found), infer_incident_type(flags),
                                Plan(select_playbook(flags), {}), risk, risk, "NEW")
  BY DEF Opened
<1> HIDE DEF flags
<1>5. Opened(found, risk) \in Rows
  BY <1>1, <1>2, <1>3, <1>4, RowType
<1> QED BY <1>4, <1>5 DEF Row, Plan

LEMMA ExecutedType ==
  ASSUME NEW row \in Rows, NEW a \in Actions, NEW flags
  PROVE  /\ Executed(row, a, flags) \in Rows
         /\ Executed(row, a, flags).actions.executed = row.actions.executed \cup {a}
<1> DEFINE id == row.actions.playbook
           done == row.actions.executed \cup {a}
           status == IF containment_progress(flags, id, done) THEN "CONTAINED"
                     ELSE IF row.status = "NEW" THEN "INVESTIGATING" ELSE row.status
<1>0. /\ row.events \in SUBSET Events /\ row.type \in IncidentTypes
      /\ row.actions \in Plans /\ row.risk \in Nat /\ row.status \in IncidentStatuses
  BY DEF Rows
<1>1. Plan(id, done) \in Plans
  BY <1>0, PlanType DEF Plans
<1>2. status \in IncidentStatuses
  BY <1>0 DEF IncidentStatuses
<1>3. residual_risk(row.risk, done) \in Nat
  BY <1>0, ResidualType
<1>4. Executed(row, a, flags) = Row(row.events, row.type, Plan(id, done), row.risk,
                                    residual_risk(row.risk, done), status)
  BY DEF Executed
<1>5. Executed(row, a, flags) \in Rows
  BY <1>0, <1>1, <1>2, <1>3, <1>4, RowType
<1>6. Executed(row, a, flags).actions.executed = done
  BY <1>4 DEF Row, Plan
<1> QED BY <1>5, <1>6

LEMMA EnrichedType ==
  ASSUME NEW row \in Rows, NEW events \in SUBSET Events, NEW flags, NEW risk \in Nat
  PROVE  /\ Enriched(row, events, flags, risk) \in Rows
         /\ Enriched(row, events, flags, risk).actions.executed \subseteq row.actions.executed
<1> DEFINE type == infer_incident_type(flags)
           id == select_playbook(flags)
           executed == IF type = row.type
                       THEN row.actions.executed \cap recommend_playbook(flags) ELSE {}
<1>0. row.actions \in Plans /\ row.status \in IncidentStatuses
  BY DEF Rows
<1>1. type \in IncidentTypes /\ id \in PlaybookIds
  BY PlaybookType
<1>2. executed \in SUBSET Actions /\ executed \subseteq row.actions.executed
  BY <1>0 DEF Plans
<1>3. Plan(id, executed) \in Plans
  BY <1>1, <1>2, PlanType
<1>4. residual_risk(risk, executed) \in Nat
  BY ResidualType
<1>5. Enriched(row, events, flags, risk)
        = Row(events, type, Plan(id, executed), risk, residual_risk(risk, executed), row.status)
  BY DEF Enriched
<1>6. Enriched(row, events, flags, risk) \in Rows
  BY <1>0, <1>1, <1>3, <1>4, <1>5, RowType
<1> HIDE DEF type, id, executed
<1>7. Enriched(row, events, flags, risk).actions.executed = executed
  BY <1>5 DEF Row, Plan
<1> QED BY <1>2, <1>6, <1>7

LEMMA JoinedType ==
  ASSUME NEW row \in Rows, NEW batch \in SUBSET (Events \X Flags), NEW risk \in Nat
  PROVE  Joined(row, batch, risk) \in Rows /\ Joined(row, batch, risk).actions = row.actions
<1>1. row.events \cup EventsOf(batch) \in SUBSET Events
  BY EventsType DEF Rows
<1>2. Joined(row, batch, risk) \in Rows
  BY <1>1, RowType DEF Rows, Joined
<1> QED BY <1>2 DEF Joined, Row

(* Approvals. *)

LEMMA SetApprovalKeeps ==
  ASSUME approvals \in Seq(Approvals), NEW i \in 1..Len(approvals),
         NEW approver \in Users \cup {NoUser}, NEW status \in ApprovalStatuses,
         NEW stale \in BOOLEAN, SetApproval(i, approver, status, stale)
  PROVE  /\ approvals' \in Seq(Approvals) /\ Len(approvals') = Len(approvals)
         /\ approvals'[i].approved_by = approver /\ approvals'[i].status = status
         /\ \A j \in 1..Len(approvals) :
              /\ approvals'[j].action = approvals[j].action
              /\ approvals'[j].requested_by = approvals[j].requested_by
              /\ j # i => approvals'[j] = approvals[j]
<1> DEFINE new == Approval(approvals[i].action, approvals[i].requested_by,
                           approver, status, stale)
<1>1. approvals[i] \in Approvals
  OBVIOUS
<1>2. new \in Approvals
  BY <1>1 DEF Approval, Approvals
<1>3. approvals' = [approvals EXCEPT ![i] = new]
  BY DEF SetApproval
<1>4. approvals' \in Seq(Approvals) /\ Len(approvals') = Len(approvals)
  BY <1>2, <1>3
<1>5. \A j \in 1..Len(approvals) : approvals'[j] = IF j = i THEN new ELSE approvals[j]
  BY <1>3
<1>6. /\ new.action = approvals[i].action
      /\ new.requested_by = approvals[i].requested_by
      /\ new.approved_by = approver /\ new.status = status
  BY DEF Approval
<1> QED BY <1>4, <1>5, <1>6

LEMMA AppendFacts ==
  ASSUME NEW S, NEW seq \in Seq(S), NEW e \in S
  PROVE  /\ Append(seq, e) \in Seq(S) /\ Len(Append(seq, e)) = Len(seq) + 1
         /\ \A j \in 1..Len(seq) : Append(seq, e)[j] = seq[j]
         /\ Append(seq, e)[Len(seq) + 1] = e
<1>1. Append(seq, e) \in Seq(S)
  OBVIOUS
<1>2. Len(Append(seq, e)) = Len(seq) + 1
  OBVIOUS
<1>3. \A j \in 1..Len(seq) : Append(seq, e)[j] = seq[j]
  OBVIOUS
<1>4. Append(seq, e)[Len(seq) + 1] = e
  OBVIOUS
<1> QED BY <1>1, <1>2, <1>3, <1>4

LEMMA AppendApproval ==
  ASSUME approvals \in Seq(Approvals), NEW a \in Actions, NEW u \in Users,
         approvals' = Append(approvals, Approval(a, u, NoUser, "PENDING", FALSE))
  PROVE  /\ approvals' \in Seq(Approvals) /\ Len(approvals') = Len(approvals) + 1
         /\ \A j \in 1..Len(approvals) : approvals'[j] = approvals[j]
         /\ approvals'[Len(approvals')].status = "PENDING"
<1> DEFINE new == Approval(a, u, NoUser, "PENDING", FALSE)
<1>1. new \in Approvals
  BY DEF Approval, Approvals, ApprovalStatuses
<1>2. new.status = "PENDING"
  BY DEF Approval
<1> HIDE DEF new
<1>3. approvals' = Append(approvals, new)
  BY DEF new
<1>4. /\ Append(approvals, new) \in Seq(Approvals)
      /\ Len(Append(approvals, new)) = Len(approvals) + 1
      /\ \A j \in 1..Len(approvals) : Append(approvals, new)[j] = approvals[j]
      /\ Append(approvals, new)[Len(approvals) + 1] = new
  BY <1>1, AppendFacts
<1> QED BY <1>2, <1>3, <1>4

-----------------------------------------------------------------------------
(* The inductive invariant: what a thread holds is as good as what it relied *)
(* on when it read it, since nothing takes it back.                          *)

\* The job of a thread, typed.
JobType(t) ==
  /\ thread[t] \in Jobs
  /\ thread[t].item \in 0..Len(approvals)
  /\ thread[t].pc \in {"decide", "expire"} => thread[t].item # 0
  /\ thread[t].pc \in {"decide", "insert"} => thread[t].user \in Users
  /\ thread[t].pc \in {"insert", "authorize", "expire", "connect", "progress", "commit"}
       => thread[t].action \in Actions

\* An approver is not the requester; an execution that needs an approval holds
\* one of its action with two persons behind it.
JobAuthorized(t) ==
  /\ thread[t].pc = "decide" =>
       approvals[thread[t].item].requested_by # thread[t].user
  /\ thread[t].pc = "expire" => TwoPersons(thread[t].item)
  /\ thread[t].pc \in {"connect", "progress", "commit"} =>
       /\ NeedsApproval(thread[t].action) =>
            thread[t].item # 0 /\ approvals[thread[t].item].action = thread[t].action
       /\ thread[t].item # 0 => TwoPersons(thread[t].item)

\* What the rows of a thread claim is recorded, and what it is about to record
\* has been carried out.
JobBacked(t) ==
  /\ thread[t].row.actions.executed \subseteq executions
  /\ thread[t].pc \in {"assess", "write"} =>
       thread[t].new.actions.executed \subseteq executions
  /\ thread[t].pc = "commit" =>
       thread[t].new.actions.executed = thread[t].row.actions.executed \cup {thread[t].action}
  /\ thread[t].pc \in {"progress", "commit"} => thread[t].action \in provider

JobInv(t) == JobType(t) /\ JobAuthorized(t) /\ JobBacked(t)

\* A decided approval has two persons behind it.
DecidedByTwo ==
  \A i \in 1..Len(approvals) : approvals[i].status # "PENDING" => TwoPersons(i)

TableInv ==
  /\ IncidentType /\ TablesType /\ faults \in 0..MaxFaults
  /\ DecidedByTwo /\ TwoPersonControl /\ ClaimsAreBacked

IInv ==
  /\ TableInv
  /\ thread \in [Threads -> Jobs]
  /\ \A t \in Threads : JobInv(t)

\* Tables only grow: rows stay, keep their action and requester, and an approval
\* with two persons behind it keeps two persons behind it.
Grows ==
  /\ executions \subseteq executions' /\ provider \subseteq provider'
  /\ Len(approvals) <= Len(approvals')
  /\ \A i \in 1..Len(approvals) :
       /\ approvals'[i].action = approvals[i].action
       /\ approvals'[i].requested_by = approvals[i].requested_by
       /\ TwoPersons(i) => TwoPersons(i)'

LEMMA OtherJobs ==
  ASSUME IInv, Grows, NEW s \in Threads, thread'[s] = thread[s],
         approvals' \in Seq(Approvals)
  PROVE  JobInv(s)'
<1>0. /\ Len(approvals) \in Nat /\ Len(approvals') \in Nat
      /\ Len(approvals) <= Len(approvals')
      /\ thread[s].item \in 0..Len(approvals)
  BY DEF IInv, TableInv, TablesType, JobInv, JobType, Grows
<1>1. JobType(s)'
  BY <1>0 DEF IInv, JobInv, JobType
<1>2. JobAuthorized(s)'
  <2>1. CASE thread[s].item = 0
    BY <2>1 DEF IInv, JobInv, JobType, JobAuthorized
  <2>2. CASE thread[s].item # 0
    <3>1. thread[s].item \in 1..Len(approvals)
      BY <1>0, <2>2
    <3> QED BY <2>2, <3>1 DEF IInv, JobInv, JobAuthorized, Grows
  <2> QED BY <2>1, <2>2
<1>3. JobBacked(s)'
  BY DEF IInv, JobInv, JobBacked, Grows
<1> QED BY <1>1, <1>2, <1>3 DEF JobInv

\* A step that leaves the tables and gives thread t a job that is in order.
LEMMA ReadStep ==
  ASSUME IInv, NEW t \in Threads, NEW job \in Jobs, Becomes(t, job), JobInv(t)',
         UNCHANGED <<findings, incident, approvals, executions, provider, audit, faults>>
  PROVE  IInv'
<1>1. thread' \in [Threads -> Jobs] /\ \A s \in Threads : s # t => thread'[s] = thread[s]
  BY DEF IInv, Becomes
<1>2. TableInv'
  BY DEF IInv, TableInv, IncidentType, TablesType, DecidedByTwo, TwoPersonControl,
         TwoPersons, ClaimsAreBacked
<1>3. Grows /\ approvals' \in Seq(Approvals)
  BY DEF Grows, TwoPersons, IInv, TableInv, TablesType
<1>4. \A s \in Threads : JobInv(s)'
  BY <1>1, <1>3, OtherJobs
<1> QED BY <1>1, <1>2, <1>4 DEF IInv

LEMMA IdleType == Idle \in Jobs /\ Idle.row.actions.executed = {} /\ NoRow \in Rows
<1>1. Plan("none", {}) \in Plans
  BY PlanType DEF PlaybookIds
<1>2. NoRow \in Rows
  BY <1>1, RowType DEF NoRow, IncidentTypes, IncidentStatuses
<1>3. Idle \in Jobs
  BY <1>2 DEF Idle, Job, Jobs, ThreadPCs
<1>4. NoRow.actions.executed = {}
  BY DEF NoRow, Row, Plan
<1> QED BY <1>2, <1>3, <1>4 DEF Idle, Job

\* A thread that goes idle is in order.
LEMMA IdleJob ==
  ASSUME IInv, NEW t \in Threads, Becomes(t, Idle), approvals' \in Seq(Approvals)
  PROVE  JobInv(t)'
<1>1. thread'[t] = Idle
  BY DEF IInv, Becomes
<1>2. /\ Idle.pc = "idle" /\ Idle.item = 0
  BY DEF Idle, Job
<1>3. Len(approvals') \in Nat
  OBVIOUS
<1> QED BY <1>1, <1>2, <1>3, IdleType DEF JobInv, JobType, JobAuthorized, JobBacked

LEMMA JobIsTyped ==
  ASSUME NEW pc \in ThreadPCs, NEW a \in Actions \cup {NoAction},
         NEW u \in Users \cup {NoUser}, NEW item \in Nat, NEW row \in Rows,
         NEW new \in Rows, NEW fresh \in BOOLEAN
  PROVE  Job(pc, a, u, item, row, new, fresh) \in Jobs
BY DEF Job, Jobs

\* A pipeline's transaction, typed.
LEMMA EnrichmentIsTyped ==
  ASSUME NEW pc \in ThreadPCs, NEW row \in Rows, NEW new \in Rows,
         NEW found \in SUBSET (Events \X Flags)
  PROVE  /\ Enrichment(pc, row, new, found) \in Jobs
         /\ Enrichment(pc, row, new, found).pc = pc
         /\ Enrichment(pc, row, new, found).item = 0
         /\ Enrichment(pc, row, new, found).row = row
         /\ Enrichment(pc, row, new, found).new = new
         /\ Enrichment(pc, row, new, found).found = found
BY DEF Enrichment, Job, Jobs

\* A step that changes tables and leaves thread t idle.
LEMMA WriteStep ==
  ASSUME IInv, NEW t \in Threads, Becomes(t, Idle), Grows, TableInv'
  PROVE  IInv'
<1>1. thread' \in [Threads -> Jobs] /\ \A s \in Threads : s # t => thread'[s] = thread[s]
  BY IdleType DEF IInv, Becomes
<1>2. approvals' \in Seq(Approvals)
  BY DEF TableInv, TablesType
<1>3. \A s \in Threads : JobInv(s)'
  BY <1>1, <1>2, OtherJobs, IdleJob
<1> QED BY <1>1, <1>3 DEF IInv

LEMMA NothingGrows ==
  ASSUME IInv, UNCHANGED <<approvals, executions, provider>>
  PROVE  Grows /\ DecidedByTwo' /\ TwoPersonControl'
BY DEF IInv, TableInv, TablesType, Grows, TwoPersons, DecidedByTwo, TwoPersonControl

\* The row of an approval that has, or gets, two persons behind it.
LEMMA ApprovalStep ==
  ASSUME IInv, NEW i \in 1..Len(approvals), NEW approver \in Users,
         approver # approvals[i].requested_by,
         NEW status \in ApprovalStatuses, NEW stale \in BOOLEAN,
         SetApproval(i, approver, status, stale)
  PROVE  /\ approvals' \in Seq(Approvals) /\ Len(approvals') = Len(approvals)
         /\ \A j \in 1..Len(approvals) :
              /\ approvals'[j].action = approvals[j].action
              /\ approvals'[j].requested_by = approvals[j].requested_by
              /\ TwoPersons(j) => TwoPersons(j)'
         /\ DecidedByTwo'
<1>1. approvals \in Seq(Approvals) /\ DecidedByTwo
  BY DEF IInv, TableInv, TablesType
<1>2. /\ approvals' \in Seq(Approvals) /\ Len(approvals') = Len(approvals)
      /\ approvals'[i].approved_by = approver
      /\ \A j \in 1..Len(approvals) :
           /\ approvals'[j].action = approvals[j].action
           /\ approvals'[j].requested_by = approvals[j].requested_by
           /\ j # i => approvals'[j] = approvals[j]
  BY <1>1, SetApprovalKeeps
<1>3. TwoPersons(i)'
  BY <1>2, UsersAssumption DEF TwoPersons
<1>4. \A j \in 1..Len(approvals) : j # i => (TwoPersons(j)' <=> TwoPersons(j))
  BY <1>2 DEF TwoPersons
<1>5. DecidedByTwo'
  BY <1>1, <1>2, <1>3, <1>4 DEF DecidedByTwo
<1> QED BY <1>2, <1>3, <1>4, <1>5

\* An approver that is an approver already.
LEMMA ApproverIsUser ==
  ASSUME IInv, NEW i \in 1..Len(approvals), TwoPersons(i)
  PROVE  approvals[i].approved_by \in Users
         /\ approvals[i].approved_by # approvals[i].requested_by
<1>1. approvals[i] \in Approvals
  BY DEF IInv, TableInv, TablesType
<1> QED BY <1>1 DEF TwoPersons, Approvals

\* A step that only changes the row of one approval.
LEMMA ApprovalOnly ==
  ASSUME IInv, NEW i \in 1..Len(approvals), NEW approver \in Users,
         approver # approvals[i].requested_by,
         NEW status \in ApprovalStatuses, NEW stale \in BOOLEAN,
         SetApproval(i, approver, status, stale),
         UNCHANGED <<findings, incident, executions, provider, audit, faults>>
  PROVE  Grows /\ TableInv'
<1>1. /\ approvals' \in Seq(Approvals) /\ Len(approvals') = Len(approvals)
      /\ \A j \in 1..Len(approvals) :
           /\ approvals'[j].action = approvals[j].action
           /\ approvals'[j].requested_by = approvals[j].requested_by
           /\ TwoPersons(j) => TwoPersons(j)'
      /\ DecidedByTwo'
  BY ApprovalStep
<1>2. Len(approvals) \in Nat
  BY DEF IInv, TableInv, TablesType
<1>3. Grows
  BY <1>1, <1>2 DEF Grows
<1>4. TwoPersonControl'
  BY <1>1 DEF IInv, TableInv, TwoPersonControl
<1> QED BY <1>1, <1>3, <1>4 DEF IInv, TableInv, IncidentType, TablesType, ClaimsAreBacked

-----------------------------------------------------------------------------
LEMMA InitInv == Init => IInv
<1> SUFFICES ASSUME Init PROVE IInv
  OBVIOUS
<1>1. PICK found \in Groups, risk \in RiskScores :
        findings = found /\ incident = Opened(found, risk)
  BY DEF Init
<1>2. found \in SUBSET (Events \X Flags) /\ risk \in Nat
  BY EvidenceAssumption
<1>3. /\ incident \in Rows /\ incident.actions.executed = {}
      /\ findings \subseteq Events \X Flags
  BY <1>1, <1>2, OpenedType
<1>4. TableInv
  BY <1>3, FaultsAssumption
     DEF Init, TableInv, IncidentType, TablesType, DecidedByTwo, TwoPersonControl,
         ClaimsAreBacked
<1>5. thread \in [Threads -> Jobs]
  BY IdleType DEF Init
<1>6. ASSUME NEW t \in Threads PROVE JobInv(t)
  <2>1. thread[t] = Idle /\ Idle.pc = "idle" /\ Idle.item = 0 /\ Len(approvals) = 0
    BY DEF Init, Idle, Job
  <2> QED BY <2>1, IdleType DEF JobInv, JobType, JobAuthorized, JobBacked
<1> QED BY <1>4, <1>5, <1>6 DEF IInv

-----------------------------------------------------------------------------
(* The steps. *)

LEMMA ThreadFacts ==
  ASSUME IInv, NEW t \in Threads
  PROVE  /\ JobInv(t) /\ thread[t] \in Jobs /\ thread[t].row \in Rows
         /\ thread[t].new \in Rows /\ thread[t].item \in Nat
         /\ thread[t].item \in 0..Len(approvals)
         /\ thread[t].item # 0 => thread[t].item \in 1..Len(approvals)
         /\ thread[t].found \in SUBSET (Events \X Flags)
         /\ findings \in SUBSET (Events \X Flags)
         /\ incident \in Rows /\ approvals \in Seq(Approvals) /\ Len(approvals) \in Nat
         /\ incident.actions.executed \subseteq executions
         /\ \A job : Becomes(t, job) => thread'[t] = job
<1>1. JobInv(t) /\ thread[t] \in Jobs /\ JobType(t)
  BY DEF IInv, JobInv
<1>2. /\ approvals \in Seq(Approvals) /\ Len(approvals) \in Nat /\ incident \in Rows
      /\ findings \in SUBSET (Events \X Flags)
      /\ incident.actions.executed \subseteq executions
  BY DEF IInv, TableInv, TablesType, IncidentType, ClaimsAreBacked
<1>3. /\ thread[t].row \in Rows /\ thread[t].new \in Rows /\ thread[t].item \in Nat
      /\ thread[t].found \in SUBSET (Events \X Flags)
  BY <1>1 DEF Jobs
<1>4. thread[t].item \in 0..Len(approvals)
  BY <1>1 DEF JobType
<1>5. \A job : Becomes(t, job) => thread'[t] = job
  BY DEF IInv, Becomes
<1> QED BY <1>1, <1>2, <1>3, <1>4, <1>5

\* A step that changes nothing but the state of thread t, which goes idle.
LEMMA GivesUp ==
  ASSUME IInv, NEW t \in Threads, Becomes(t, Idle),
         UNCHANGED <<findings, incident, approvals, executions, provider, audit, faults>>
  PROVE  IInv'
<1>1. JobInv(t)'
  BY IdleJob, ThreadFacts
<1> QED BY <1>1, IdleType, ReadStep

\* The job a thread takes is in order if it holds what its pc asks for.
LEMMA TakesJob ==
  ASSUME IInv, NEW t \in Threads, NEW job \in Jobs, Becomes(t, job),
         UNCHANGED <<approvals, executions>>, job.item \in 0..Len(approvals),
         job.pc \in {"insert", "authorize", "expire", "connect", "progress", "commit"}
           => job.action \in Actions,
         job.pc \in {"decide", "insert"} => job.user \in Users,
         job.pc \in {"decide", "expire"} => job.item # 0,
         job.pc = "decide" => approvals[job.item].requested_by # job.user,
         job.pc = "expire" => TwoPersons(job.item),
         job.pc \in {"connect", "progress", "commit"} =>
           /\ NeedsApproval(job.action) =>
                job.item # 0 /\ approvals[job.item].action = job.action
           /\ job.item # 0 => TwoPersons(job.item),
         job.row.actions.executed \subseteq executions,
         job.pc \in {"assess", "write"} => job.new.actions.executed \subseteq executions,
         job.pc = "commit" =>
           job.new.actions.executed = job.row.actions.executed \cup {job.action},
         job.pc \in {"progress", "commit"} => job.action \in provider'
  PROVE  JobInv(t)'
<1>1. thread'[t] = job
  BY ThreadFacts
<1>2. JobType(t)'
  BY <1>1 DEF JobType
<1>3. JobAuthorized(t)'
  BY <1>1 DEF JobAuthorized, TwoPersons, NeedsApproval
<1>4. JobBacked(t)'
  BY <1>1 DEF JobBacked
<1> QED BY <1>2, <1>3, <1>4 DEF JobInv

LEMMA JobInOrder ==
  ASSUME IInv, NEW t \in Threads, NEW pc \in ThreadPCs,
         NEW a \in Actions \cup {NoAction}, NEW u \in Users \cup {NoUser},
         NEW item \in 0..Len(approvals), NEW row \in Rows, NEW new \in Rows,
         NEW fresh \in BOOLEAN,
         Becomes(t, Job(pc, a, u, item, row, new, fresh)),
         UNCHANGED <<approvals, executions>>,
         pc \in {"insert", "authorize", "expire", "connect", "progress", "commit"}
           => a \in Actions,
         pc \in {"decide", "insert"} => u \in Users,
         pc \in {"decide", "expire"} => item # 0,
         pc = "decide" => approvals[item].requested_by # u,
         pc = "expire" => TwoPersons(item),
         pc \in {"connect", "progress", "commit"} =>
           /\ NeedsApproval(a) => item # 0 /\ approvals[item].action = a
           /\ item # 0 => TwoPersons(item),
         row.actions.executed \subseteq executions,
         pc \in {"assess", "write"} => new.actions.executed \subseteq executions,
         pc = "commit" => new.actions.executed = row.actions.executed \cup {a},
         pc \in {"progress", "commit"} => a \in provider'
  PROVE  JobInv(t)'
<1> DEFINE job == Job(pc, a, u, item, row, new, fresh)
<1>0. item \in Nat /\ Len(approvals) \in Nat
  BY ThreadFacts
<1>1. job \in Jobs
  BY <1>0, JobIsTyped
<1>2. /\ job.pc = pc /\ job.action = a /\ job.user = u
      /\ job.item = item /\ job.row = row /\ job.new = new
  BY DEF Job
<1> HIDE DEF job
<1>3. Becomes(t, job)
  BY DEF job
<1> QED BY <1>1, <1>2, <1>3, TakesJob

\* So is a pipeline's transaction, if the rows it holds claim what is recorded.
LEMMA EnrichmentInOrder ==
  ASSUME IInv, NEW t \in Threads, NEW pc \in {"assess", "write"}, NEW row \in Rows,
         NEW new \in Rows, NEW found \in SUBSET (Events \X Flags),
         row.actions.executed \subseteq executions,
         new.actions.executed \subseteq executions,
         Becomes(t, Enrichment(pc, row, new, found)),
         UNCHANGED <<findings, incident, approvals, executions, provider, audit, faults>>
  PROVE  IInv'
<1> DEFINE job == Enrichment(pc, row, new, found)
<1>1. job \in Jobs /\ job.pc = pc /\ job.item = 0 /\ job.row = row /\ job.new = new
  BY EnrichmentIsTyped DEF ThreadPCs
<1>2. 0 \in 0..Len(approvals)
  BY ThreadFacts
<1> HIDE DEF job
<1>3. Becomes(t, job)
  BY DEF job
<1>4. JobInv(t)'
  BY <1>1, <1>2, <1>3, TakesJob
<1> QED BY <1>1, <1>3, <1>4, ReadStep

LEMMA EmptyRow == NoRow \in Rows /\ NoRow.actions.executed = {}
BY IdleType DEF NoRow, Row, Plan

LEMMA RequestStep ==
  ASSUME IInv, NEW t \in Threads, NEW u \in Users, NEW a \in Tried,
         RequestApproval(t, u, a)
  PROVE  IInv'
<1>1. /\ Becomes(t, Job("insert", a, u, 0, NoRow, NoRow, FALSE))
      /\ UNCHANGED <<findings, incident, approvals, executions, provider, audit, faults>>
  BY DEF RequestApproval
<1>2. a \in Actions /\ 0 \in 0..Len(approvals) /\ "insert" \in ThreadPCs
  BY TriedAssumption, ThreadFacts DEF ThreadPCs
<1>3. JobInv(t)'
  BY <1>1, <1>2, EmptyRow, JobInOrder
<1>4. Job("insert", a, u, 0, NoRow, NoRow, FALSE) \in Jobs
  BY <1>2, EmptyRow, JobIsTyped
<1> QED BY <1>1, <1>3, <1>4, ReadStep

LEMMA InsertStep ==
  ASSUME IInv, NEW t \in Threads, InsertApproval(t)
  PROVE  IInv'
<1> DEFINE a == thread[t].action
           u == thread[t].user
<1>0. a \in Actions /\ u \in Users
  BY ThreadFacts DEF InsertApproval, JobInv, JobType
<1>1. CASE UNCHANGED approvals
  BY <1>1, GivesUp DEF InsertApproval
<1>2. CASE approvals' = Append(approvals, Approval(a, u, NoUser, "PENDING", FALSE))
  <2>1. /\ approvals' \in Seq(Approvals) /\ Len(approvals') = Len(approvals) + 1
        /\ \A j \in 1..Len(approvals) : approvals'[j] = approvals[j]
        /\ approvals'[Len(approvals')].status = "PENDING"
    BY <1>0, <1>2, ThreadFacts, AppendApproval
  <2>2. UNCHANGED <<findings, incident, executions, provider, audit, faults>> /\ Becomes(t, Idle)
    BY DEF InsertApproval
  <2>3. Len(approvals) \in Nat
    BY ThreadFacts
  <2>4. \A j \in 1..Len(approvals) : TwoPersons(j)' <=> TwoPersons(j)
    BY <2>1 DEF TwoPersons
  <2>5. Grows
    BY <2>1, <2>2, <2>3, <2>4 DEF Grows
  <2>6. DecidedByTwo'
    BY <2>1, <2>3, <2>4 DEF IInv, TableInv, DecidedByTwo
  <2>7. TwoPersonControl'
    <3>1. \A j \in 1..Len(approvals) : j \in 1..Len(approvals')
      BY <2>1, <2>3
    <3> QED BY <2>1, <2>2, <2>4, <3>1 DEF IInv, TableInv, TwoPersonControl, NeedsApproval
  <2>8. TableInv'
    BY <2>1, <2>2, <2>6, <2>7
       DEF IInv, TableInv, IncidentType, TablesType, ClaimsAreBacked
  <2> QED BY <2>2, <2>5, <2>8, WriteStep
<1> QED BY <1>1, <1>2 DEF InsertApproval

LEMMA LoadApprovalStep ==
  ASSUME IInv, NEW t \in Threads, NEW u \in Users, NEW i \in 1..Len(approvals),
         LoadApproval(t, u, i)
  PROVE  IInv'
<1> DEFINE a == approvals[i].action
<1>1. /\ Becomes(t, Job("decide", a, u, i, NoRow, NoRow, FALSE))
      /\ UNCHANGED <<findings, incident, approvals, executions, provider, audit, faults>>
      /\ approvals[i].requested_by # u
  BY DEF LoadApproval
<1>2. approvals[i] \in Approvals /\ Len(approvals) \in Nat
  BY ThreadFacts
<1>3. a \in Actions /\ i \in 0..Len(approvals) /\ i # 0 /\ i \in Nat
      /\ "decide" \in ThreadPCs
  BY <1>2 DEF ThreadPCs, Approvals
<1> HIDE DEF a
<1>4. JobInv(t)'
  BY <1>1, <1>3, EmptyRow, JobInOrder
<1>5. Job("decide", a, u, i, NoRow, NoRow, FALSE) \in Jobs
  BY <1>3, EmptyRow, JobIsTyped
<1> QED BY <1>1, <1>4, <1>5, ReadStep

LEMMA CommitApprovalStep ==
  ASSUME IInv, NEW t \in Threads, CommitApproval(t)
  PROVE  IInv'
<1> DEFINE i == thread[t].item
           u == thread[t].user
<1>1. CASE UNCHANGED approvals
  BY <1>1, GivesUp DEF CommitApproval
<1>2. CASE SetApproval(i, u, "APPROVED", FALSE)
  <2>1. i \in 1..Len(approvals) /\ u \in Users /\ u # approvals[i].requested_by
    BY ThreadFacts DEF CommitApproval, JobInv, JobType, JobAuthorized
  <2>2. UNCHANGED <<findings, incident, executions, provider, audit, faults>> /\ Becomes(t, Idle)
    BY DEF CommitApproval
  <2>3. Grows /\ TableInv'
    BY <1>2, <2>1, <2>2, ApprovalOnly DEF ApprovalStatuses
  <2> QED BY <2>2, <2>3, WriteStep
<1> QED BY <1>1, <1>2 DEF CommitApproval

LEMMA AgeStep ==
  ASSUME IInv, NEW i \in 1..Len(approvals), ApprovalAges(i)
  PROVE  IInv'
<1> DEFINE u == approvals[i].approved_by
<1>1. TwoPersons(i)
  BY DEF IInv, TableInv, DecidedByTwo, ApprovalAges
<1>2. u \in Users /\ u # approvals[i].requested_by
  BY <1>1, ApproverIsUser
<1>3. /\ SetApproval(i, u, "APPROVED", TRUE)
      /\ UNCHANGED <<findings, incident, executions, provider, audit, thread, faults>>
  BY DEF ApprovalAges
<1>4. Grows /\ TableInv'
  BY <1>2, <1>3, ApprovalOnly DEF ApprovalStatuses
<1>5. \A s \in Threads : JobInv(s)'
  BY <1>3, <1>4, OtherJobs DEF TableInv, TablesType
<1> QED BY <1>3, <1>4, <1>5 DEF IInv

LEMMA LoadIncidentStep ==
  ASSUME IInv, NEW t \in Threads, NEW a \in Tried, LoadIncident(t, a)
  PROVE  IInv'
<1>1. /\ Becomes(t, Job("authorize", a, NoUser, 0, incident, NoRow, FALSE))
      /\ UNCHANGED <<findings, incident, approvals, executions, provider, audit, faults>>
  BY DEF LoadIncident
<1>2. /\ a \in Actions /\ 0 \in 0..Len(approvals) /\ "authorize" \in ThreadPCs
      /\ incident \in Rows /\ incident.actions.executed \subseteq executions
  BY TriedAssumption, ThreadFacts DEF ThreadPCs
<1>3. JobInv(t)'
  BY <1>1, <1>2, EmptyRow, JobInOrder
<1>4. Job("authorize", a, NoUser, 0, incident, NoRow, FALSE) \in Jobs
  BY <1>2, EmptyRow, JobIsTyped
<1> QED BY <1>1, <1>3, <1>4, ReadStep

LEMMA AuthorizeStep ==
  ASSUME IInv, NEW t \in Threads, Authorize(t)
  PROVE  IInv'
<1> DEFINE a == thread[t].action
           row == thread[t].row
<1>0. /\ a \in Actions /\ row \in Rows /\ row.actions.executed \subseteq executions
      /\ Len(approvals) \in Nat
  BY ThreadFacts DEF Authorize, JobInv, JobType, JobBacked
<1>1. UNCHANGED <<findings, incident, approvals, executions, provider, audit, faults>>
  BY DEF Authorize
<1>2. CASE ~NeedsApproval(a) /\ Goes(t, "connect", 0)
  <2>1. Becomes(t, Job("connect", a, NoUser, 0, row, NoRow, FALSE))
    BY <1>2 DEF Goes
  <2>2. 0 \in 0..Len(approvals) /\ "connect" \in ThreadPCs
    BY <1>0 DEF ThreadPCs
  <2> HIDE DEF a, row
  <2>3. JobInv(t)'
    BY <1>0, <1>1, <1>2, <2>1, <2>2, EmptyRow, JobInOrder
  <2>4. Job("connect", a, NoUser, 0, row, NoRow, FALSE) \in Jobs
    BY <1>0, <2>2, EmptyRow, JobIsTyped
  <2> QED BY <1>1, <2>1, <2>3, <2>4, ReadStep
<1>3. CASE Becomes(t, Idle)
  BY <1>1, <1>3, GivesUp
<1>4. ASSUME NEW i \in 1..Len(approvals), approvals[i].action = a,
             approvals[i].status = "APPROVED",
             Goes(t, IF approvals[i].stale THEN "expire" ELSE "connect", i)
      PROVE  IInv'
  <2> DEFINE pc == IF approvals[i].stale THEN "expire" ELSE "connect"
  <2>1. Becomes(t, Job(pc, a, NoUser, i, row, NoRow, FALSE))
    BY <1>4 DEF Goes
  <2>2. /\ i \in 0..Len(approvals) /\ i # 0 /\ i \in Nat
        /\ pc \in {"expire", "connect"} /\ pc \in ThreadPCs
    BY <1>0 DEF ThreadPCs
  <2>3. TwoPersons(i)
    BY <1>4 DEF IInv, TableInv, DecidedByTwo
  <2> HIDE DEF a, row, pc
  <2>4. JobInv(t)'
    BY <1>0, <1>1, <1>4, <2>1, <2>2, <2>3, EmptyRow, JobInOrder
  <2>5. Job(pc, a, NoUser, i, row, NoRow, FALSE) \in Jobs
    BY <1>0, <2>2, EmptyRow, JobIsTyped
  <2> QED BY <1>1, <2>1, <2>4, <2>5, ReadStep
<1> QED BY <1>2, <1>3, <1>4 DEF Authorize

LEMMA ExpireStep ==
  ASSUME IInv, NEW t \in Threads, ExpireApproval(t)
  PROVE  IInv'
<1> DEFINE i == thread[t].item
           u == approvals[i].approved_by
<1>1. CASE UNCHANGED approvals
  BY <1>1, GivesUp DEF ExpireApproval
<1>2. CASE SetApproval(i, u, "EXPIRED", FALSE)
  <2>1. i \in 1..Len(approvals) /\ TwoPersons(i)
    BY ThreadFacts DEF ExpireApproval, JobInv, JobType, JobAuthorized
  <2>2. u \in Users /\ u # approvals[i].requested_by
    BY <2>1, ApproverIsUser
  <2>3. UNCHANGED <<findings, incident, executions, provider, audit, faults>> /\ Becomes(t, Idle)
    BY DEF ExpireApproval
  <2>4. Grows /\ TableInv'
    BY <1>2, <2>1, <2>2, <2>3, ApprovalOnly DEF ApprovalStatuses
  <2> QED BY <2>3, <2>4, WriteStep
<1> QED BY <1>1, <1>2 DEF ExpireApproval

\* Whoever may call the provider holds what two-person control asks for.
LEMMA CallAuthorized ==
  ASSUME IInv, NEW t \in Threads, thread[t].pc \in {"connect", "progress", "commit"}
  PROVE  /\ thread[t].action \in Actions
         /\ NeedsApproval(thread[t].action) =>
              \E i \in 1..Len(approvals) :
                approvals[i].action = thread[t].action /\ TwoPersons(i)
         /\ thread[t].item # 0 =>
              thread[t].item \in 1..Len(approvals) /\ TwoPersons(thread[t].item)
BY ThreadFacts DEF JobInv, JobType, JobAuthorized

LEMMA ConnectStep ==
  ASSUME IInv, NEW t \in Threads, Connect(t)
  PROVE  IInv'
<1> DEFINE a == thread[t].action
           i == thread[t].item
           row == thread[t].row
           fresh == ~(a \in executions)
<1>1. /\ Becomes(t, Job("progress", a, NoUser, i, row, NoRow, fresh))
      /\ provider' = (IF a \in executions THEN provider ELSE provider \cup {a})
      /\ UNCHANGED <<findings, incident, approvals, executions, audit, faults>>
      /\ thread[t].pc = "connect"
  BY DEF Connect
<1>2. /\ a \in Actions /\ row \in Rows /\ row.actions.executed \subseteq executions
      /\ i \in 0..Len(approvals) /\ i \in Nat
      /\ NeedsApproval(a) => i # 0 /\ approvals[i].action = a
      /\ i # 0 => TwoPersons(i)
  BY <1>1, ThreadFacts DEF JobInv, JobType, JobBacked, JobAuthorized
<1>3. NeedsApproval(a) =>
        \E j \in 1..Len(approvals) : approvals[j].action = a /\ TwoPersons(j)
  BY <1>1, CallAuthorized
<1>4. executions \subseteq provider /\ provider \subseteq Actions /\ executions \subseteq Actions
  BY DEF IInv, TableInv, ClaimsAreBacked, TablesType
<1>5. /\ a \in provider' /\ provider \subseteq provider'
      /\ provider' \subseteq provider \cup {a} /\ provider' \subseteq Actions
  BY <1>1, <1>2, <1>4
<1>6. "progress" \in ThreadPCs /\ fresh \in BOOLEAN
  BY DEF ThreadPCs
<1> HIDE DEF a, i, row, fresh
<1>7. JobInv(t)'
  BY <1>1, <1>2, <1>5, <1>6, EmptyRow, JobInOrder
<1>8. Job("progress", a, NoUser, i, row, NoRow, fresh) \in Jobs
  BY <1>2, <1>6, EmptyRow, JobIsTyped
<1>9. Grows
  BY <1>1, <1>5, ThreadFacts DEF Grows, TwoPersons
<1>10. TwoPersonControl'
  <2>1. \A b \in provider' \cup executions' : b \in provider \cup executions \/ b = a
    BY <1>1, <1>5
  <2> QED BY <1>1, <1>3, <2>1
          DEF IInv, TableInv, TwoPersonControl, TwoPersons, NeedsApproval
<1>11. TableInv'
  BY <1>1, <1>4, <1>5, <1>10
     DEF IInv, TableInv, IncidentType, TablesType, DecidedByTwo, TwoPersons,
         ClaimsAreBacked
<1>12. /\ thread' \in [Threads -> Jobs]
       /\ \A s \in Threads : s # t => thread'[s] = thread[s]
  BY <1>1, <1>8 DEF IInv, Becomes
<1>13. approvals' \in Seq(Approvals)
  BY <1>1, ThreadFacts
<1>14. \A s \in Threads : JobInv(s)'
  BY <1>7, <1>9, <1>12, <1>13, OtherJobs
<1> QED BY <1>11, <1>12, <1>14 DEF IInv

LEMMA FaultType == ASSUME IInv, NEW kind, Fault(kind) PROVE faults' \in 0..MaxFaults
BY FaultsAssumption DEF IInv, TableInv, Fault

LEMMA ConnectFailsStep ==
  ASSUME IInv, NEW t \in Threads, ConnectFails(t)
  PROVE  IInv'
<1> DEFINE a == thread[t].action
<1>1. /\ Becomes(t, Idle) /\ provider' \in {provider, provider \cup {a}}
      /\ UNCHANGED <<findings, incident, approvals, executions, audit>>
      /\ thread[t].pc = "connect" /\ faults' \in 0..MaxFaults
  BY FaultType DEF ConnectFails
<1>2. /\ a \in Actions
      /\ NeedsApproval(a) =>
           \E j \in 1..Len(approvals) : approvals[j].action = a /\ TwoPersons(j)
  BY <1>1, CallAuthorized
<1> HIDE DEF a
<1>3. Grows
  BY <1>1, ThreadFacts DEF Grows, TwoPersons
<1>4. TwoPersonControl'
  <2>1. \A b \in provider' \cup executions' : b \in provider \cup executions \/ b = a
    BY <1>1
  <2> QED BY <1>1, <1>2, <2>1
          DEF IInv, TableInv, TwoPersonControl, TwoPersons, NeedsApproval
<1>5. TableInv'
  BY <1>1, <1>2, <1>4
     DEF IInv, TableInv, IncidentType, TablesType, DecidedByTwo, TwoPersons,
         ClaimsAreBacked
<1> QED BY <1>1, <1>3, <1>5, WriteStep

LEMMA ReadProgressStep ==
  ASSUME IInv, NEW t \in Threads, ReadProgress(t)
  PROVE  IInv'
<1> DEFINE a == thread[t].action
           i == thread[t].item
           row == thread[t].row
           fresh == thread[t].fresh
           new == Executed(row, a, FlagsOf(row.events, findings))
<1>1. /\ Becomes(t, Job("commit", a, NoUser, i, row, new, fresh))
      /\ UNCHANGED <<findings, incident, approvals, executions, provider, audit, faults>>
      /\ thread[t].pc = "progress"
  BY DEF ReadProgress
<1>2. /\ a \in Actions /\ row \in Rows /\ row.actions.executed \subseteq executions
      /\ i \in 0..Len(approvals) /\ i \in Nat
      /\ NeedsApproval(a) => i # 0 /\ approvals[i].action = a
      /\ i # 0 => TwoPersons(i)
      /\ a \in provider
  BY <1>1, ThreadFacts DEF JobInv, JobType, JobBacked, JobAuthorized
<1>3. new \in Rows /\ new.actions.executed = row.actions.executed \cup {a}
  BY <1>2, ExecutedType
<1>4. fresh \in BOOLEAN /\ "commit" \in ThreadPCs
  BY ThreadFacts DEF Jobs, ThreadPCs
<1> HIDE DEF a, i, row, fresh, new
<1>5. JobInv(t)'
  BY <1>1, <1>2, <1>3, <1>4, JobInOrder
<1>6. Job("commit", a, NoUser, i, row, new, fresh) \in Jobs
  BY <1>2, <1>3, <1>4, JobIsTyped
<1> QED BY <1>1, <1>5, <1>6, ReadStep

LEMMA CommitExecutionStep ==
  ASSUME IInv, NEW t \in Threads, CommitExecution(t)
  PROVE  IInv'
<1> DEFINE a == thread[t].action
           i == thread[t].item
           u == approvals[i].approved_by
           row == thread[t].row
           new == thread[t].new
<1>0. Becomes(t, Idle) /\ UNCHANGED <<findings, provider, faults>> /\ thread[t].pc = "commit"
  BY DEF CommitExecution
<1>1. CASE UNCHANGED <<findings, incident, approvals, executions, audit>>
  BY <1>0, <1>1, GivesUp
<1>2. CASE /\ incident' = Flushed(row, new)
           /\ executions' = executions \cup {a}
           /\ audit' = [audit EXCEPT ![a] = @ + 1]
           /\ IF i = 0 THEN UNCHANGED approvals
              ELSE SetApproval(i, u, "CONSUMED", FALSE)
  <2>1. /\ a \in Actions /\ a \in provider /\ row \in Rows
        /\ new \in Rows /\ new.actions.executed = row.actions.executed \cup {a}
        /\ row.actions.executed \subseteq executions
        /\ incident \in Rows /\ incident.actions.executed \subseteq executions
        /\ NeedsApproval(a) =>
             \E j \in 1..Len(approvals) : approvals[j].action = a /\ TwoPersons(j)
        /\ i # 0 => i \in 1..Len(approvals) /\ TwoPersons(i)
    BY <1>0, ThreadFacts, CallAuthorized DEF JobInv, JobBacked
  <2>2. /\ approvals' \in Seq(Approvals) /\ Len(approvals') = Len(approvals)
        /\ \A j \in 1..Len(approvals) :
             /\ approvals'[j].action = approvals[j].action
             /\ approvals'[j].requested_by = approvals[j].requested_by
             /\ TwoPersons(j) => TwoPersons(j)'
        /\ DecidedByTwo'
    <3>1. CASE i = 0
      BY <1>2, <3>1, ThreadFacts DEF IInv, TableInv, DecidedByTwo, TwoPersons
    <3>2. CASE i # 0
      <4>1. u \in Users /\ u # approvals[i].requested_by
        BY <2>1, <3>2, ApproverIsUser
      <4>2. i \in 1..Len(approvals) /\ SetApproval(i, u, "CONSUMED", FALSE)
        BY <1>2, <2>1, <3>2
      <4>3. "CONSUMED" \in ApprovalStatuses
        BY DEF ApprovalStatuses
      <4> QED BY <4>1, <4>2, <4>3, ApprovalStep
    <3> QED BY <3>1, <3>2
  <2>3. incident' \in Rows
        /\ incident'.actions \in {incident.actions, new.actions}
    BY <1>2, <2>1, FlushedType
  <2>4. incident'.actions.executed \subseteq executions'
    BY <1>2, <2>1, <2>3
  <2>5. Grows
    BY <1>0, <1>2, <2>2, ThreadFacts DEF Grows
  <2>6. audit' \in [Actions -> Nat]
    BY <1>2, <2>1 DEF IInv, TableInv, TablesType
  <2>7. executions' \subseteq provider' /\ executions' \subseteq Actions
        /\ provider' \subseteq Actions
    BY <1>0, <1>2, <2>1 DEF IInv, TableInv, TablesType, ClaimsAreBacked
  <2>8. TwoPersonControl'
    <3>1. \A b \in provider' \cup executions' : b \in provider \cup executions
      BY <1>0, <1>2, <2>1
    <3> QED BY <2>2, <3>1 DEF IInv, TableInv, TwoPersonControl, NeedsApproval
  <2>9. TableInv'
    BY <1>0, <2>2, <2>3, <2>4, <2>6, <2>7, <2>8
       DEF IInv, TableInv, IncidentType, TablesType, ClaimsAreBacked
  <2> QED BY <1>0, <2>5, <2>9, WriteStep
<1> QED BY <1>1, <1>2 DEF CommitExecution

\* A step that reads the row and computes a new one from it.
LEMMA PrepareStep ==
  ASSUME IInv, NEW t \in Threads, NEW new \in Rows,
         new.actions.executed \subseteq incident.actions.executed,
         Becomes(t, Job("write", NoAction, NoUser, 0, incident, new, FALSE)),
         UNCHANGED <<findings, incident, approvals, executions, provider, audit, faults>>
  PROVE  IInv'
<1>1. /\ 0 \in 0..Len(approvals) /\ "write" \in ThreadPCs
      /\ incident \in Rows /\ incident.actions.executed \subseteq executions
      /\ new.actions.executed \subseteq executions
  BY ThreadFacts DEF ThreadPCs
<1>2. JobInv(t)'
  BY <1>1, JobInOrder
<1>3. Job("write", NoAction, NoUser, 0, incident, new, FALSE) \in Jobs
  BY <1>1, JobIsTyped
<1> QED BY <1>2, <1>3, ReadStep

LEMMA LoadStatusStep ==
  ASSUME IInv, NEW t \in Threads, NEW target \in IncidentStatuses,
         LoadStatus(t, target)
  PROVE  IInv'
<1> DEFINE new == WithStatus(incident, target)
<1>1. new \in Rows
  BY RowType, ThreadFacts DEF WithStatus, Rows
<1>2. new.actions = incident.actions
  BY DEF WithStatus, Row
<1> QED BY <1>1, <1>2, PrepareStep DEF LoadStatus

LEMMA LoadForEnrichmentStep ==
  ASSUME IInv, NEW t \in Threads, NEW batch \in Batches, NEW risk \in RiskScores,
         LoadForEnrichment(t, batch, risk)
  PROVE  IInv'
<1> DEFINE new == Joined(incident, batch, risk)
           found == batch \ findings
<1>1. /\ batch \in SUBSET (Events \X Flags) /\ risk \in Nat /\ incident \in Rows
      /\ incident.actions.executed \subseteq executions
  BY EvidenceAssumption, ThreadFacts
<1>2. new \in Rows /\ new.actions = incident.actions /\ found \in SUBSET (Events \X Flags)
  BY <1>1, JoinedType
<1>3. /\ Becomes(t, Enrichment("assess", incident, new, found))
      /\ UNCHANGED <<findings, incident, approvals, executions, provider, audit, faults>>
  BY DEF LoadForEnrichment
<1> HIDE DEF new, found
<1> QED BY <1>1, <1>2, <1>3, EnrichmentInOrder

LEMMA AssessStep ==
  ASSUME IInv, NEW t \in Threads, Assess(t)
  PROVE  IInv'
<1> DEFINE row == thread[t].row
           found == thread[t].found
           flags == FlagsOf(thread[t].new.events, findings \cup found)
           new == Enriched(row, thread[t].new.events, flags, thread[t].new.risk)
<1>1. /\ Becomes(t, Enrichment("write", row, new, found))
      /\ UNCHANGED <<findings, incident, approvals, executions, provider, audit, faults>>
  BY DEF Assess
<1>2. /\ row \in Rows /\ thread[t].new \in Rows /\ found \in SUBSET (Events \X Flags)
      /\ row.actions.executed \subseteq executions
  BY ThreadFacts DEF JobInv, JobBacked
<1>3. thread[t].new.events \in SUBSET Events /\ thread[t].new.risk \in Nat
  BY <1>2 DEF Rows
<1>4. new \in Rows /\ new.actions.executed \subseteq row.actions.executed
  BY <1>2, <1>3, EnrichedType
<1> HIDE DEF row, found, new
<1> QED BY <1>1, <1>2, <1>4, EnrichmentInOrder

LEMMA CommitRowStep ==
  ASSUME IInv, NEW t \in Threads, CommitRow(t)
  PROVE  IInv'
<1> DEFINE new == thread[t].new
<1>0. /\ Becomes(t, Idle) /\ UNCHANGED <<approvals, executions, provider, audit, faults>>
      /\ thread[t].pc = "write"
  BY DEF CommitRow
<1>1. CASE UNCHANGED <<findings, incident>>
  BY <1>0, <1>1, GivesUp
<1>2. CASE /\ findings' = findings \cup thread[t].found
           /\ incident' = Flushed(thread[t].row, new)
  <2>1. new.actions.executed \subseteq executions
    BY <1>0, ThreadFacts DEF JobInv, JobBacked
  <2>2. incident' \in Rows /\ incident'.actions \in {incident.actions, new.actions}
    BY <1>2, ThreadFacts, FlushedType
  <2>3. incident'.actions.executed \subseteq executions
    BY <2>1, <2>2, ThreadFacts
  <2>4. findings' \subseteq Events \X Flags
    BY <1>2, ThreadFacts
  <2>5. Grows /\ DecidedByTwo' /\ TwoPersonControl'
    BY <1>0, NothingGrows
  <2>6. TableInv'
    BY <1>0, <2>2, <2>3, <2>4, <2>5
       DEF IInv, TableInv, IncidentType, TablesType, ClaimsAreBacked
  <2> QED BY <1>0, <2>5, <2>6, WriteStep
<1> QED BY <1>1, <1>2 DEF CommitRow

LEMMA AnnotateStep ==
  ASSUME IInv, NEW batch \in Batches, Annotate(batch)
  PROVE  IInv'
<1>1. /\ findings' = findings \cup batch
      /\ UNCHANGED <<incident, approvals, executions, provider, audit, thread, faults>>
  BY DEF Annotate
<1>2. findings' \subseteq Events \X Flags
  BY <1>1, EvidenceAssumption DEF IInv, TableInv, IncidentType
<1>3. Grows /\ DecidedByTwo' /\ TwoPersonControl'
  BY <1>1, NothingGrows
<1>4. TableInv'
  BY <1>1, <1>2, <1>3 DEF IInv, TableInv, IncidentType, TablesType, ClaimsAreBacked
<1>5. \A s \in Threads : JobInv(s)'
  BY <1>1, <1>3, <1>4, OtherJobs DEF TableInv, TablesType
<1> QED BY <1>1, <1>4, <1>5 DEF IInv

LEMMA DiesStep ==
  ASSUME IInv, NEW t \in Threads, Dies(t)
  PROVE  IInv'
<1>1. /\ Becomes(t, Idle)
      /\ UNCHANGED <<findings, incident, approvals, executions, provider, audit>>
      /\ faults' \in 0..MaxFaults
  BY FaultType DEF Dies
<1>2. Grows /\ DecidedByTwo' /\ TwoPersonControl'
  BY <1>1, NothingGrows
<1>3. TableInv'
  BY <1>1, <1>2 DEF IInv, TableInv, IncidentType, TablesType, ClaimsAreBacked
<1> QED BY <1>1, <1>2, <1>3, WriteStep

LEMMA StepInv == IInv /\ [Next]_vars => IInv'
<1> SUFFICES ASSUME IInv, [Next]_vars PROVE IInv'
  OBVIOUS
<1>1. ASSUME NEW t \in Threads, Decision(t) PROVE IInv'
  BY <1>1, RequestStep, InsertStep, LoadApprovalStep, CommitApprovalStep DEF Decision
<1>2. ASSUME NEW t \in Threads, Execution(t) PROVE IInv'
  BY <1>2, LoadIncidentStep, AuthorizeStep, ExpireStep, ConnectStep, ConnectFailsStep,
     ReadProgressStep, CommitExecutionStep DEF Execution
<1>3. ASSUME NEW t \in Threads, RowChange(t) PROVE IInv'
  BY <1>3, LoadStatusStep, LoadForEnrichmentStep, AssessStep, CommitRowStep DEF RowChange
<1>4. CASE UNCHANGED vars
  BY <1>4 DEF vars, IInv, TableInv, IncidentType, TablesType, DecidedByTwo, TwoPersons,
              TwoPersonControl, ClaimsAreBacked, JobInv, JobType, JobAuthorized,
              JobBacked
<1> QED BY <1>1, <1>2, <1>3, <1>4, DiesStep, AgeStep, AnnotateStep DEF Next

LEMMA Invariance == Spec => []IInv
<1> QED BY InitInv, StepInv, PTL DEF Spec

\* Rows, tables and threads keep their types.
THEOREM TypeCorrect == Spec => []TypeOK
<1>1. IInv => TypeOK
  BY DEF IInv, TableInv, JobInv, JobType, TypeOK, ThreadType
<1> QED BY <1>1, Invariance, PTL

\* Two-person control, whatever requests overlap and whatever fails: a high-impact
\* action that the provider has carried out, or that is recorded as executed, has
\* an approval row whose approver is not its requester (approve() and
\* _require_approval()).
THEOREM TwoPersonControlHolds == Spec => []TwoPersonControl
<1>1. IInv => TwoPersonControl
  BY DEF IInv, TableInv
<1> QED BY <1>1, Invariance, PTL

\* An action shown as EXECUTED has its row in connector_executions, and that row
\* stands for an action the provider has been made to carry out, in spite of lost
\* updates of the incident's row.
THEOREM ClaimsAreAlwaysBacked == Spec => []ClaimsAreBacked
<1>1. IInv => ClaimsAreBacked
  BY DEF IInv, TableInv
<1> QED BY <1>1, Invariance, PTL

-----------------------------------------------------------------------------
(* Requests that do not overlap: one thread. *)

Serial == \A s, t \in Threads : s = t

\* What a row says of itself.
Earned(row) ==
  row.status = "CONTAINED" => Completes(row.actions.playbook, row.actions.executed)
Matches(row) == row.residual = residual_risk(row.risk, row.actions.executed)

\* The thread that works on the row has the row as it is, and the row it is about
\* to write is consistent.
JobCurrent(t) ==
  /\ thread[t].pc \in {"authorize", "expire", "connect", "progress", "commit", "assess",
                       "write"} => thread[t].row = incident
  /\ thread[t].pc \in {"commit", "write"} => Earned(thread[t].new) /\ Matches(thread[t].new)
  /\ thread[t].pc = "assess" => incident.status # "CONTAINED"

SInv ==
  /\ IInv /\ Earned(incident) /\ Matches(incident)
  /\ \A t \in Threads : JobCurrent(t)

\* More executed actions never undo a containment.
LEMMA CompletesMonotone ==
  ASSUME NEW id, NEW e, NEW d, e \subseteq d, Completes(id, e)
  PROVE  Completes(id, d)
BY DEF Completes, Objectives

\* Each playbook requires an objective that no other serves: the actions of one
\* never complete another.
LEMMA ProgressCompletes ==
  ASSUME NEW flags, NEW id \in PlaybookIds, NEW e, containment_progress(flags, id, e)
  PROVE  select_playbook(flags) = id /\ Completes(id, e)
<1> DEFINE p == select_playbook(flags)
<1>1. p \in PlaybookIds
  BY PlaybookType
<1>2. Required[p] # {} /\ Required[p] \subseteq Objectives(id, e)
  BY DEF containment_progress
<1>3. \A o \in Objectives(id, e) : \E y \in Serves : y[1] = id /\ y[3] = o
  BY DEF Objectives
<1>4. \A y \in Serves : /\ y[3] = "invalidate_session" => y[1] = "credential"
                        /\ y[3] = "isolate_host" => y[1] = "endpoint"
                        /\ y[3] = "restrict_identity" => y[1] = "exfiltration"
  BY DEF Serves
<1>5. /\ "invalidate_session" \in Required["credential"]
      /\ "isolate_host" \in Required["endpoint"]
      /\ "restrict_identity" \in Required["exfiltration"]
      /\ Required["none"] = {}
  BY DEF Required
<1> HIDE DEF p
<1>6. p = id
  BY <1>1, <1>2, <1>3, <1>4, <1>5 DEF PlaybookIds
<1> QED BY <1>2, <1>6 DEF p, Completes

\* Without another writer a flush writes the row that was computed.
LEMMA FlushedCurrent ==
  ASSUME NEW new \in Rows
  PROVE  /\ Flushed(incident, new).events = new.events
         /\ Flushed(incident, new).type = new.type
         /\ Flushed(incident, new).actions = new.actions
         /\ Flushed(incident, new).risk = new.risk
         /\ Flushed(incident, new).residual = new.residual
         /\ Flushed(incident, new).status = new.status
<1>1. \A x, y : Column(x, y, x) = y
  BY DEF Column
<1> QED BY <1>1 DEF Flushed, Row

LEMMA FlushedGood ==
  ASSUME NEW new \in Rows, Earned(new), Matches(new)
  PROVE  Earned(Flushed(incident, new)) /\ Matches(Flushed(incident, new))
BY FlushedCurrent DEF Earned, Matches

LEMMA ExecutedGood ==
  ASSUME NEW row \in Rows, NEW a \in Actions, NEW flags, Earned(row)
  PROVE  Earned(Executed(row, a, flags)) /\ Matches(Executed(row, a, flags))
<1> DEFINE id == row.actions.playbook
           done == row.actions.executed \cup {a}
           status == IF containment_progress(flags, id, done) THEN "CONTAINED"
                     ELSE IF row.status = "NEW" THEN "INVESTIGATING" ELSE row.status
           new == Executed(row, a, flags)
<1>1. /\ new.risk = row.risk /\ new.status = status
      /\ new.residual = residual_risk(row.risk, done)
      /\ new.actions.playbook = id /\ new.actions.executed = done
  BY DEF Executed, Row, Plan
<1>2. id \in PlaybookIds
  BY DEF Rows, Plans
<1>3. Completes(id, row.actions.executed) => Completes(id, done)
  BY CompletesMonotone
<1>4. containment_progress(flags, id, done) => Completes(id, done)
  BY <1>2, ProgressCompletes
<1>5. status = "CONTAINED" => Completes(id, done)
  BY <1>3, <1>4 DEF Earned
<1> HIDE DEF status, done, id
<1> QED BY <1>1, <1>5 DEF Earned, Matches

LEMMA EnrichedGood ==
  ASSUME NEW row \in Rows, NEW events, NEW flags, NEW risk, row.status # "CONTAINED"
  PROVE  /\ Earned(Enriched(row, events, flags, risk))
         /\ Matches(Enriched(row, events, flags, risk))
<1> DEFINE new == Enriched(row, events, flags, risk)
           executed == IF infer_incident_type(flags) = row.type
                       THEN row.actions.executed \cap recommend_playbook(flags) ELSE {}
<1>1. /\ new.risk = risk /\ new.status = row.status
      /\ new.residual = residual_risk(risk, executed)
      /\ new.actions.executed = executed
  BY DEF Enriched, Row, Plan
<1> HIDE DEF executed
<1> QED BY <1>1 DEF Earned, Matches

\* What the read steps do to the thread that takes them.
LEMMA SerialStep ==
  ASSUME Serial, SInv, [Next]_vars
  PROVE  SInv'
<1>0. IInv'
  BY StepInv DEF SInv
<1>1. IInv /\ incident \in Rows
  BY DEF SInv, IInv, TableInv, IncidentType
<1>2. ASSUME NEW t \in Threads, UNCHANGED incident, JobCurrent(t)'
      PROVE  SInv'
  BY <1>0, <1>2 DEF Serial, SInv, Earned, Matches
<1>3. ASSUME NEW t \in Threads, Becomes(t, Idle) PROVE JobCurrent(t)'
  <2>1. thread'[t].pc = "idle"
    BY <1>1, <1>3, ThreadFacts DEF Idle, Job
  <2> QED BY <2>1 DEF JobCurrent
<1>4. ASSUME NEW t \in Threads, NEW job, Becomes(t, job), UNCHANGED incident,
             job.pc \in {"insert", "decide"} \/ job.row = incident,
             job.pc \in {"commit", "write"} => Earned(job.new) /\ Matches(job.new),
             job.pc = "assess" => incident.status # "CONTAINED"
      PROVE  SInv'
  <2>1. thread'[t] = job
    BY <1>1, <1>4, ThreadFacts
  <2>2. JobCurrent(t)'
    BY <1>4, <2>1 DEF JobCurrent, Earned, Matches
  <2> QED BY <1>2, <1>4, <2>2
<1>5. ASSUME NEW t \in Threads, NEW new \in Rows, Earned(new), Matches(new),
             incident' = Flushed(incident, new), Becomes(t, Idle)
      PROVE  SInv'
  <2>1. Earned(incident') /\ Matches(incident')
    BY <1>5, FlushedGood
  <2> QED BY <1>0, <1>3, <1>5, <2>1 DEF Serial, SInv, Earned, Matches
<1>6. ASSUME NEW t \in Threads, Decision(t) PROVE SInv'
  <2>1. ASSUME NEW u \in Users, NEW a \in Tried, RequestApproval(t, u, a) PROVE SInv'
    <3>1. Becomes(t, Job("insert", a, u, 0, NoRow, NoRow, FALSE)) /\ UNCHANGED incident
      BY <2>1 DEF RequestApproval
    <3> QED BY <1>4, <3>1 DEF Job
  <2>2. CASE InsertApproval(t)
    BY <1>2, <1>3, <2>2 DEF InsertApproval
  <2>3. ASSUME NEW u \in Users, NEW i \in 1..Len(approvals), LoadApproval(t, u, i)
        PROVE  SInv'
    <3>1. Becomes(t, Job("decide", approvals[i].action, u, i, NoRow, NoRow, FALSE)) /\ UNCHANGED incident
      BY <2>3 DEF LoadApproval
    <3> QED BY <1>4, <3>1 DEF Job
  <2>4. CASE CommitApproval(t)
    BY <1>2, <1>3, <2>4 DEF CommitApproval
  <2> QED BY <1>6, <2>1, <2>2, <2>3, <2>4 DEF Decision
<1>7. ASSUME NEW t \in Threads, Execution(t) PROVE SInv'
  <2>0. thread[t].pc \in {"authorize", "connect", "progress", "commit"} =>
          thread[t].row = incident
    BY DEF SInv, JobCurrent
  <2>1. ASSUME NEW a \in Tried, LoadIncident(t, a) PROVE SInv'
    <3>1. Becomes(t, Job("authorize", a, NoUser, 0, incident, NoRow, FALSE)) /\ UNCHANGED incident
      BY <2>1 DEF LoadIncident
    <3> QED BY <1>4, <3>1 DEF Job
  <2>2. CASE Authorize(t)
    <3>1. UNCHANGED incident /\ thread[t].row = incident
      BY <2>0, <2>2 DEF Authorize
    <3>2. ASSUME NEW pc \in {"expire", "connect"}, NEW i, Goes(t, pc, i) PROVE SInv'
      BY <1>4, <3>1, <3>2 DEF Goes, Job
    <3>3. CASE Becomes(t, Idle)
      BY <1>2, <1>3, <3>1, <3>3
    <3> QED BY <2>2, <3>2, <3>3 DEF Authorize
  <2>3. CASE ExpireApproval(t)
    BY <1>2, <1>3, <2>3 DEF ExpireApproval
  <2>4. CASE Connect(t)
    BY <1>4, <2>0, <2>4 DEF Connect, Job
  <2>5. CASE ConnectFails(t)
    BY <1>2, <1>3, <2>5 DEF ConnectFails
  <2>6. CASE CommitExecution(t)
    <3>1. CASE UNCHANGED incident
      BY <1>2, <1>3, <2>6, <3>1 DEF CommitExecution
    <3>2. CASE incident' = Flushed(thread[t].row, thread[t].new)
      <4>1. /\ thread[t].row = incident /\ thread[t].pc = "commit" /\ Becomes(t, Idle)
            /\ thread[t].new \in Rows /\ Earned(thread[t].new) /\ Matches(thread[t].new)
        BY <1>1, <2>0, <2>6, ThreadFacts DEF CommitExecution, SInv, JobCurrent
      <4> QED BY <1>5, <3>2, <4>1
    <3> QED BY <2>6, <3>1, <3>2 DEF CommitExecution
  <2>7. CASE ReadProgress(t)
    <3> DEFINE new == Executed(incident, thread[t].action, FlagsOf(incident.events, findings))
    <3>1. /\ thread[t].row = incident /\ thread[t].pc = "progress" /\ UNCHANGED incident
          /\ thread[t].action \in Actions
      BY <1>1, <2>0, <2>7, CallAuthorized DEF ReadProgress
    <3>2. Earned(new) /\ Matches(new)
      BY <1>1, <3>1, ExecutedGood DEF SInv
    <3>3. Becomes(t, Job("commit", thread[t].action, NoUser, thread[t].item, incident, new,
                         thread[t].fresh))
      BY <2>7, <3>1 DEF ReadProgress
    <3> HIDE DEF new
    <3> QED BY <1>4, <3>1, <3>2, <3>3 DEF Job
  <2> QED BY <1>7, <2>1, <2>2, <2>3, <2>4, <2>5, <2>6, <2>7 DEF Execution
<1>8. ASSUME NEW t \in Threads, RowChange(t) PROVE SInv'
  <2>1. ASSUME NEW target \in IncidentStatuses, LoadStatus(t, target) PROVE SInv'
    <3> DEFINE new == WithStatus(incident, target)
    <3>1. /\ new.status = target /\ new.actions = incident.actions
          /\ new.risk = incident.risk /\ new.residual = incident.residual
      BY DEF WithStatus, Row
    <3>2. target # "CONTAINED"
      BY <1>1, <2>1 DEF LoadStatus, Allowed, Rows, IncidentStatuses
    <3>3. Earned(new) /\ Matches(new)
      BY <3>1, <3>2 DEF SInv, Earned, Matches
    <3> HIDE DEF new
    <3>4. Becomes(t, Job("write", NoAction, NoUser, 0, incident, new, FALSE))
          /\ UNCHANGED incident
      BY <2>1 DEF LoadStatus, new
    <3> QED BY <1>4, <3>3, <3>4 DEF Job
  <2>2. ASSUME NEW batch \in Batches, NEW risk \in RiskScores,
               LoadForEnrichment(t, batch, risk)
        PROVE  SInv'
    <3> DEFINE job == Enrichment("assess", incident, Joined(incident, batch, risk),
                                 batch \ findings)
    <3>1. incident.status # "CONTAINED" /\ UNCHANGED incident /\ Becomes(t, job)
      BY <2>2 DEF LoadForEnrichment
    <3>2. job.pc = "assess" /\ job.row = incident
      BY DEF Enrichment, Job
    <3> HIDE DEF job
    <3> QED BY <1>4, <3>1, <3>2
  <2>3. CASE CommitRow(t)
    <3>1. /\ Becomes(t, Idle) /\ thread[t].row = incident
          /\ Earned(thread[t].new) /\ Matches(thread[t].new) /\ thread[t].new \in Rows
      BY <1>1, <2>3, ThreadFacts DEF CommitRow, SInv, JobCurrent
    <3>2. CASE UNCHANGED incident
      BY <1>2, <1>3, <3>1, <3>2
    <3>3. CASE incident' = Flushed(incident, thread[t].new)
      BY <1>5, <3>1, <3>3
    <3> QED BY <2>3, <3>1, <3>2, <3>3 DEF CommitRow
  <2>4. CASE Assess(t)
    <3> DEFINE old == thread[t].new
               new == Enriched(incident, old.events,
                               FlagsOf(old.events, findings \cup thread[t].found), old.risk)
               job == Enrichment("write", incident, new, thread[t].found)
    <3>1. incident.status # "CONTAINED" /\ thread[t].row = incident /\ UNCHANGED incident
      BY <2>4 DEF Assess, SInv, JobCurrent
    <3>2. Earned(new) /\ Matches(new)
      BY <1>1, <3>1, EnrichedGood
    <3>3. Becomes(t, job)
      BY <2>4, <3>1 DEF Assess
    <3> HIDE DEF new
    <3>4. job.pc = "write" /\ job.row = incident /\ job.new = new
      BY DEF Enrichment, Job
    <3> HIDE DEF job
    <3> QED BY <1>4, <3>1, <3>2, <3>3, <3>4
  <2> QED BY <1>8, <2>1, <2>2, <2>3, <2>4 DEF RowChange
<1>9. ASSUME NEW t \in Threads, Dies(t) PROVE SInv'
  BY <1>2, <1>3, <1>9 DEF Dies
<1>10. ASSUME NEW i \in 1..Len(approvals), ApprovalAges(i) PROVE SInv'
  BY <1>0, <1>10 DEF ApprovalAges, SInv, JobCurrent, Earned, Matches
<1>11. ASSUME NEW batch \in Batches, Annotate(batch) PROVE SInv'
  BY <1>0, <1>11 DEF Annotate, SInv, JobCurrent, Earned, Matches
<1>12. CASE UNCHANGED vars
  BY <1>0, <1>12 DEF vars, SInv, JobCurrent, Earned, Matches
<1> QED BY <1>6, <1>7, <1>8, <1>9, <1>10, <1>11, <1>12 DEF Next

LEMMA SerialInit == Init => SInv
<1> SUFFICES ASSUME Init PROVE SInv
  OBVIOUS
<1>1. PICK found \in Groups, risk \in RiskScores : incident = Opened(found, risk)
  BY DEF Init
<1>2. risk \in Nat
  BY EvidenceAssumption
<1>3. /\ incident.status = "NEW" /\ incident.risk = risk /\ incident.residual = risk
      /\ incident.actions.executed = {}
  BY <1>1 DEF Opened, Row, Plan
<1>4. residual_risk(risk, {}) = risk
  BY <1>2 DEF residual_risk, Reduction, Points
<1>5. \A t \in Threads : JobCurrent(t)
  BY DEF Init, Idle, Job, JobCurrent
<1> QED BY <1>3, <1>4, <1>5, InitInv DEF SInv, Earned, Matches

\* As long as requests on an incident do not overlap, a CONTAINED case has completed
\* what the playbook it recommends requires, whatever the order of executions,
\* enrichments and status changes, and whatever findings other transactions of the
\* pipeline put on its events before, during and after the execution that contains
\* it (execute(), update_incident(), create_or_update_incidents()).
THEOREM ContainmentIsEarned == Serial => (Spec => []ContainedIsEarned)
<1> SUFFICES ASSUME Serial PROVE Spec => []ContainedIsEarned
  OBVIOUS
<1>1. SInv => ContainedIsEarned
  BY DEF SInv, Earned, ContainedIsEarned
<1>2. SInv /\ [Next]_vars => SInv'
  BY SerialStep
<1> QED BY <1>1, <1>2, SerialInit, PTL DEF Spec

\* And the residual risk is that of the risk and the executed actions shown.
THEOREM ResidualIsConsistent == Serial => (Spec => []ResidualMatches)
<1> SUFFICES ASSUME Serial PROVE Spec => []ResidualMatches
  OBVIOUS
<1>1. SInv => ResidualMatches
  BY DEF SInv, Matches, ResidualMatches
<1>2. SInv /\ [Next]_vars => SInv'
  BY SerialStep
<1> QED BY <1>1, <1>2, SerialInit, PTL DEF Spec

-----------------------------------------------------------------------------
(* What has been executed is counted once, and the status only goes forward. *)

\* The playbooks that have offered a and will not again, and the present one if a
\* is executed: the type of a case only rises in rank as evidence comes.
Done(a, row) ==
  LET id == row.actions.playbook IN
  {d \in PlaybookIds : /\ a \in Offered[d]
                       /\ Rank[d] < Rank[id] \/ (d = id /\ a \in row.actions.executed)}

TypeFor ==
  [ credential |-> "Credential Compromise", endpoint |-> "Endpoint Compromise",
    exfiltration |-> "Potential Data Exfiltration", none |-> "Suspicious Activity" ]

\* The type of a row is that of its playbook, of which its executed actions are.
Derived(row) ==
  /\ row.type = TypeFor[row.actions.playbook]
  /\ row.actions.executed \subseteq Offered[row.actions.playbook]

\* What has been found on the events of a row selects its playbook, or one of higher
\* rank: findings may have come since the row was assessed.
Grounded(row, found) ==
  Rank[row.actions.playbook] <= Rank[select_playbook(FlagsOf(row.events, found))]

\* What a request may make of the row it has loaded, executions apart.
Follows(row, new) ==
  /\ new.status \in {row.status} \cup Allowed[row.status]
  /\ Rank[row.actions.playbook] <= Rank[new.actions.playbook]
  /\ row.actions.playbook = new.actions.playbook =>
       row.actions.executed \subseteq new.actions.executed

\* Where an execution is before it commits, and where it holds the approval it needs.
Executing == {"authorize", "expire", "connect", "progress", "commit"}
Holding == {"expire", "connect", "progress", "commit"}

\* An execution is of an action that is offered and not executed, and commits what it
\* has computed from findings that are still there; the approval it holds is APPROVED
\* and of that action until it is consumed.
Lawful(job) ==
  /\ job.pc \in Executing =>
       job.action \in Offered[job.row.actions.playbook] \ job.row.actions.executed
  /\ job.pc = "commit" =>
       \E found \in SUBSET findings :
         /\ Grounded(job.row, found)
         /\ job.new = Executed(job.row, job.action, FlagsOf(job.row.events, found))
  /\ job.pc = "assess" => job.row.events \subseteq job.new.events
  /\ job.pc = "write" =>
       /\ Derived(job.new) /\ Follows(job.row, job.new)
       /\ Grounded(job.new, findings \cup job.found)
  /\ job.pc = "decide" => approvals[job.item].status = "PENDING"
  /\ job.pc \in Holding /\ job.item # 0 =>
       /\ approvals[job.item].status = "APPROVED"
       /\ approvals[job.item].action = job.action

JobLawful(t) == Lawful(thread[t])

Counted == \A a \in Actions : audit[a] <= Cardinality(Done(a, incident))
OneConsumed == \A a \in Actions : \A i, j \in Consumed(a) : i = j

HInv ==
  /\ SInv /\ Derived(incident) /\ Grounded(incident, findings)
  /\ Counted /\ OneConsumed /\ ConsumedWithSuccess
  /\ \A t \in Threads : JobLawful(t)

(* The counts. *)

LEMMA PlaybooksFinite == IsFiniteSet(PlaybookIds)
<1>1. IsFiniteSet({"credential"} \cup {"endpoint"})
  BY FS_Singleton, FS_Union
<1>2. IsFiniteSet({"exfiltration"} \cup {"none"})
  BY FS_Singleton, FS_Union
<1>3. PlaybookIds = ({"credential"} \cup {"endpoint"}) \cup ({"exfiltration"} \cup {"none"})
  BY DEF PlaybookIds
<1> QED BY <1>1, <1>2, <1>3, FS_Union

\* The type of a case says which playbook it has.
LEMMA TypeIsPlaybook ==
  ASSUME NEW flags
  PROVE  infer_incident_type(flags) = TypeFor[select_playbook(flags)]
BY DEF infer_incident_type, select_playbook, AccountTakeover, MaliciousExecution,
       SuspiciousTransfer, TypeFor

LEMMA TypesDiffer ==
  ASSUME NEW d \in PlaybookIds, NEW id \in PlaybookIds, TypeFor[d] = TypeFor[id]
  PROVE  d = id
<1>1. /\ TypeFor["credential"] = "Credential Compromise"
      /\ TypeFor["endpoint"] = "Endpoint Compromise"
      /\ TypeFor["exfiltration"] = "Potential Data Exfiltration"
      /\ TypeFor["none"] = "Suspicious Activity"
  BY DEF TypeFor
<1> QED BY <1>1 DEF PlaybookIds

\* More evidence never selects a playbook of lower rank.
LEMMA RankRises ==
  ASSUME NEW flags, NEW more, flags \subseteq more
  PROVE  /\ Rank[select_playbook(flags)] \in Nat
         /\ Rank[select_playbook(flags)] <= Rank[select_playbook(more)]
<1>1. /\ AccountTakeover(flags) => AccountTakeover(more)
      /\ MaliciousExecution(flags) => MaliciousExecution(more)
      /\ SuspiciousTransfer(flags) => SuspiciousTransfer(more)
  BY DEF AccountTakeover, MaliciousExecution, SuspiciousTransfer
<1> QED BY <1>1 DEF select_playbook, Rank

LEMMA RanksDiffer ==
  ASSUME NEW d \in PlaybookIds, NEW id \in PlaybookIds
  PROVE  Rank[d] \in Nat /\ (Rank[d] = Rank[id] => d = id)
BY DEF PlaybookIds, Rank

LEMMA RowPlaybook ==
  ASSUME NEW row \in Rows
  PROVE  /\ row.actions.playbook \in PlaybookIds
         /\ Rank[row.actions.playbook] \in Nat
<1>1. row.actions.playbook \in PlaybookIds
  BY DEF Rows, Plans
<1> QED BY <1>1, RanksDiffer

\* More events and more findings show more.
LEMMA FlagsRise ==
  ASSUME NEW events, NEW more, events \subseteq more, NEW found, NEW later,
         found \subseteq later
  PROVE  /\ Rank[select_playbook(FlagsOf(events, found))] \in Nat
         /\ Rank[select_playbook(FlagsOf(more, later))] \in Nat
         /\ Rank[select_playbook(FlagsOf(events, found))]
              <= Rank[select_playbook(FlagsOf(more, later))]
<1>1. FlagsOf(events, found) \subseteq FlagsOf(more, later)
  BY DEF FlagsOf
<1> QED BY <1>1, RankRises

LEMMA GroundedKept ==
  ASSUME NEW row \in Rows, NEW found, NEW later, found \subseteq later, Grounded(row, found)
  PROVE  Grounded(row, later)
<1>1. /\ Rank[select_playbook(FlagsOf(row.events, found))] \in Nat
      /\ Rank[select_playbook(FlagsOf(row.events, later))] \in Nat
      /\ Rank[select_playbook(FlagsOf(row.events, found))]
           <= Rank[select_playbook(FlagsOf(row.events, later))]
  BY FlagsRise
<1> QED BY <1>1, RowPlaybook DEF Grounded

LEMMA CountOfSubset ==
  ASSUME NEW S, NEW T, IsFiniteSet(T), S \subseteq T
  PROVE  /\ IsFiniteSet(S) /\ Cardinality(S) \in Nat /\ Cardinality(T) \in Nat
         /\ Cardinality(S) <= Cardinality(T)
<1>1. IsFiniteSet(S) /\ Cardinality(S) <= Cardinality(T)
  BY FS_Subset
<1> QED BY <1>1, FS_CardinalityType

LEMMA DoneIsFinite ==
  ASSUME NEW a, NEW row
  PROVE  IsFiniteSet(Done(a, row)) /\ Cardinality(Done(a, row)) \in Nat
<1>1. Done(a, row) \subseteq PlaybookIds
  BY DEF Done
<1> QED BY <1>1, PlaybooksFinite, CountOfSubset

\* What has been done is remembered or has fallen behind the type of the case.
LEMMA DoneIsKept ==
  ASSUME NEW row \in Rows, NEW new \in Rows, Follows(row, new), NEW a
  PROVE  Done(a, row) \subseteq Done(a, new)
<1> DEFINE id == row.actions.playbook
           id2 == new.actions.playbook
<1>1. /\ id \in PlaybookIds /\ id2 \in PlaybookIds
      /\ Rank[id] \in Nat /\ Rank[id2] \in Nat /\ Rank[id] <= Rank[id2]
  BY RowPlaybook DEF Follows
<1>2. id = id2 => row.actions.executed \subseteq new.actions.executed
  BY DEF Follows
<1>3. id # id2 => Rank[id] < Rank[id2]
  BY <1>1, RanksDiffer
<1> SUFFICES ASSUME NEW d \in Done(a, row) PROVE d \in Done(a, new)
  OBVIOUS
<1>4. /\ d \in PlaybookIds /\ a \in Offered[d]
      /\ Rank[d] < Rank[id] \/ (d = id /\ a \in row.actions.executed)
  BY DEF Done
<1>5. Rank[d] \in Nat
  BY <1>4, RanksDiffer
<1> HIDE DEF id, id2
<1>6. Rank[d] < Rank[id2] \/ (d = id2 /\ a \in new.actions.executed)
  BY <1>1, <1>2, <1>3, <1>4, <1>5
<1> QED BY <1>4, <1>6 DEF Done, id2

\* An execution that was neither remembered nor behind adds one.
LEMMA DoneGrows ==
  ASSUME NEW row \in Rows, NEW new, new.actions.playbook = row.actions.playbook,
         NEW a \in Offered[row.actions.playbook] \ row.actions.executed,
         new.actions.executed = row.actions.executed \cup {a}
  PROVE  /\ Cardinality(Done(a, new)) = Cardinality(Done(a, row)) + 1
         /\ \A b : b # a => Done(b, new) = Done(b, row)
<1> DEFINE id == row.actions.playbook
<1>1. id \in PlaybookIds /\ a \in Offered[id] /\ ~(Rank[id] < Rank[id])
  BY RowPlaybook
<1>2. id \notin Done(a, row) /\ Done(a, new) = Done(a, row) \cup {id}
  BY <1>1 DEF Done
<1>3. \A b : b # a => Done(b, new) = Done(b, row)
  BY DEF Done
<1>4. IsFiniteSet(Done(a, row))
  BY DoneIsFinite
<1> HIDE DEF id
<1>5. Cardinality(Done(a, row) \cup {id}) = Cardinality(Done(a, row)) + 1
  BY <1>2, <1>4, FS_AddElement
<1> QED BY <1>2, <1>3, <1>5

-----------------------------------------------------------------------------
(* Which approvals are consumed. *)

LEMMA NotConsumed ==
  ASSUME approvals \in Seq(Approvals), NEW i \in 1..Len(approvals),
         approvals[i].status # "CONSUMED", NEW approver \in Users \cup {NoUser},
         NEW status \in ApprovalStatuses \ {"CONSUMED"}, NEW stale \in BOOLEAN,
         SetApproval(i, approver, status, stale)
  PROVE  \A a : Consumed(a)' = Consumed(a)
<1>1. /\ Len(approvals') = Len(approvals) /\ approvals'[i].status = status
      /\ \A j \in 1..Len(approvals) :
           /\ approvals'[j].action = approvals[j].action
           /\ j # i => approvals'[j] = approvals[j]
  BY SetApprovalKeeps
<1> QED BY <1>1 DEF Consumed

LEMMA AppendedNotConsumed ==
  ASSUME approvals \in Seq(Approvals), NEW a \in Actions, NEW u \in Users,
         approvals' = Append(approvals, Approval(a, u, NoUser, "PENDING", FALSE))
  PROVE  \A b : Consumed(b)' = Consumed(b)
<1>1. /\ Len(approvals') = Len(approvals) + 1
      /\ \A j \in 1..Len(approvals) : approvals'[j] = approvals[j]
      /\ approvals'[Len(approvals')].status = "PENDING"
  BY AppendApproval
<1>2. Len(approvals) \in Nat
  OBVIOUS
<1>3. 1..Len(approvals') = (1..Len(approvals)) \cup {Len(approvals')}
  BY <1>1, <1>2
<1>4. ASSUME NEW b, NEW i \in 1..Len(approvals')
      PROVE  i \in Consumed(b)' <=> i \in Consumed(b)
  <2>1. CASE i \in 1..Len(approvals)
    BY <1>1, <1>3, <2>1 DEF Consumed
  <2>2. CASE i \notin 1..Len(approvals)
    BY <1>1, <1>3, <2>2 DEF Consumed
  <2> QED BY <2>1, <2>2
<1>5. ASSUME NEW b
      PROVE  Consumed(b)' \subseteq 1..Len(approvals') /\ Consumed(b) \subseteq 1..Len(approvals')
  BY <1>3 DEF Consumed
<1> QED BY <1>4, <1>5

LEMMA NowConsumed ==
  ASSUME approvals \in Seq(Approvals), NEW i \in 1..Len(approvals),
         approvals[i].status = "APPROVED", NEW a, approvals[i].action = a,
         NEW approver \in Users \cup {NoUser},
         SetApproval(i, approver, "CONSUMED", FALSE)
  PROVE  /\ i \notin Consumed(a) /\ Consumed(a)' = Consumed(a) \cup {i}
         /\ \A b : b # a => Consumed(b)' = Consumed(b)
<1>0. "CONSUMED" \in ApprovalStatuses
  BY DEF ApprovalStatuses
<1>1. /\ Len(approvals') = Len(approvals) /\ approvals'[i].status = "CONSUMED"
      /\ \A j \in 1..Len(approvals) :
           /\ approvals'[j].action = approvals[j].action
           /\ j # i => approvals'[j] = approvals[j]
  BY <1>0, SetApprovalKeeps
<1> QED BY <1>1 DEF Consumed

LEMMA ConsumedIsFinite ==
  ASSUME approvals \in Seq(Approvals), NEW a
  PROVE  IsFiniteSet(Consumed(a)) /\ Cardinality(Consumed(a)) \in Nat
<1>1. IsFiniteSet(1..Len(approvals)) /\ Consumed(a) \subseteq 1..Len(approvals)
  BY FS_Interval DEF Consumed
<1> QED BY <1>1, CountOfSubset

-----------------------------------------------------------------------------
(* The steps of HInv. *)

LEMMA HistoryFacts ==
  ASSUME HInv
  PROVE  /\ IInv /\ approvals \in Seq(Approvals) /\ incident \in Rows
         /\ audit \in [Actions -> Nat]
BY DEF HInv, SInv, IInv, TableInv, TablesType, IncidentType

\* A step that executes nothing and leaves the row.
LEMMA NothingExecuted ==
  ASSUME Serial, HInv, SInv', NEW t \in Threads, UNCHANGED <<findings, incident, audit>>,
         \A a : Consumed(a)' = Consumed(a), JobLawful(t)'
  PROVE  HInv'
<1>1. \A s \in Threads : JobLawful(s)'
  BY DEF Serial
<1>2. Derived(incident)' /\ Grounded(incident, findings)' /\ Counted'
  BY DEF HInv, Derived, Grounded, Counted, Done
<1>3. OneConsumed' /\ ConsumedWithSuccess'
  BY DEF HInv, OneConsumed, ConsumedWithSuccess, NeedsApproval
<1> QED BY <1>1, <1>2, <1>3 DEF HInv

LEMMA IdleIsLawful ==
  ASSUME HInv, NEW t \in Threads, Becomes(t, Idle)
  PROVE  JobLawful(t)'
<1>1. thread'[t] = Idle /\ Idle.pc = "idle"
  BY HistoryFacts, ThreadFacts DEF Idle, Job
<1> QED BY <1>1 DEF JobLawful, Lawful, Executing, Holding

\* A thread takes a job; nothing else changes.
LEMMA JobTaken ==
  ASSUME Serial, HInv, SInv', NEW t \in Threads, UNCHANGED <<findings, incident, approvals, audit>>,
         NEW job, Becomes(t, job), Lawful(job)
  PROVE  HInv'
<1>1. thread'[t] = job
  BY HistoryFacts, ThreadFacts
<1>2. JobLawful(t)'
  BY <1>1 DEF JobLawful, Lawful
<1>3. \A a : Consumed(a)' = Consumed(a)
  BY DEF Consumed
<1> QED BY <1>2, <1>3, NothingExecuted

\* A thread gives up; nothing else changes.
LEMMA JobDropped ==
  ASSUME Serial, HInv, SInv', NEW t \in Threads, UNCHANGED <<findings, incident, approvals, audit>>,
         Becomes(t, Idle)
  PROVE  HInv'
<1>1. \A a : Consumed(a)' = Consumed(a)
  BY DEF Consumed
<1> QED BY <1>1, IdleIsLawful, NothingExecuted

LEMMA DecisionCounts ==
  ASSUME Serial, HInv, SInv', NEW t \in Threads, Decision(t)
  PROVE  HInv'
<1>1. ASSUME NEW u \in Users, NEW a \in Tried, RequestApproval(t, u, a) PROVE HInv'
  <2>1. /\ Becomes(t, Job("insert", a, u, 0, NoRow, NoRow, FALSE))
        /\ UNCHANGED <<findings, incident, approvals, audit>>
    BY <1>1 DEF RequestApproval
  <2>2. Lawful(Job("insert", a, u, 0, NoRow, NoRow, FALSE))
    BY DEF Lawful, Job, Executing, Holding
  <2> QED BY <2>1, <2>2, JobTaken
<1>2. CASE InsertApproval(t)
  <2>1. thread[t].action \in Actions /\ thread[t].user \in Users
    BY <1>2, HistoryFacts, ThreadFacts DEF InsertApproval, JobInv, JobType
  <2>2. \A a : Consumed(a)' = Consumed(a)
    <3>1. UNCHANGED approvals => \A a : Consumed(a)' = Consumed(a)
      BY DEF Consumed
    <3> QED BY <1>2, <2>1, <3>1, HistoryFacts, AppendedNotConsumed DEF InsertApproval
  <2> QED BY <1>2, <2>2, IdleIsLawful, NothingExecuted DEF InsertApproval
<1>3. ASSUME NEW u \in Users, NEW i \in 1..Len(approvals), LoadApproval(t, u, i) PROVE HInv'
  <2>1. /\ Becomes(t, Job("decide", approvals[i].action, u, i, NoRow, NoRow, FALSE))
        /\ UNCHANGED <<findings, incident, approvals, audit>> /\ approvals[i].status = "PENDING"
    BY <1>3 DEF LoadApproval
  <2>2. Lawful(Job("decide", approvals[i].action, u, i, NoRow, NoRow, FALSE))
    BY <2>1 DEF Lawful, Job, Executing, Holding
  <2> QED BY <2>1, <2>2, JobTaken
<1>4. CASE CommitApproval(t)
  <2> DEFINE i == thread[t].item
  <2>1. /\ i \in 1..Len(approvals) /\ thread[t].user \in Users
        /\ approvals[i].status = "PENDING"
    BY <1>4, HistoryFacts, ThreadFacts
       DEF CommitApproval, JobInv, JobType, HInv, JobLawful, Lawful
  <2>2. \A a : Consumed(a)' = Consumed(a)
    <3>1. UNCHANGED approvals => \A a : Consumed(a)' = Consumed(a)
      BY DEF Consumed
    <3>2. "APPROVED" \in ApprovalStatuses \ {"CONSUMED"}
      BY DEF ApprovalStatuses
    <3>3. SetApproval(i, thread[t].user, "APPROVED", FALSE) => \A a : Consumed(a)' = Consumed(a)
      BY <2>1, <3>2, HistoryFacts, NotConsumed
    <3> QED BY <1>4, <3>1, <3>3 DEF CommitApproval
  <2> QED BY <1>4, <2>2, IdleIsLawful, NothingExecuted DEF CommitApproval
<1> QED BY <1>1, <1>2, <1>3, <1>4 DEF Decision

\* The job of the one thread, on the row as it is.
LEMMA JobFacts ==
  ASSUME HInv, NEW t \in Threads
  PROVE  /\ thread[t].pc \in Executing \cup {"assess", "write"} => thread[t].row = incident
         /\ thread[t].pc \in Executing => thread[t].action \in Actions
         /\ thread[t].pc \in {"connect", "progress", "commit"}
              /\ NeedsApproval(thread[t].action) => thread[t].item # 0
         /\ thread[t].pc \in Holding /\ thread[t].item # 0 =>
              thread[t].item \in 1..Len(approvals)
         /\ thread[t].new \in Rows /\ thread[t].row \in Rows
         /\ Lawful(thread[t])
<1>1. JobCurrent(t) /\ Lawful(thread[t])
  BY DEF HInv, SInv, JobLawful
<1>2. JobType(t) /\ JobAuthorized(t)
  BY HistoryFacts, ThreadFacts DEF JobInv
<1> QED BY <1>1, <1>2, HistoryFacts, ThreadFacts
        DEF JobCurrent, JobType, JobAuthorized, Executing, Holding

\* The commit of an execution counts it, and with it the approval it consumes.
LEMMA ExecutionCounted ==
  ASSUME Serial, HInv, SInv', NEW t \in Threads, CommitExecution(t),
         NEW a, a = thread[t].action, NEW i, i = thread[t].item,
         NEW u, u = approvals[i].approved_by
  PROVE  HInv'
<1> DEFINE new == thread[t].new
<1>0. thread[t].pc = "commit" /\ "commit" \in Executing /\ "commit" \in Holding
  BY DEF CommitExecution, Executing, Holding
<1>1. /\ incident \in Rows /\ thread[t].row = incident /\ a \in Actions /\ new \in Rows
      /\ i # 0 => /\ i \in 1..Len(approvals) /\ approvals[i].status = "APPROVED"
                  /\ approvals[i].action = a
      /\ NeedsApproval(a) => i # 0
      /\ a \in Offered[incident.actions.playbook] \ incident.actions.executed
      /\ approvals \in Seq(Approvals) /\ audit \in [Actions -> Nat]
  BY <1>0, HistoryFacts, JobFacts DEF Lawful
<1>2. JobLawful(t)'
  BY IdleIsLawful DEF CommitExecution
<1>3. CASE UNCHANGED <<findings, incident, approvals, executions, audit>>
  BY <1>3, JobDropped DEF CommitExecution
<1>4. CASE /\ ~(i # 0 /\ Taken(a, "CONSUMED", i)) /\ UNCHANGED findings
           /\ incident' = Flushed(incident, new)
           /\ audit' = [audit EXCEPT ![a] = @ + 1]
           /\ IF i = 0 THEN UNCHANGED approvals ELSE SetApproval(i, u, "CONSUMED", FALSE)
  <2>1. PICK found \in SUBSET findings :
          new = Executed(incident, a, FlagsOf(incident.events, found))
    BY <1>0, <1>1, JobFacts DEF Lawful
  <2>2. /\ new.events = incident.events /\ new.type = incident.type
        /\ new.actions.playbook = incident.actions.playbook
        /\ new.actions.executed = incident.actions.executed \cup {a}
    BY <2>1 DEF Executed, Row, Plan
  <2>3. /\ incident'.events = incident.events /\ incident'.type = incident.type
        /\ incident'.actions.playbook = incident.actions.playbook
        /\ incident'.actions.executed = incident.actions.executed \cup {a}
    BY <1>1, <1>4, <2>2, FlushedCurrent
  <2> HIDE DEF new
  <2>4. Derived(incident)' /\ Grounded(incident, findings)'
    BY <1>1, <1>4, <2>3 DEF HInv, Derived, Grounded
  <2>5. Counted'
    <3>1. /\ Cardinality(Done(a, incident')) = Cardinality(Done(a, incident)) + 1
          /\ \A b : b # a => Done(b, incident') = Done(b, incident)
      BY <1>1, <2>3, DoneGrows DEF HInv
    <3>2. \A b \in Actions : audit'[b] = IF b = a THEN audit[b] + 1 ELSE audit[b]
      BY <1>1, <1>4
    <3>3. \A b \in Actions : audit[b] \in Nat /\ Cardinality(Done(b, incident)) \in Nat
      BY <1>1, DoneIsFinite
    <3>4. \A b \in Actions : audit'[b] <= Cardinality(Done(b, incident'))
      BY <3>1, <3>2, <3>3 DEF HInv, Counted
    <3> QED BY <3>4 DEF Counted, Done
  <2>6. /\ i = 0 => \A b : Consumed(b)' = Consumed(b)
        /\ i # 0 => /\ i \notin Consumed(a) /\ Consumed(a)' = Consumed(a) \cup {i}
                    /\ \A b : b # a => Consumed(b)' = Consumed(b)
    <3>1. CASE i = 0
      BY <1>4, <3>1 DEF Consumed
    <3>2. CASE i # 0
      <4>1. approvals[i] \in Approvals
        BY <1>1, <3>2
      <4>2. u \in Users \cup {NoUser}
        BY <4>1 DEF Approvals
      <4> QED BY <1>1, <1>4, <3>2, <4>2, NowConsumed
    <3> QED BY <3>1, <3>2
  <2>7. OneConsumed'
    <3>1. i # 0 => \A j \in Consumed(a) : j = i
      BY <1>4 DEF Consumed, Taken
    <3>2. \A b \in Actions : \A j, k \in Consumed(b)' : j = k
      BY <1>1, <2>6, <3>1 DEF HInv, OneConsumed
    <3> QED BY <3>2 DEF OneConsumed
  <2>8. ConsumedWithSuccess'
    <3>1. ASSUME NEW b \in Actions, NeedsApproval(b)
          PROVE  audit'[b] = Cardinality(Consumed(b)')
      <4>1. audit[b] = Cardinality(Consumed(b)) /\ audit[b] \in Nat
        BY <1>1, <3>1 DEF HInv, ConsumedWithSuccess
      <4>2. CASE b # a
        <5>1. audit'[b] = audit[b] /\ Consumed(b)' = Consumed(b)
          BY <1>1, <1>4, <2>6, <4>2
        <5> QED BY <4>1, <5>1
      <4>3. CASE b = a
        <5>1. audit'[a] = audit[a] + 1
          BY <1>1, <1>4
        <5>2. i \notin Consumed(a) /\ Consumed(a)' = Consumed(a) \cup {i}
          BY <1>1, <2>6, <3>1, <4>3
        <5>3. Cardinality(Consumed(a) \cup {i}) = Cardinality(Consumed(a)) + 1
          BY <1>1, <5>2, ConsumedIsFinite, FS_AddElement
        <5> QED BY <4>1, <4>3, <5>1, <5>2, <5>3
      <4> QED BY <4>2, <4>3
    <3> QED BY <3>1 DEF ConsumedWithSuccess, NeedsApproval
  <2>9. \A s \in Threads : JobLawful(s)'
    BY <1>2 DEF Serial
  <2> QED BY <2>4, <2>5, <2>7, <2>8, <2>9 DEF HInv
<1>5. UNCHANGED findings
  BY DEF CommitExecution
<1> QED BY <1>1, <1>3, <1>4, <1>5 DEF CommitExecution

LEMMA ExecutionCounts ==
  ASSUME Serial, HInv, SInv', NEW t \in Threads, Execution(t)
  PROVE  HInv'
<1> DEFINE a == thread[t].action
           i == thread[t].item
           row == thread[t].row
<1>0. thread[t].pc \in Executing => a \in Offered[row.actions.playbook] \ row.actions.executed
  BY JobFacts DEF Lawful
<1>1. ASSUME NEW b \in Tried, LoadIncident(t, b) PROVE HInv'
  <2>1. /\ Becomes(t, Job("authorize", b, NoUser, 0, incident, NoRow, FALSE))
        /\ UNCHANGED <<findings, incident, approvals, audit>>
        /\ b \in Offered[incident.actions.playbook] \ incident.actions.executed
    BY <1>1 DEF LoadIncident
  <2>2. Lawful(Job("authorize", b, NoUser, 0, incident, NoRow, FALSE))
    BY <2>1 DEF Lawful, Job, Executing, Holding
  <2> QED BY <2>1, <2>2, JobTaken
<1>2. CASE Authorize(t)
  <2>1. /\ UNCHANGED <<findings, incident, approvals, audit>>
        /\ a \in Offered[row.actions.playbook] \ row.actions.executed
    BY <1>0, <1>2 DEF Authorize, Executing
  <2>2. ASSUME Goes(t, "connect", 0) PROVE HInv'
    <3>1. Becomes(t, Job("connect", a, NoUser, 0, row, NoRow, FALSE))
      BY <2>2 DEF Goes
    <3> HIDE DEF a, row
    <3>2. Lawful(Job("connect", a, NoUser, 0, row, NoRow, FALSE))
      BY <2>1 DEF Lawful, Job, Executing, Holding
    <3> QED BY <2>1, <3>1, <3>2, JobTaken
  <2>3. ASSUME NEW pc \in {"expire", "connect"}, NEW j \in 1..Len(approvals), Goes(t, pc, j),
               approvals[j].action = a, approvals[j].status = "APPROVED"
        PROVE  HInv'
    <3>1. Becomes(t, Job(pc, a, NoUser, j, row, NoRow, FALSE))
      BY <2>3 DEF Goes
    <3> HIDE DEF a, row
    <3>2. Lawful(Job(pc, a, NoUser, j, row, NoRow, FALSE))
      BY <2>1, <2>3 DEF Lawful, Job, Executing, Holding
    <3> QED BY <2>1, <3>1, <3>2, JobTaken
  <2> QED BY <1>2, <2>1, <2>2, <2>3, JobDropped DEF Authorize
<1>3. CASE ExpireApproval(t)
  <2>1. /\ i \in 1..Len(approvals) /\ approvals[i].status = "APPROVED"
        /\ approvals \in Seq(Approvals)
    BY <1>3, HistoryFacts, ThreadFacts, JobFacts
       DEF ExpireApproval, JobInv, JobType, Lawful, Holding
  <2>2. approvals[i] \in Approvals
    BY <2>1
  <2>3. approvals[i].approved_by \in Users \cup {NoUser}
    BY <2>2 DEF Approvals
  <2>4. "EXPIRED" \in ApprovalStatuses \ {"CONSUMED"}
    BY DEF ApprovalStatuses
  <2>5. SetApproval(i, approvals[i].approved_by, "EXPIRED", FALSE)
          => \A b : Consumed(b)' = Consumed(b)
    BY <2>1, <2>3, <2>4, NotConsumed
  <2>6. \A b : Consumed(b)' = Consumed(b)
    BY <1>3, <2>5 DEF ExpireApproval, Consumed
  <2> QED BY <1>3, <2>6, IdleIsLawful, NothingExecuted DEF ExpireApproval
<1>4. CASE Connect(t)
  <2> DEFINE fresh == ~(a \in executions)
  <2>1. /\ Becomes(t, Job("progress", a, NoUser, i, row, NoRow, fresh))
        /\ UNCHANGED <<findings, incident, approvals, audit>>
        /\ a \in Offered[row.actions.playbook] \ row.actions.executed
        /\ i # 0 => approvals[i].status = "APPROVED" /\ approvals[i].action = a
    BY <1>0, <1>4, JobFacts DEF Connect, Lawful, Executing, Holding
  <2> HIDE DEF a, row, i, fresh
  <2>2. Lawful(Job("progress", a, NoUser, i, row, NoRow, fresh))
    BY <2>1 DEF Lawful, Job, Executing, Holding
  <2> QED BY <2>1, <2>2, JobTaken
<1>5. CASE ConnectFails(t)
  BY <1>5, JobDropped DEF ConnectFails
<1>6. CASE ReadProgress(t)
  <2> DEFINE fresh == thread[t].fresh
             new == Executed(row, a, FlagsOf(row.events, findings))
  <2>1. /\ Becomes(t, Job("commit", a, NoUser, i, row, new, fresh))
        /\ UNCHANGED <<findings, incident, approvals, audit>>
        /\ a \in Offered[row.actions.playbook] \ row.actions.executed
        /\ i # 0 => approvals[i].status = "APPROVED" /\ approvals[i].action = a
    BY <1>0, <1>6, JobFacts DEF ReadProgress, Lawful, Executing, Holding
  <2>2. row = incident
    BY <1>6, JobFacts DEF ReadProgress, Executing
  <2>3. /\ findings \in SUBSET findings /\ Grounded(row, findings)
        /\ new = Executed(row, a, FlagsOf(row.events, findings))
    BY <2>2 DEF HInv
  <2> HIDE DEF a, row, i, fresh, new
  <2>4. Lawful(Job("commit", a, NoUser, i, row, new, fresh))
    BY <2>1, <2>3 DEF Lawful, Job, Executing, Holding
  <2> QED BY <2>1, <2>4, JobTaken
<1> QED BY <1>1, <1>2, <1>3, <1>4, <1>5, <1>6, ExecutionCounted DEF Execution

\* A write of a row that follows the present one.
LEMMA RowCounted ==
  ASSUME Serial, HInv, SInv', NEW t \in Threads, CommitRow(t)
  PROVE  HInv'
<1> DEFINE new == thread[t].new
           found == thread[t].found
<1>0. CASE UNCHANGED <<findings, incident>>
  BY <1>0, JobDropped DEF CommitRow
<1>1. /\ UNCHANGED <<approvals, audit>> /\ Becomes(t, Idle)
      /\ new \in Rows /\ Follows(incident, new) /\ Derived(new)
      /\ Grounded(new, findings \cup found) /\ thread[t].row = incident
  BY JobFacts DEF CommitRow, Lawful
<1> HIDE DEF new, found
<1>2. CASE /\ findings' = findings \cup found /\ incident' = Flushed(incident, new)
  <2>1. /\ incident'.events = new.events /\ incident'.type = new.type
        /\ incident'.actions = new.actions /\ incident'.status = new.status
    BY <1>1, <1>2, FlushedCurrent
  <2>2. Derived(incident)' /\ Grounded(incident, findings)'
    BY <1>1, <1>2, <2>1 DEF Derived, Grounded
  <2>3. Follows(incident, incident')
    BY <1>1, <2>1 DEF Follows
  <2>4. incident \in Rows /\ incident' \in Rows
    BY HistoryFacts DEF SInv, IInv, TableInv, IncidentType
  <2>5. ASSUME NEW a \in Actions PROVE audit[a] <= Cardinality(Done(a, incident'))
    <3>1. Done(a, incident) \subseteq Done(a, incident')
      BY <2>3, <2>4, DoneIsKept
    <3>2. /\ Cardinality(Done(a, incident)) <= Cardinality(Done(a, incident'))
          /\ Cardinality(Done(a, incident)) \in Nat /\ Cardinality(Done(a, incident')) \in Nat
      BY <3>1, DoneIsFinite, CountOfSubset
    <3>3. audit[a] \in Nat /\ audit[a] <= Cardinality(Done(a, incident))
      BY HistoryFacts DEF HInv, Counted
    <3> QED BY <3>2, <3>3
  <2>6. Counted'
    BY <1>1, <2>5 DEF Counted, Done
  <2>7. OneConsumed' /\ ConsumedWithSuccess'
    <3>1. \A a : Consumed(a)' = Consumed(a)
      BY <1>1 DEF Consumed
    <3> QED BY <1>1, <3>1 DEF HInv, OneConsumed, ConsumedWithSuccess, NeedsApproval
  <2>8. \A s \in Threads : JobLawful(s)'
    BY <1>1, IdleIsLawful DEF Serial
  <2> QED BY <2>2, <2>6, <2>7, <2>8 DEF HInv
<1> QED BY <1>0, <1>1, <1>2 DEF CommitRow, new, found

\* An assessment, from more events and more findings than the row was made of.
LEMMA EnrichedFollows ==
  ASSUME NEW row \in Rows, Derived(row), NEW found, Grounded(row, found),
         NEW events, row.events \subseteq events, NEW later, found \subseteq later, NEW risk,
         NEW new, new = Enriched(row, events, FlagsOf(events, later), risk)
  PROVE  /\ Derived(new) /\ Follows(row, new) /\ Grounded(new, later)
         /\ new.events = events /\ new.status = row.status
         /\ IF new.actions.playbook = row.actions.playbook
            THEN new.actions.executed = row.actions.executed
            ELSE new.actions.executed = {}
<1> DEFINE flags == FlagsOf(events, later)
           type == infer_incident_type(flags)
           id == select_playbook(flags)
           executed == IF type = row.type
                       THEN row.actions.executed \cap recommend_playbook(flags) ELSE {}
<1>1. /\ new.events = events /\ new.type = type /\ new.status = row.status
      /\ new.actions.playbook = id /\ new.actions.executed = executed
  BY DEF Enriched, Row, Plan
<1>2. /\ type = TypeFor[id] /\ id \in PlaybookIds /\ row.actions.playbook \in PlaybookIds
      /\ row.type = TypeFor[row.actions.playbook]
      /\ row.actions.executed \subseteq Offered[row.actions.playbook]
      /\ recommend_playbook(flags) = Offered[id]
  BY TypeIsPlaybook, PlaybookType, RowPlaybook DEF Derived, recommend_playbook
<1>3. /\ Rank[id] \in Nat /\ Rank[row.actions.playbook] \in Nat
      /\ Rank[row.actions.playbook] <= Rank[id]
  BY FlagsRise, RowPlaybook DEF Grounded
<1>4. executed \subseteq Offered[id]
  BY <1>2
<1>5. id = row.actions.playbook => executed = row.actions.executed
  BY <1>2
<1>6. id # row.actions.playbook => executed = {}
  BY <1>2, TypesDiffer
<1>7. Grounded(new, later)
  BY <1>1, <1>3 DEF Grounded
<1> HIDE DEF type, id, executed
<1>8. Derived(new) /\ Follows(row, new)
  BY <1>1, <1>2, <1>3, <1>4, <1>5 DEF Derived, Follows
<1> QED BY <1>1, <1>5, <1>6, <1>7, <1>8

LEMMA RowChangeCounts ==
  ASSUME Serial, HInv, SInv', NEW t \in Threads, RowChange(t)
  PROVE  HInv'
<1>0. /\ incident \in Rows /\ Derived(incident) /\ Grounded(incident, findings)
  BY HistoryFacts DEF HInv
<1>1. ASSUME NEW target \in IncidentStatuses, LoadStatus(t, target) PROVE HInv'
  <2> DEFINE new == WithStatus(incident, target)
             job == Job("write", NoAction, NoUser, 0, incident, new, FALSE)
  <2>1. /\ new.status = target /\ new.actions = incident.actions
        /\ new.events = incident.events /\ new.type = incident.type
    BY DEF WithStatus, Row
  <2>2. /\ Becomes(t, job) /\ UNCHANGED <<findings, incident, approvals, audit>>
        /\ target \in Allowed[incident.status]
    BY <1>1 DEF LoadStatus
  <2> HIDE DEF new
  <2>3. job.pc = "write" /\ job.row = incident /\ job.new = new /\ job.found = {}
    BY DEF Job
  <2> HIDE DEF job
  <2>4. Derived(new) /\ Follows(incident, new)
    BY <1>0, <2>1, <2>2, RowPlaybook DEF Derived, Follows
  <2>5. findings \cup job.found = findings
    BY <2>3
  <2>6. Grounded(new, findings)
    BY <1>0, <2>1 DEF Grounded
  <2>7. Lawful(job)
    BY <2>3, <2>4, <2>5, <2>6 DEF Lawful, Executing, Holding
  <2> QED BY <2>2, <2>7, JobTaken
<1>2. ASSUME NEW batch \in Batches, NEW risk \in RiskScores, LoadForEnrichment(t, batch, risk)
      PROVE  HInv'
  <2> DEFINE job == Enrichment("assess", incident, Joined(incident, batch, risk),
                               batch \ findings)
  <2>1. Becomes(t, job) /\ UNCHANGED <<findings, incident, approvals, audit>>
    BY <1>2 DEF LoadForEnrichment
  <2>2. /\ job.pc = "assess" /\ job.row = incident
        /\ job.new.events = incident.events \cup EventsOf(batch)
    BY DEF Enrichment, Job, Joined, Row
  <2> HIDE DEF job
  <2>3. Lawful(job)
    BY <2>2 DEF Lawful, Executing, Holding
  <2> QED BY <2>1, <2>3, JobTaken
<1>3. CASE Assess(t)
  <2> DEFINE events == thread[t].new.events
             found == thread[t].found
             later == findings \cup found
             risk == thread[t].new.risk
             new == Enriched(incident, events, FlagsOf(events, later), risk)
             job == Enrichment("write", incident, new, found)
  <2>1. thread[t].row = incident /\ incident.events \subseteq events
    BY <1>3, JobFacts DEF Assess, Lawful
  <2>2. Becomes(t, job) /\ UNCHANGED <<findings, incident, approvals, audit>>
    BY <1>3, <2>1 DEF Assess
  <2>3. /\ findings \subseteq later
        /\ new = Enriched(incident, events, FlagsOf(events, later), risk)
    OBVIOUS
  <2>4. job.pc = "write" /\ job.row = incident /\ job.new = new /\ job.found = found
    BY DEF Enrichment, Job
  <2> HIDE DEF job, new, events, found, later, risk
  <2>5. Derived(new) /\ Follows(incident, new) /\ Grounded(new, later)
    <3>1. incident \in Rows /\ Derived(incident) /\ Grounded(incident, findings)
      BY <1>0
    <3>2. incident.events \subseteq events
      BY <2>1
    <3> QED BY <2>3, <3>1, <3>2, EnrichedFollows
  <2>6. Lawful(job)
    BY <2>4, <2>5 DEF Lawful, Executing, Holding, later
  <2> QED BY <2>2, <2>6, JobTaken
<1> QED BY <1>1, <1>2, <1>3, RowCounted DEF RowChange

\* Findings that another transaction records.
LEMMA AnnotateCounts ==
  ASSUME HInv, SInv', NEW batch \in Batches, Annotate(batch)
  PROVE  HInv'
<1>1. /\ findings' = findings \cup batch
      /\ UNCHANGED <<incident, approvals, audit, thread>>
  BY DEF Annotate
<1>2. Derived(incident)' /\ Counted' /\ OneConsumed' /\ ConsumedWithSuccess'
  BY <1>1 DEF HInv, Derived, Counted, Done, OneConsumed, ConsumedWithSuccess, Consumed,
              NeedsApproval
<1>3. Grounded(incident, findings')
  BY <1>1, HistoryFacts, GroundedKept DEF HInv
<1>4. ASSUME NEW t \in Threads PROVE JobLawful(t)'
  <2>1. Lawful(thread[t]) /\ thread[t].new \in Rows
    BY JobFacts
  <2>2. findings \cup thread[t].found \subseteq findings' \cup thread[t].found
    BY <1>1
  <2>3. thread[t].pc = "write" => Grounded(thread[t].new, findings' \cup thread[t].found)
    BY <2>1, <2>2, GroundedKept DEF Lawful
  <2>4. \A found \in SUBSET findings : found \in SUBSET findings'
    BY <1>1
  <2>5. thread[t].pc = "commit" =>
          \E found \in SUBSET findings' :
            /\ Grounded(thread[t].row, found)
            /\ thread[t].new
                 = Executed(thread[t].row, thread[t].action, FlagsOf(thread[t].row.events, found))
    BY <2>1, <2>4 DEF Lawful
  <2> QED BY <1>1, <2>1, <2>3, <2>5 DEF JobLawful, Lawful
<1> QED BY <1>1, <1>2, <1>3, <1>4 DEF HInv, Grounded

LEMMA AgeCounts ==
  ASSUME Serial, HInv, SInv', NEW i \in 1..Len(approvals), ApprovalAges(i)
  PROVE  HInv'
<1> DEFINE u == approvals[i].approved_by
<1>1. approvals \in Seq(Approvals) /\ approvals[i] \in Approvals
  BY HistoryFacts
<1>2. /\ approvals[i].status = "APPROVED" /\ SetApproval(i, u, "APPROVED", TRUE)
      /\ UNCHANGED <<findings, incident, executions, provider, audit, thread, faults>>
      /\ u \in Users \cup {NoUser} /\ "APPROVED" \in ApprovalStatuses
      /\ "APPROVED" \in ApprovalStatuses \ {"CONSUMED"}
  BY <1>1 DEF ApprovalAges, Approvals, ApprovalStatuses
<1>3. \A a : Consumed(a)' = Consumed(a)
  BY <1>1, <1>2, NotConsumed
<1>4. \A j \in 1..Len(approvals) :
        approvals'[j].action = approvals[j].action /\ approvals'[j].status = approvals[j].status
  <2>1. SetApproval(i, u, "APPROVED", TRUE) /\ TRUE \in BOOLEAN /\ u \in Users \cup {NoUser}
        /\ "APPROVED" \in ApprovalStatuses
    BY <1>2
  <2> HIDE DEF u
  <2>2. /\ approvals'[i].status = "APPROVED"
        /\ \A j \in 1..Len(approvals) : /\ approvals'[j].action = approvals[j].action
                                        /\ j # i => approvals'[j] = approvals[j]
    BY <1>1, <2>1, SetApprovalKeeps
  <2> QED BY <1>2, <2>2
<1>5. ASSUME NEW t \in Threads PROVE JobLawful(t)'
  <2>1. /\ thread[t].pc = "decide" => thread[t].item \in 1..Len(approvals)
        /\ thread[t].pc \in Holding /\ thread[t].item # 0 =>
             thread[t].item \in 1..Len(approvals)
    BY HistoryFacts, ThreadFacts, JobFacts DEF JobInv, JobType
  <2>2. Lawful(thread[t]) /\ thread' = thread /\ findings' = findings
    BY <1>2, JobFacts
  <2>3. thread[t].pc = "decide" => approvals'[thread[t].item].status = "PENDING"
    BY <1>4, <2>1, <2>2 DEF Lawful
  <2>4. thread[t].pc \in Holding /\ thread[t].item # 0 =>
          /\ approvals'[thread[t].item].status = "APPROVED"
          /\ approvals'[thread[t].item].action = thread[t].action
    BY <1>4, <2>1, <2>2 DEF Lawful
  <2> QED BY <2>2, <2>3, <2>4 DEF JobLawful, Lawful
<1>6. Threads = {} => HInv'
  <2>1. Derived(incident)' /\ Grounded(incident, findings)' /\ Counted'
    BY <1>2 DEF HInv, Derived, Grounded, Counted, Done
  <2>2. OneConsumed' /\ ConsumedWithSuccess'
    BY <1>2, <1>3 DEF HInv, OneConsumed, ConsumedWithSuccess, NeedsApproval
  <2> QED BY <1>5, <2>1, <2>2 DEF HInv
<1> QED BY <1>2, <1>3, <1>5, <1>6, NothingExecuted

LEMMA HistoryStep ==
  ASSUME Serial, HInv, [Next]_vars
  PROVE  HInv'
<1>1. SInv'
  BY SerialStep DEF HInv
<1>2. ASSUME NEW t \in Threads, Dies(t) PROVE HInv'
  BY <1>1, <1>2, JobDropped DEF Dies
<1>3. CASE UNCHANGED vars
  <2>1. UNCHANGED <<findings, incident, approvals, audit, thread>>
    BY <1>3 DEF vars
  <2>2. \A t \in Threads : JobLawful(t)'
    BY <2>1 DEF HInv, JobLawful, Lawful
  <2>3. Counted' /\ Derived(incident)' /\ Grounded(incident, findings)'
    BY <2>1 DEF HInv, Counted, Done, Derived, Grounded
  <2>4. OneConsumed' /\ ConsumedWithSuccess'
    BY <2>1 DEF HInv, OneConsumed, ConsumedWithSuccess, Consumed
  <2> QED BY <1>1, <2>2, <2>3, <2>4 DEF HInv
<1> QED BY <1>1, <1>2, <1>3, DecisionCounts, ExecutionCounts, RowChangeCounts, AgeCounts,
           AnnotateCounts DEF Next

LEMMA HistoryInit == Init => HInv
<1> SUFFICES ASSUME Init PROVE HInv
  OBVIOUS
<1>1. PICK found \in Groups, risk \in RiskScores :
        findings = found /\ incident = Opened(found, risk)
  BY DEF Init
<1>2. Derived(incident) /\ Grounded(incident, findings)
  <2> DEFINE flags == FlagsOf(EventsOf(found), found)
  <2>1. /\ incident.events = EventsOf(found) /\ incident.type = infer_incident_type(flags)
        /\ incident.actions.playbook = select_playbook(flags)
        /\ incident.actions.executed = {}
    BY <1>1 DEF Opened, Row, Plan
  <2>2. incident.type = TypeFor[incident.actions.playbook]
    BY <2>1, TypeIsPlaybook
  <2>3. Rank[select_playbook(flags)] \in Nat
    BY PlaybookType, RanksDiffer
  <2> QED BY <1>1, <2>1, <2>2, <2>3 DEF Derived, Grounded
<1>3. \A a : Consumed(a) = {}
  BY DEF Init, Consumed
<1>4. OneConsumed /\ ConsumedWithSuccess
  BY <1>3, FS_EmptySet DEF Init, OneConsumed, ConsumedWithSuccess
<1>5. Counted
  BY DoneIsFinite DEF Init, Counted
<1>6. \A t \in Threads : JobLawful(t)
  BY DEF Init, Idle, Job, JobLawful, Lawful, Executing, Holding
<1> QED BY <1>2, <1>4, <1>5, <1>6, SerialInit DEF HInv

LEMMA HistoryInvariance == Serial => (Spec => []HInv)
<1> SUFFICES ASSUME Serial PROVE Spec => []HInv
  OBVIOUS
<1>1. HInv /\ [Next]_vars => HInv'
  BY HistoryStep
<1> QED BY <1>1, HistoryInit, PTL DEF Spec

\* As long as requests on an incident do not overlap, each successful execution of a
\* high-impact action has consumed an approval of its own, whatever connector calls
\* fail and whatever processes die (the one transaction of execute()).
THEOREM ApprovalsAreConsumed == Serial => (Spec => []ConsumedWithSuccess)
<1> SUFFICES ASSUME Serial PROVE Spec => []ConsumedWithSuccess
  OBVIOUS
<1>1. HInv => ConsumedWithSuccess
  BY DEF HInv
<1> QED BY <1>1, HistoryInvariance, PTL

\* And a high-impact action is executed with success once per incident, an action
\* that needs no approval once per playbook that offers it (the EXECUTED check of
\* execute() and the actions that create_or_update_incidents() carries over).
THEOREM ActionsAreExecutedOnce == Serial => (Spec => []ExecutedOnce)
<1> SUFFICES ASSUME Serial PROVE Spec => []ExecutedOnce
  OBVIOUS
<1>1. ASSUME HInv, NEW a \in Actions, NeedsApproval(a) PROVE audit[a] <= 1
  <2>1. audit[a] = Cardinality(Consumed(a))
    BY <1>1 DEF HInv, ConsumedWithSuccess
  <2>2. PICK x : Consumed(a) \subseteq {x}
    BY <1>1 DEF HInv, OneConsumed
  <2>3. IsFiniteSet({x}) /\ Cardinality({x}) = 1
    BY FS_Singleton
  <2> QED BY <2>1, <2>2, <2>3, CountOfSubset
<1>2. ASSUME HInv, NEW a \in Actions
      PROVE  audit[a] <= Cardinality({id \in PlaybookIds : a \in Offered[id]})
  <2> DEFINE all == {id \in PlaybookIds : a \in Offered[id]}
  <2>1. IsFiniteSet(all)
    BY PlaybooksFinite, FS_Subset
  <2>2. Done(a, incident) \subseteq all
    BY DEF Done
  <2> HIDE DEF all
  <2>3. /\ Cardinality(Done(a, incident)) <= Cardinality(all)
        /\ Cardinality(Done(a, incident)) \in Nat /\ Cardinality(all) \in Nat
    BY <2>1, <2>2, CountOfSubset
  <2>4. audit[a] \in Nat /\ audit[a] <= Cardinality(Done(a, incident))
    BY <1>2, HistoryFacts DEF HInv, Counted
  <2> QED BY <2>3, <2>4 DEF all
<1>3. HInv => ExecutedOnce
  BY <1>1, <1>2 DEF ExecutedOnce
<1> QED BY <1>3, HistoryInvariance, PTL

-----------------------------------------------------------------------------
(* The life of the case: ResponseActions implements CaseLife. *)

\* A job that writes has either another status for the row, or more evidence for an
\* open case; a job that holds an approval needs it.
Prepared(row, new, found) ==
  \/ /\ new.status \in Allowed[row.status] /\ new.actions = row.actions
     /\ new.events = row.events /\ found = {}
  \/ /\ row.status \in {"NEW", "INVESTIGATING"} /\ new.status = row.status
     /\ row.events \subseteq new.events
     /\ IF new.actions.playbook = row.actions.playbook
        THEN new.actions.executed = row.actions.executed
        ELSE new.actions.executed = {}
Made(job) ==
  /\ job.pc = "write" => Prepared(job.row, job.new, job.found)
  /\ job.pc = "assess" => job.row.status \in {"NEW", "INVESTIGATING"}
  /\ job.pc \in Holding /\ job.item # 0 => NeedsApproval(job.action)

\* The actions with an APPROVED row; no action has two of them.
InForce ==
  {approvals[i].action : i \in {j \in 1..Len(approvals) : approvals[j].status = "APPROVED"}}
OneInForce ==
  \A i, j \in 1..Len(approvals) :
    /\ approvals[i].status = "APPROVED" /\ approvals[j].status = "APPROVED"
    /\ approvals[i].action = approvals[j].action
    => i = j

KInv == HInv /\ OneInForce /\ \A t \in Threads : Made(thread[t])

LEMMA GrantedInForce ==
  (IInv => Granted = InForce) /\ (IInv' => Granted' = InForce')
BY DEF IInv, TableInv, DecidedByTwo, Granted, InForce

LEMMA StatusSet ==
  ASSUME approvals \in Seq(Approvals), NEW i \in 1..Len(approvals),
         NEW approver \in Users \cup {NoUser}, NEW status \in ApprovalStatuses,
         NEW stale \in BOOLEAN, SetApproval(i, approver, status, stale)
  PROVE  /\ Len(approvals') = Len(approvals)
         /\ \A j \in 1..Len(approvals) :
              /\ approvals'[j].action = approvals[j].action
              /\ approvals'[j].status = IF j = i THEN status ELSE approvals[j].status
<1>1. /\ Len(approvals') = Len(approvals) /\ approvals'[i].status = status
      /\ \A j \in 1..Len(approvals) : /\ approvals'[j].action = approvals[j].action
                                      /\ j # i => approvals'[j] = approvals[j]
  BY SetApprovalKeeps
<1> QED BY <1>1

\* A row gets an authorization that no other row of the action has.
LEMMA GainedInForce ==
  ASSUME approvals \in Seq(Approvals), NEW i \in 1..Len(approvals),
         NEW approver \in Users \cup {NoUser}, NEW stale \in BOOLEAN,
         SetApproval(i, approver, "APPROVED", stale),
         NEW a, approvals[i].action = a, ~Taken(a, "APPROVED", i), OneInForce
  PROVE  OneInForce' /\ InForce' = InForce \cup {a}
<1>0. "APPROVED" \in ApprovalStatuses
  BY DEF ApprovalStatuses
<1>1. /\ Len(approvals') = Len(approvals)
      /\ \A j \in 1..Len(approvals) :
           /\ approvals'[j].action = approvals[j].action
           /\ approvals'[j].status = IF j = i THEN "APPROVED" ELSE approvals[j].status
  BY <1>0, StatusSet
<1>2. \A j \in 1..Len(approvals) :
        j # i /\ approvals[j].status = "APPROVED" => approvals[j].action # a
  BY DEF Taken
<1>3. OneInForce'
  BY <1>1, <1>2 DEF OneInForce
<1>4. InForce' = InForce \cup {a}
  BY <1>1 DEF InForce
<1> QED BY <1>3, <1>4

\* A row that has the authorization of an action has the only one, and loses it.
LEMMA LostInForce ==
  ASSUME approvals \in Seq(Approvals), NEW i \in 1..Len(approvals),
         approvals[i].status = "APPROVED", NEW a, approvals[i].action = a,
         NEW approver \in Users \cup {NoUser}, OneInForce,
         NEW status \in ApprovalStatuses \ {"APPROVED"},
         SetApproval(i, approver, status, FALSE)
  PROVE  OneInForce' /\ InForce' = InForce \ {a}
<1>0. status \in ApprovalStatuses /\ status # "APPROVED" /\ FALSE \in BOOLEAN
  OBVIOUS
<1>1. /\ Len(approvals') = Len(approvals)
      /\ \A j \in 1..Len(approvals) :
           /\ approvals'[j].action = approvals[j].action
           /\ approvals'[j].status = IF j = i THEN status ELSE approvals[j].status
  BY <1>0, StatusSet
<1>2. \A j \in 1..Len(approvals) :
        j # i /\ approvals[j].status = "APPROVED" => approvals[j].action # a
  BY DEF OneInForce
<1>3. OneInForce'
  BY <1>0, <1>1 DEF OneInForce
<1>4. InForce' = InForce \ {a}
  BY <1>0, <1>1, <1>2 DEF InForce
<1> QED BY <1>3, <1>4

\* A request for approval gives no authorization.
LEMMA AppendInForce ==
  ASSUME approvals \in Seq(Approvals), OneInForce, NEW a \in Actions, NEW u \in Users,
         approvals' = Append(approvals, Approval(a, u, NoUser, "PENDING", FALSE))
  PROVE  OneInForce' /\ InForce' = InForce
<1> DEFINE n == Len(approvals)
           m == Len(approvals')
<1>0. n \in Nat
  OBVIOUS
<1>1. /\ m = n + 1 /\ approvals'[m].status = "PENDING"
      /\ \A j \in 1..n : approvals'[j] = approvals[j]
  BY AppendApproval
<1> HIDE DEF n, m
<1>2. \A j \in 1..m : approvals'[j].status = "APPROVED" =>
                         j \in 1..n /\ approvals'[j] = approvals[j]
  <2> SUFFICES ASSUME NEW j \in 1..m, approvals'[j].status = "APPROVED"
               PROVE  j \in 1..n /\ approvals'[j] = approvals[j]
    OBVIOUS
  <2>1. j # m
    BY <1>1
  <2>2. j \in 1..n
    BY <1>0, <1>1, <2>1
  <2> QED BY <1>1, <2>2
<1>3. 1..n \subseteq 1..m
  BY <1>0, <1>1
<1>4. {j \in 1..m : approvals'[j].status = "APPROVED"}
        = {j \in 1..n : approvals[j].status = "APPROVED"}
  <2>1. ASSUME NEW j \in 1..n PROVE j \in 1..m /\ approvals'[j].status = approvals[j].status
    BY <1>1, <1>3
  <2>2. ASSUME NEW j \in 1..m, approvals'[j].status = "APPROVED"
        PROVE  j \in 1..n /\ approvals[j].status = "APPROVED"
    BY <1>2, <2>2
  <2> QED BY <2>1, <2>2
<1>5. InForce' = InForce
  <2> DEFINE above == {j \in 1..m : approvals'[j].status = "APPROVED"}
             below == {j \in 1..n : approvals[j].status = "APPROVED"}
  <2>1. InForce' = {approvals'[i].action : i \in above}
    BY DEF InForce, m
  <2>2. InForce = {approvals[i].action : i \in below}
    BY DEF InForce, n
  <2>3. above = below /\ \A i \in below : approvals'[i] = approvals[i]
    BY <1>1, <1>4
  <2> HIDE DEF above, below
  <2> QED BY <2>1, <2>2, <2>3
<1>6. OneInForce'
  <2>1. \A i, j \in 1..m : /\ approvals'[i].status = "APPROVED"
                          /\ approvals'[j].status = "APPROVED"
                          => /\ i \in 1..n /\ approvals'[i] = approvals[i]
                             /\ j \in 1..n /\ approvals'[j] = approvals[j]
    BY <1>2
  <2>2. \A i, j \in 1..n : /\ approvals[i].status = "APPROVED"
                          /\ approvals[j].status = "APPROVED"
                          /\ approvals[i].action = approvals[j].action
                          => i = j
    BY DEF OneInForce, n
  <2>3. \A i, j \in 1..m : /\ approvals'[i].status = "APPROVED"
                          /\ approvals'[j].status = "APPROVED"
                          /\ approvals'[i].action = approvals'[j].action
                          => i = j
    BY <2>1, <2>2
  <2> QED BY <2>3 DEF OneInForce, m
<1> QED BY <1>5, <1>6

\* Which rows of the table a step of KInv works on.
LEMMA WorksOn ==
  ASSUME HInv, NEW t \in Threads, thread[t].pc \in Holding \cup {"decide"},
         NEW i, i = thread[t].item, i # 0
  PROVE  /\ i \in 1..Len(approvals) /\ approvals[i] \in Approvals
         /\ approvals[i].approved_by \in Users \cup {NoUser}
         /\ approvals[i].action \in Actions
         /\ thread[t].pc = "decide" => thread[t].user \in Users
         /\ thread[t].pc # "decide" =>
              approvals[i].status = "APPROVED" /\ approvals[i].action = thread[t].action
<1>1. i \in 1..Len(approvals) /\ approvals \in Seq(Approvals)
  BY HistoryFacts, ThreadFacts DEF JobInv, JobType
<1>2. approvals[i] \in Approvals
  BY <1>1
<1>3. thread[t].pc = "decide" => thread[t].user \in Users
  BY HistoryFacts, ThreadFacts DEF JobInv, JobType
<1>4. thread[t].pc # "decide" =>
        approvals[i].status = "APPROVED" /\ approvals[i].action = thread[t].action
  BY JobFacts DEF Lawful
<1> QED BY <1>1, <1>2, <1>3, <1>4 DEF Approvals

(* Jobs are made as KInv says. *)

LEMMA OneMade ==
  ASSUME Serial, KInv, NEW t \in Threads, NEW job, Becomes(t, job), Made(job)
  PROVE  \A s \in Threads : Made(thread'[s])
<1>1. thread'[t] = job
  BY HistoryFacts, ThreadFacts DEF KInv
<1> QED BY <1>1 DEF Serial

LEMMA MadeStep ==
  ASSUME Serial, KInv, [Next]_vars
  PROVE  \A s \in Threads : Made(thread'[s])
<1>0. HInv
  BY DEF KInv
<1>1. ASSUME NEW t \in Threads, Becomes(t, Idle) PROVE \A s \in Threads : Made(thread'[s])
  <2>1. Made(Idle)
    BY DEF Made, Idle, Job, Holding
  <2> QED BY <1>1, <2>1, OneMade
<1>2. ASSUME NEW t \in Threads, Decision(t) PROVE \A s \in Threads : Made(thread'[s])
  <2>1. ASSUME NEW a, NEW u, NEW i, NEW pc \in {"insert", "decide"},
               Becomes(t, Job(pc, a, u, i, NoRow, NoRow, FALSE))
        PROVE  \A s \in Threads : Made(thread'[s])
    <3>1. Made(Job(pc, a, u, i, NoRow, NoRow, FALSE))
      BY DEF Made, Job, Holding
    <3> QED BY <2>1, <3>1, OneMade
  <2> QED BY <1>1, <1>2, <2>1
          DEF Decision, RequestApproval, InsertApproval, LoadApproval, CommitApproval
<1>3. ASSUME NEW t \in Threads, Execution(t) PROVE \A s \in Threads : Made(thread'[s])
  <2> DEFINE a == thread[t].action
             row == thread[t].row
  <2>1. ASSUME NEW pc \in Executing, NEW b, NEW i, NEW r, NEW new, NEW fresh,
               Becomes(t, Job(pc, b, NoUser, i, r, new, fresh)),
               pc # "authorize" /\ i # 0 => NeedsApproval(b)
        PROVE  \A s \in Threads : Made(thread'[s])
    <3>1. Made(Job(pc, b, NoUser, i, r, new, fresh))
      BY <2>1 DEF Made, Job, Executing, Holding
    <3> QED BY <2>1, <3>1, OneMade
  <2>2. ASSUME NEW b \in Tried, LoadIncident(t, b) PROVE \A s \in Threads : Made(thread'[s])
    BY <2>1, <2>2 DEF LoadIncident, Executing
  <2>3. CASE Authorize(t)
    <3>1. \/ Becomes(t, Idle)
          \/ Becomes(t, Job("connect", a, NoUser, 0, row, NoRow, FALSE))
          \/ /\ NeedsApproval(a)
             /\ \E i \in 1..Len(approvals), pc \in {"expire", "connect"} :
                  Becomes(t, Job(pc, a, NoUser, i, row, NoRow, FALSE))
      BY <2>3 DEF Authorize, Goes
    <3> HIDE DEF a, row
    <3> QED BY <1>1, <2>1, <3>1 DEF Executing
  <2>4. CASE Connect(t)
    <3> DEFINE i == thread[t].item
               fresh == ~(a \in executions)
    <3>1. /\ Becomes(t, Job("progress", a, NoUser, i, row, NoRow, fresh))
          /\ i # 0 => NeedsApproval(a)
      BY <2>4 DEF Connect, KInv, Made, Holding
    <3> HIDE DEF a, row, i, fresh
    <3> QED BY <2>1, <3>1 DEF Executing
  <2>5. CASE ReadProgress(t)
    <3> DEFINE i == thread[t].item
               fresh == thread[t].fresh
               new == Executed(row, a, FlagsOf(row.events, findings))
    <3>1. /\ Becomes(t, Job("commit", a, NoUser, i, row, new, fresh))
          /\ i # 0 => NeedsApproval(a)
      BY <2>5 DEF ReadProgress, KInv, Made, Holding
    <3> HIDE DEF a, row, i, fresh, new
    <3> QED BY <2>1, <3>1 DEF Executing
  <2> QED BY <1>1, <1>3, <2>2, <2>3, <2>4, <2>5
          DEF Execution, ExpireApproval, ConnectFails, CommitExecution
<1>4. ASSUME NEW t \in Threads, RowChange(t) PROVE \A s \in Threads : Made(thread'[s])
  <2>1. ASSUME NEW target \in IncidentStatuses, LoadStatus(t, target)
        PROVE  \A s \in Threads : Made(thread'[s])
    <3> DEFINE new == WithStatus(incident, target)
               job == Job("write", NoAction, NoUser, 0, incident, new, FALSE)
    <3>1. Becomes(t, job) /\ target \in Allowed[incident.status]
      BY <2>1 DEF LoadStatus
    <3>2. Prepared(incident, new, {})
      BY <3>1 DEF Prepared, WithStatus, Row
    <3> HIDE DEF new
    <3>3. job.pc = "write" /\ job.row = incident /\ job.new = new /\ job.found = {}
      BY DEF Job
    <3> HIDE DEF job
    <3>4. Made(job)
      BY <3>2, <3>3 DEF Made, Holding
    <3> QED BY <3>1, <3>4, OneMade
  <2>2. ASSUME NEW batch \in Batches, NEW risk \in RiskScores, LoadForEnrichment(t, batch, risk)
        PROVE  \A s \in Threads : Made(thread'[s])
    <3> DEFINE job == Enrichment("assess", incident, Joined(incident, batch, risk),
                                 batch \ findings)
    <3>1. Becomes(t, job) /\ incident.status \in {"NEW", "INVESTIGATING"}
      BY <2>2 DEF LoadForEnrichment
    <3>2. job.pc = "assess" /\ job.row = incident
      BY DEF Enrichment, Job
    <3> HIDE DEF job
    <3>3. Made(job)
      BY <3>1, <3>2 DEF Made, Holding
    <3> QED BY <3>1, <3>3, OneMade
  <2>3. CASE Assess(t)
    <3> DEFINE events == thread[t].new.events
               found == thread[t].found
               later == findings \cup found
               risk == thread[t].new.risk
               new == Enriched(incident, events, FlagsOf(events, later), risk)
               job == Enrichment("write", incident, new, found)
    <3>1. thread[t].row = incident /\ incident.events \subseteq events
      BY <1>0, <2>3, JobFacts DEF Assess, Lawful
    <3>2. Becomes(t, job)
      BY <2>3, <3>1 DEF Assess
    <3>3. incident.status \in {"NEW", "INVESTIGATING"}
      BY <2>3, <3>1 DEF Assess, KInv, Made
    <3>4. /\ incident \in Rows /\ Derived(incident) /\ Grounded(incident, findings)
          /\ findings \subseteq later
      BY <1>0, HistoryFacts DEF HInv
    <3>5. new = Enriched(incident, events, FlagsOf(events, later), risk)
      OBVIOUS
    <3>6. job.pc = "write" /\ job.row = incident /\ job.new = new /\ job.found = found
      BY DEF Enrichment, Job
    <3> HIDE DEF job, new, events, found, later, risk
    <3>7. /\ new.events = events /\ new.status = incident.status
          /\ IF new.actions.playbook = incident.actions.playbook
             THEN new.actions.executed = incident.actions.executed
             ELSE new.actions.executed = {}
      BY <3>1, <3>4, <3>5, EnrichedFollows
    <3>8. Made(job)
      BY <3>1, <3>3, <3>6, <3>7 DEF Made, Prepared, Holding
    <3> QED BY <3>2, <3>8, OneMade
  <2> QED BY <1>1, <1>4, <2>1, <2>2, <2>3 DEF RowChange, CommitRow
<1>5. CASE UNCHANGED thread
  BY <1>5 DEF KInv
<1> QED BY <1>1, <1>2, <1>3, <1>4, <1>5 DEF Next, Dies, ApprovalAges, Annotate, vars

-----------------------------------------------------------------------------
(* Each step is one of CaseLife, or leaves the life of the case as it is. *)

Lives == OneInForce' /\ (Life!Next \/ UNCHANGED Life!vars)

\* What a life sees is the row, the findings and the authorizations in force.
LEMMA Unseen ==
  ASSUME KInv, IInv', UNCHANGED <<findings, incident>>, OneInForce', InForce' = InForce
  PROVE  Lives
<1>1. Granted' = Granted
  BY GrantedInForce, HistoryFacts DEF KInv
<1> QED BY <1>1 DEF Lives, Life!vars, Evidence

LEMMA RowsUnseen ==
  ASSUME KInv, IInv', UNCHANGED <<findings, incident, approvals>>
  PROVE  Lives
<1>1. OneInForce' /\ InForce' = InForce
  BY DEF KInv, OneInForce, InForce
<1> QED BY <1>1, Unseen

LEMMA ApprovalLives ==
  ASSUME KInv, IInv', NEW t \in Threads, CommitApproval(t)
  PROVE  Lives
<1> DEFINE i == thread[t].item
           a == approvals[i].action
           u == thread[t].user
<1>0. HInv /\ IInv /\ approvals \in Seq(Approvals) /\ OneInForce
  BY HistoryFacts DEF KInv
<1>1. i # 0 /\ thread[t].pc = "decide" /\ UNCHANGED <<findings, incident>>
  BY <1>0, ThreadFacts DEF CommitApproval, JobInv, JobType
<1>2. i \in 1..Len(approvals) /\ a \in Actions /\ u \in Users \cup {NoUser}
  BY <1>0, <1>1, WorksOn
<1>3. CASE UNCHANGED approvals
  BY <1>1, <1>3, RowsUnseen
<1>4. CASE ~Taken(a, "APPROVED", i) /\ SetApproval(i, u, "APPROVED", FALSE)
  <2>1. FALSE \in BOOLEAN
    OBVIOUS
  <2> HIDE DEF u, i
  <2>2. InForce' = InForce \cup {a} /\ OneInForce'
    BY <1>0, <1>2, <1>4, <2>1, GainedInForce
  <2> HIDE DEF a
  <2>3. Granted' = Granted \cup {a}
    BY <1>0, <2>2, GrantedInForce
  <2>4. Life!Grant(a)
    BY <1>1, <2>3 DEF Life!Grant, Evidence
  <2> QED BY <1>2, <2>2, <2>4 DEF Lives, Life!Next
<1> QED BY <1>3, <1>4 DEF CommitApproval

LEMMA ExpiryLives ==
  ASSUME KInv, IInv', NEW t \in Threads, ExpireApproval(t)
  PROVE  Lives
<1> DEFINE i == thread[t].item
           a == approvals[i].action
           u == approvals[i].approved_by
<1>0. HInv /\ IInv /\ approvals \in Seq(Approvals) /\ OneInForce
  BY HistoryFacts DEF KInv
<1>1. i # 0 /\ thread[t].pc = "expire" /\ UNCHANGED <<findings, incident>>
  BY <1>0, ThreadFacts DEF ExpireApproval, JobInv, JobType
<1>2. /\ i \in 1..Len(approvals) /\ a \in Actions /\ u \in Users \cup {NoUser}
      /\ approvals[i].status = "APPROVED"
  BY <1>0, <1>1, WorksOn DEF Holding
<1>3. CASE UNCHANGED approvals
  BY <1>1, <1>3, RowsUnseen
<1>4. CASE SetApproval(i, u, "EXPIRED", FALSE)
  <2>1. "EXPIRED" \in ApprovalStatuses \ {"APPROVED"}
    BY DEF ApprovalStatuses
  <2> HIDE DEF u, i
  <2>2. InForce' = InForce \ {a} /\ OneInForce'
    BY <1>0, <1>2, <1>4, <2>1, LostInForce
  <2> HIDE DEF a
  <2>3. Granted' = Granted \ {a}
    BY <1>0, <2>2, GrantedInForce
  <2>4. Life!Lapse(a)
    BY <1>1, <2>3 DEF Life!Lapse, Evidence
  <2> QED BY <1>2, <2>2, <2>4 DEF Lives, Life!Next
<1> QED BY <1>3, <1>4 DEF ExpireApproval

LEMMA AgeLives ==
  ASSUME KInv, IInv', NEW i \in 1..Len(approvals), ApprovalAges(i)
  PROVE  Lives
<1> DEFINE a == approvals[i].action
           u == approvals[i].approved_by
<1>0. HInv /\ IInv /\ approvals \in Seq(Approvals) /\ OneInForce
  BY HistoryFacts DEF KInv
<1>1. approvals[i] \in Approvals /\ approvals[i].status = "APPROVED"
  BY <1>0 DEF ApprovalAges
<1>2. u \in Users \cup {NoUser} /\ TRUE \in BOOLEAN
  BY <1>1 DEF Approvals
<1>3. SetApproval(i, u, "APPROVED", TRUE) /\ UNCHANGED <<findings, incident>>
  BY DEF ApprovalAges
<1>4. ~Taken(a, "APPROVED", i)
  BY <1>0, <1>1 DEF Taken, OneInForce
<1>5. a \in InForce
  BY <1>1 DEF InForce
<1> HIDE DEF u
<1>6. InForce' = InForce \cup {a} /\ OneInForce'
  BY <1>0, <1>2, <1>3, <1>4, GainedInForce
<1> HIDE DEF a
<1>7. InForce' = InForce
  BY <1>5, <1>6
<1> QED BY <1>3, <1>6, <1>7, Unseen

LEMMA InsertLives ==
  ASSUME KInv, IInv', NEW t \in Threads, InsertApproval(t)
  PROVE  Lives
<1>0. HInv /\ IInv /\ approvals \in Seq(Approvals) /\ OneInForce
  BY HistoryFacts DEF KInv
<1>1. /\ thread[t].action \in Actions /\ thread[t].user \in Users
      /\ UNCHANGED <<findings, incident>>
  BY <1>0, ThreadFacts DEF InsertApproval, JobInv, JobType
<1>2. CASE UNCHANGED approvals
  BY <1>1, <1>2, RowsUnseen
<1>3. CASE approvals' = Append(approvals, Approval(thread[t].action, thread[t].user, NoUser,
                                                   "PENDING", FALSE))
  BY <1>0, <1>1, <1>3, AppendInForce, Unseen
<1> QED BY <1>2, <1>3 DEF InsertApproval

\* An execution that commits.  If the evidence still selects the playbook of the case,
\* so did the findings that were read.
LEMMA ExecutionLives ==
  ASSUME KInv, IInv', NEW t \in Threads, CommitExecution(t),
         NEW a, a = thread[t].action, NEW i, i = thread[t].item,
         NEW u, u = approvals[i].approved_by
  PROVE  Lives
<1> DEFINE new == thread[t].new
           id == incident.actions.playbook
           done == incident.actions.executed
<1>0. HInv /\ IInv /\ approvals \in Seq(Approvals) /\ OneInForce /\ incident \in Rows
  BY HistoryFacts DEF KInv
<1>1. /\ thread[t].pc = "commit" /\ "commit" \in Executing /\ "commit" \in Holding
      /\ UNCHANGED findings
  BY DEF CommitExecution, Executing, Holding
<1>2. /\ thread[t].row = incident /\ a \in Actions /\ new \in Rows
      /\ a \in Offered[id] \ done
      /\ i # 0 <=> NeedsApproval(a)
  BY <1>0, <1>1, JobFacts DEF Lawful, KInv, Made
<1>3. i # 0 => /\ i \in 1..Len(approvals) /\ approvals[i].status = "APPROVED"
               /\ approvals[i].action = a /\ u \in Users \cup {NoUser}
  BY <1>0, <1>1, WorksOn
<1>4. CASE UNCHANGED <<incident, approvals>>
  BY <1>1, <1>4, RowsUnseen
<1>5. CASE /\ incident' = Flushed(incident, new)
           /\ IF i = 0 THEN UNCHANGED approvals ELSE SetApproval(i, u, "CONSUMED", FALSE)
  <2>1. /\ OneInForce'
        /\ NeedsApproval(a) => a \in InForce /\ InForce' = InForce \ {a}
        /\ ~NeedsApproval(a) => InForce' = InForce
    <3>1. CASE i = 0
      BY <1>0, <1>2, <1>5, <3>1 DEF OneInForce, InForce
    <3>2. CASE i # 0
      <4>1. "CONSUMED" \in ApprovalStatuses \ {"APPROVED"}
        BY DEF ApprovalStatuses
      <4>2. SetApproval(i, u, "CONSUMED", FALSE)
        BY <1>5, <3>2
      <4>3. OneInForce' /\ InForce' = InForce \ {a}
        BY <1>0, <1>3, <3>2, <4>1, <4>2, LostInForce
      <4>4. a \in InForce
        BY <1>3, <3>2 DEF InForce
      <4> QED BY <1>2, <3>2, <4>3, <4>4
    <3> QED BY <3>1, <3>2
  <2>2. /\ NeedsApproval(a) => a \in Granted
        /\ Granted' = Granted \ ({b \in Actions : NeedsApproval(b)} \cap {a})
    <3>1. Granted = InForce /\ Granted' = InForce'
      BY <1>0, GrantedInForce
    <3>2. {b \in Actions : NeedsApproval(b)} \cap {a} = IF NeedsApproval(a) THEN {a} ELSE {}
      BY <1>2
    <3> QED BY <2>1, <3>1, <3>2
  <2>3. PICK found \in SUBSET findings :
          /\ Grounded(incident, found)
          /\ new = Executed(incident, a, FlagsOf(incident.events, found))
    BY <1>0, <1>1, <1>2, JobFacts DEF Lawful
  <2>4. PICK read : read = select_playbook(FlagsOf(incident.events, found))
    OBVIOUS
  <2>5. PICK e : e = Evidence
    OBVIOUS
  <2>6. /\ id \in PlaybookIds /\ read \in PlaybookIds
        /\ Rank[id] \in Nat /\ Rank[read] \in Nat /\ Rank[e] \in Nat
        /\ Rank[id] <= Rank[read] /\ Rank[read] <= Rank[e]
    <3>1. Rank[id] <= Rank[read]
      BY <2>3, <2>4 DEF Grounded
    <3>2. Rank[read] \in Nat /\ Rank[e] \in Nat /\ Rank[read] <= Rank[e]
      BY <2>4, <2>5, FlagsRise DEF Evidence
    <3> QED BY <1>0, <2>4, <3>1, <3>2, RowPlaybook, PlaybookType
  <2>7. PICK next : next = IF incident.status = "NEW" THEN "INVESTIGATING" ELSE incident.status
    OBVIOUS
  <2>8. /\ new.events = incident.events /\ new.actions.playbook = id
        /\ new.actions.executed = done \cup {a}
        /\ new.status = IF containment_progress(FlagsOf(incident.events, found), id,
                                                done \cup {a})
                        THEN "CONTAINED" ELSE next
    BY <2>3, <2>7 DEF Executed, Row, Plan
  <2>9. /\ incident'.events = incident.events /\ incident'.actions.playbook = id
        /\ incident'.actions.executed = done \cup {a} /\ incident'.status = new.status
    BY <1>2, <1>5, <2>8, FlushedCurrent
  <2>10. /\ containment_progress(FlagsOf(incident.events, found), id, done \cup {a}) =>
              Completes(id, done \cup {a})
         /\ read = id /\ Completes(id, done \cup {a}) =>
              containment_progress(FlagsOf(incident.events, found), id, done \cup {a})
    BY <2>4, <2>6, ProgressCompletes DEF containment_progress, Completes
  <2>11. e = id => read = id
    BY <2>6, RanksDiffer
  <2>12. <<id, done \cup {a}>> \in Contains <=> Completes(id, done \cup {a})
    <3>1. id \in PlaybookIds /\ done \in SUBSET Actions
      BY <1>0, <2>6 DEF Rows, Plans
    <3> HIDE DEF id, done
    <3> QED BY <1>2, <3>1 DEF Contains
  <2> HIDE DEF new
  <2>13. incident'.status \in
           IF <<id, done \cup {a}>> \notin Contains THEN {next}
           ELSE IF Evidence = id THEN {"CONTAINED"} ELSE {"CONTAINED", next}
    BY <2>5, <2>8, <2>9, <2>10, <2>11, <2>12
  <2>14. Evidence' = Evidence
    BY <1>1, <2>9 DEF Evidence
  <2>15. Life!Respond(a)
    BY <1>2, <2>2, <2>7, <2>9, <2>13, <2>14 DEF Life!Respond
  <2> QED BY <1>2, <2>1, <2>15 DEF Lives, Life!Next
<1> QED BY <1>2, <1>4, <1>5 DEF CommitExecution

\* Findings that only add to the evidence: a step of the life, or none.
LEMMA EvidenceLives ==
  ASSUME KInv, NEW e, e = Evidence, NEW e2, e2 = Evidence',
         Rank[e] <= Rank[e2], e \in PlaybookIds, e2 \in PlaybookIds,
         incident'.status = incident.status,
         incident'.actions.playbook = incident.actions.playbook,
         incident'.actions.executed = incident.actions.executed,
         Granted' = Granted, OneInForce'
  PROVE  Lives
<1>1. CASE e = e2
  BY <1>1 DEF Lives, Life!vars
<1>2. CASE e # e2
  <2>1. Rank[e] < Rank[e2]
    BY <1>2, RanksDiffer
  <2>2. Life!Find(e2)
    BY <2>1 DEF Life!Find
  <2> QED BY <2>2 DEF Lives, Life!Next
<1> QED BY <1>1, <1>2

LEMMA AnnotateLives ==
  ASSUME KInv, IInv', NEW batch \in Batches, Annotate(batch)
  PROVE  Lives
<1>0. HInv /\ IInv
  BY HistoryFacts DEF KInv
<1>1. findings' = findings \cup batch /\ UNCHANGED <<incident, approvals>>
  BY DEF Annotate
<1>2. OneInForce' /\ InForce' = InForce
  BY <1>1 DEF KInv, OneInForce, InForce
<1>3. Granted' = Granted
  BY <1>0, <1>2, GrantedInForce
<1>4. PICK e, e2 : e = Evidence /\ e2 = Evidence'
  OBVIOUS
<1>5. e2 = select_playbook(FlagsOf(incident.events, findings'))
  BY <1>1, <1>4 DEF Evidence
<1>6. Rank[e] <= Rank[e2]
  BY <1>1, <1>4, <1>5, FlagsRise DEF Evidence
<1>7. e \in PlaybookIds /\ e2 \in PlaybookIds
  BY <1>4, <1>5, PlaybookType DEF Evidence
<1> QED BY <1>1, <1>2, <1>3, <1>4, <1>6, <1>7, EvidenceLives

\* A new status, or more events, that commit.
LEMMA RowLives ==
  ASSUME KInv, IInv', NEW t \in Threads, CommitRow(t)
  PROVE  Lives
<1> DEFINE new == thread[t].new
           found == thread[t].found
           id == incident.actions.playbook
           id2 == new.actions.playbook
<1>0. HInv /\ IInv /\ incident \in Rows
  BY HistoryFacts DEF KInv
<1>1. /\ UNCHANGED approvals /\ new \in Rows /\ thread[t].row = incident
      /\ Follows(incident, new) /\ Grounded(new, findings \cup found)
      /\ Prepared(incident, new, found)
  BY <1>0, JobFacts DEF CommitRow, Lawful, KInv, Made
<1>2. CASE UNCHANGED <<findings, incident>>
  BY <1>1, <1>2, RowsUnseen
<1> HIDE DEF new, found
<1>3. CASE findings' = findings \cup found /\ incident' = Flushed(incident, new)
  <2>1. /\ incident'.events = new.events
        /\ incident'.actions = new.actions /\ incident'.status = new.status
    BY <1>1, <1>3, FlushedCurrent
  <2>2. OneInForce' /\ InForce' = InForce
    BY <1>1 DEF KInv, OneInForce, InForce
  <2>3. Granted' = Granted
    BY <1>0, <2>2, GrantedInForce
  <2>4. PICK e, e2 : e = Evidence /\ e2 = Evidence'
    OBVIOUS
  <2>5. e2 = select_playbook(FlagsOf(new.events, findings \cup found))
    BY <1>3, <2>1, <2>4 DEF Evidence
  <2>6. e \in PlaybookIds /\ e2 \in PlaybookIds
    BY <2>4, <2>5, PlaybookType DEF Evidence
  <2>7. CASE /\ new.status \in Allowed[incident.status] /\ new.actions = incident.actions
             /\ new.events = incident.events /\ found = {}
    <3>1. \/ incident.status = "NEW" /\ new.status = "INVESTIGATING"
          \/ incident.status \in {"INVESTIGATING", "CONTAINED"} /\ new.status = "RESOLVED"
      <4>1. incident.status \in IncidentStatuses
        BY <1>0 DEF Rows
      <4> QED BY <2>7, <4>1 DEF IncidentStatuses, Allowed
    <3>2. findings \cup found = findings
      BY <2>7
    <3>3. Evidence' = Evidence
      BY <2>4, <2>5, <2>7, <3>2 DEF Evidence
    <3>4. Life!TakeUp \/ Life!Resolve
      BY <2>1, <2>3, <2>7, <3>1, <3>3 DEF Life!TakeUp, Life!Resolve
    <3> QED BY <2>2, <3>4 DEF Lives, Life!Next
  <2>8. CASE /\ incident.status \in {"NEW", "INVESTIGATING"} /\ new.status = incident.status
             /\ incident.events \subseteq new.events
             /\ IF id2 = id THEN new.actions.executed = incident.actions.executed
                ELSE new.actions.executed = {}
    <3>1. Rank[e] <= Rank[e2]
      BY <2>4, <2>5, <2>8, FlagsRise DEF Evidence
    <3>2. CASE id2 = id
      BY <2>1, <2>2, <2>3, <2>4, <2>6, <2>8, <3>1, <3>2, EvidenceLives
    <3>3. CASE id2 # id
      <4>1. Rank[id] \in Nat /\ Rank[id2] \in Nat /\ Rank[id] <= Rank[id2]
        BY <1>0, <1>1, RowPlaybook DEF Follows
      <4>2. id \in PlaybookIds /\ id2 \in PlaybookIds
        BY <1>0, <1>1, RowPlaybook
      <4>3. Rank[id] < Rank[id2]
        BY <3>3, <4>1, <4>2, RanksDiffer
      <4>4. Rank[id2] <= Rank[e2]
        BY <1>1, <2>5 DEF Grounded
      <4>5. Life!Reassess(id2, e2)
        BY <2>1, <2>3, <2>4, <2>8, <3>1, <3>3, <4>3, <4>4 DEF Life!Reassess
      <4> QED BY <2>2, <2>6, <4>2, <4>5 DEF Lives, Life!Next
    <3> QED BY <3>2, <3>3
  <2> QED BY <1>1, <2>7, <2>8 DEF Prepared
<1> QED BY <1>1, <1>2, <1>3 DEF CommitRow, new, found

LEMMA LifeStep ==
  ASSUME Serial, KInv, [Next]_vars
  PROVE  KInv' /\ (Life!Next \/ UNCHANGED Life!vars)
<1>1. HInv' /\ IInv'
  <2>1. HInv'
    BY HistoryStep DEF KInv
  <2> QED BY <2>1 DEF HInv, SInv
<1>2. Lives
  <2>1. \/ UNCHANGED <<findings, incident, approvals>>
        \/ \E t \in Threads : \/ InsertApproval(t) \/ CommitApproval(t) \/ ExpireApproval(t)
                              \/ CommitExecution(t) \/ CommitRow(t)
        \/ \E i \in 1..Len(approvals) : ApprovalAges(i)
        \/ \E batch \in Batches : Annotate(batch)
    <3> DEFINE Still == UNCHANGED <<findings, incident, approvals>>
    <3>1. ASSUME NEW t \in Threads, Decision(t)
          PROVE  Still \/ InsertApproval(t) \/ CommitApproval(t)
      BY <3>1 DEF Decision, RequestApproval, LoadApproval
    <3>2. ASSUME NEW t \in Threads, Execution(t)
          PROVE  Still \/ ExpireApproval(t) \/ CommitExecution(t)
      BY <3>2 DEF Execution, LoadIncident, Authorize, Connect, ConnectFails, ReadProgress
    <3>3. ASSUME NEW t \in Threads, RowChange(t)
          PROVE  Still \/ CommitRow(t)
      BY <3>3 DEF RowChange, LoadStatus, LoadForEnrichment, Assess
    <3>4. ASSUME NEW t \in Threads, Dies(t) PROVE Still
      BY <3>4 DEF Dies
    <3>5. UNCHANGED vars => Still
      BY DEF vars
    <3> QED BY <3>1, <3>2, <3>3, <3>4, <3>5 DEF Next
  <2> QED BY <1>1, <2>1, RowsUnseen, InsertLives, ApprovalLives, ExpiryLives,
             ExecutionLives, RowLives, AgeLives, AnnotateLives
<1>3. \A t \in Threads : Made(thread'[t])
  BY MadeStep
<1>4. (\A t \in Threads : Made(thread[t]))'
  BY <1>3 DEF Made, Prepared, NeedsApproval, Holding
<1> QED BY <1>1, <1>2, <1>4 DEF KInv, Lives

LEMMA LifeInit == Init => KInv /\ Life!Init
<1> SUFFICES ASSUME Init PROVE KInv /\ Life!Init
  OBVIOUS
<1>1. PICK found \in Groups, risk \in RiskScores :
        findings = found /\ incident = Opened(found, risk)
  BY DEF Init
<1>2. /\ incident.status = "NEW" /\ incident.actions.executed = {}
      /\ incident.actions.playbook = Evidence /\ Evidence \in PlaybookIds
  BY <1>1, PlaybookType DEF Opened, Row, Plan, Evidence
<1>3. approvals = <<>>
  BY DEF Init
<1>4. OneInForce /\ Granted = {}
  BY <1>3 DEF OneInForce, Granted
<1>5. \A t \in Threads : Made(thread[t])
  BY DEF Init, Idle, Job, Made, Holding
<1>6. Life!Init
  BY <1>2, <1>4 DEF Life!Init
<1> QED BY <1>4, <1>5, <1>6, HistoryInit DEF KInv

\* As long as requests on an incident do not overlap, what becomes of a case is a life
\* of CaseLife, whatever findings other transactions put on its events: an authorization
\* is used up by one execution that commits while it is in force, evidence rises at
\* every stage but moves only an open case, to a playbook of higher rank, a playbook that
\* is complete and still selected contains the case, and the status moves as the two of
\* them and the analyst make it (approve(), execute(), update_incident(),
\* create_or_update_incidents(), process_raw_telemetry()).
THEOREM CaseLifeIsImplemented == Serial => (Spec => ImplementsCaseLife)
<1> SUFFICES ASSUME Serial PROVE Spec => ImplementsCaseLife
  OBVIOUS
<1>1. Init => Life!Init /\ KInv
  BY LifeInit
<1>2. KInv /\ [Next]_vars => KInv' /\ [Life!Next]_(Life!vars)
  BY LifeStep
<1> QED BY <1>1, <1>2, PTL DEF Spec, ImplementsCaseLife, Life!Spec

\* Hence, with one request at a time, only the analyst who resolves it takes a case out
\* of CONTAINED, and no case becomes NEW again.
THEOREM ContainmentIsKept ==
  Serial =>
    (Spec => [][/\ incident.status = "CONTAINED" => incident'.status \in {"CONTAINED", "RESOLVED"}
                /\ incident.status # "NEW" => incident'.status # "NEW"]_vars)
<1> SUFFICES ASSUME Serial
             PROVE  Spec => [][/\ incident.status = "CONTAINED" =>
                                    incident'.status \in {"CONTAINED", "RESOLVED"}
                               /\ incident.status # "NEW" => incident'.status # "NEW"]_vars
  OBVIOUS
<1>1. Init => KInv
  BY LifeInit
<1>2. ASSUME KInv, [Next]_vars
      PROVE  /\ incident.status = "CONTAINED" => incident'.status \in {"CONTAINED", "RESOLVED"}
             /\ incident.status # "NEW" => incident'.status # "NEW"
  <2>1. Life!Next \/ UNCHANGED Life!vars
    BY <1>2, LifeStep
  <2>2. CASE UNCHANGED Life!vars
    BY <2>2 DEF Life!vars
  <2>3. CASE Life!Next
    <3>1. ASSUME NEW a \in Actions, Life!Respond(a)
          PROVE  incident'.status \in {"CONTAINED", "INVESTIGATING", incident.status}
                 /\ (incident.status # "NEW" =>
                       incident'.status \in {"CONTAINED", incident.status})
      BY <3>1 DEF Life!Respond
    <3> QED BY <2>3, <3>1 DEF Life!Next, Life!Grant, Life!Lapse, Life!Find,
                              Life!Reassess,
                              Life!TakeUp, Life!Resolve
  <2> QED BY <2>1, <2>2, <2>3
<1>3. KInv /\ [Next]_vars => KInv'
  BY LifeStep
<1>4. KInv /\ [Next]_vars =>
        [/\ incident.status = "CONTAINED" => incident'.status \in {"CONTAINED", "RESOLVED"}
         /\ incident.status # "NEW" => incident'.status # "NEW"]_vars
  BY <1>2
<1> QED BY <1>1, <1>3, <1>4, PTL DEF Spec
=============================================================================
