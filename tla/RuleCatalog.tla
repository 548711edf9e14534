------------------------------ MODULE RuleCatalog ------------------------------
(***************************************************************************)
(* The catalogue of detection rules (platform_api.py): one rule of one     *)
(* tenant, whose versions are listed, created and promoted by requests     *)
(* that overlap.  A request reads, decides and commits; other requests     *)
(* commit in between.  The catalogue is a record: the detection engine     *)
(* never reads it.                                                         *)
(***************************************************************************)

CONSTANTS
  Versions,  \* the versions a request may name
  Shipped,   \* those the RULES table of some deployed release lists
  Requests   \* the requests under way at once

ASSUME CatalogAssumption == Versions # {} /\ Shipped \subseteq Versions

VARIABLES
  catalog,   \* the row of each version
  request    \* what each request has loaded and is about to commit
catalogVars == <<catalog, request>>

RuleStatuses == {"DRAFT", "TESTING", "ACTIVE", "RETIRED"}
RuleRow == [status : RuleStatuses \cup {"ABSENT"}, enabled : BOOLEAN]
Absent == [status |-> "ABSENT", enabled |-> FALSE]

\* row: the row as the session loaded it, or the row to be added.  fresh: no
\* other commit has changed the catalogue since then.
CatalogRequest ==
  [ pc : {"idle", "add", "survey", "commit"}, version : Versions, row : RuleRow,
    target : RuleStatuses, old : SUBSET Versions, lit : SUBSET Versions,
    fresh : BOOLEAN ]

NoRequest ==
  [ pc |-> "idle", version |-> CHOOSE v \in Versions : TRUE, row |-> Absent,
    target |-> "DRAFT", old |-> {}, lit |-> {}, fresh |-> FALSE ]

CatalogTypeOK ==
  catalog \in [Versions -> RuleRow] /\ request \in [Requests -> CatalogRequest]

ActiveVersions == {v \in Versions : catalog[v].status = "ACTIVE"}

Transitions ==
  [ DRAFT |-> {"TESTING"}, TESTING |-> {"ACTIVE", "DRAFT"}, ACTIVE |-> {"RETIRED"},
    RETIRED |-> {}, ABSENT |-> {} ]

CatalogInit ==
  catalog = [v \in Versions |-> Absent] /\ request = [r \in Requests |-> NoRequest]

-----------------------------------------------------------------------------
\* A row of that version is looked for and not found.
Missing(r, v, row) ==
  /\ request[r].pc = "idle"
  /\ catalog[v].status = "ABSENT"
  /\ request' = [request EXCEPT ![r] =
                   [ pc |-> "add", version |-> v, row |-> row, target |-> row.status,
                     old |-> {}, lit |-> {}, fresh |-> TRUE ]]
  /\ UNCHANGED catalog

\* GET /rules adds the version its release ships, ACTIVE whatever else is.
Bootstrap(r, v) == Missing(r, v, [status |-> "ACTIVE", enabled |-> TRUE])

CreateRule(r, v) == Missing(r, v, [status |-> "DRAFT", enabled |-> FALSE])

\* r commits: whoever read before works on a catalogue that has changed.
Overtakes(r) ==
  [q \in Requests |-> IF q = r THEN NoRequest ELSE [request[q] EXCEPT !.fresh = FALSE]]

\* uq_rule_version refuses a version another request has added meanwhile.
AddRule(r) ==
  /\ request[r].pc = "add"
  /\ catalog[request[r].version].status = "ABSENT"
  /\ catalog' = [catalog EXCEPT ![request[r].version] = request[r].row]
  /\ request' = Overtakes(r)

LoadRule(r, v, target) ==
  /\ request[r].pc = "idle"
  /\ target \in Transitions[catalog[v].status]
  /\ request' = [request EXCEPT ![r] =
                   [ pc |-> IF target = "ACTIVE" THEN "survey" ELSE "commit",
                     version |-> v, row |-> catalog[v], target |-> target,
                     old |-> {}, lit |-> {}, fresh |-> TRUE ]]
  /\ UNCHANGED catalog

\* Mutant: the versions in force are not looked for.
Survey_Nothing(r) ==
  /\ request[r].pc = "survey"
  /\ request' = [request EXCEPT ![r].pc = "commit"]
  /\ UNCHANGED catalog

\* The query for the versions in force; the session keeps its own copy of the
\* row it has loaded before.
Survey(r) ==
  LET others == ActiveVersions \ {request[r].version} IN
  /\ request[r].pc = "survey"
  /\ request' = [request EXCEPT ![r] =
                   [ pc |-> "commit", version |-> request[r].version, row |-> request[r].row,
                     target |-> request[r].target, old |-> others,
                     lit |-> {v \in others : catalog[v].enabled},
                     fresh |-> request[r].fresh ]]
  /\ UNCHANGED catalog

StatusAfter(q, v) ==
  IF v = q.version THEN q.target
  ELSE IF v \in q.old THEN "RETIRED" ELSE catalog[v].status

\* Only columns that differ from what was loaded are written: retiring a
\* version by a request of its own leaves it enabled.
EnabledAfter(q, v) ==
  IF v = q.version
  THEN catalog[v].enabled \/ (q.target = "ACTIVE" /\ ~q.row.enabled)
  ELSE catalog[v].enabled /\ v \notin q.old \cap q.lit

Promoted(q) ==
  [v \in Versions |-> [status |-> StatusAfter(q, v), enabled |-> EnabledAfter(q, v)]]

CommitPromotion(r) ==
  /\ request[r].pc = "commit"
  /\ catalog' = Promoted(request[r])
  /\ request' = Overtakes(r)

\* A lost version, a constraint, a deadlock, a death: nothing is written.
RequestGone(r) ==
  /\ request[r].pc # "idle"
  /\ request' = [request EXCEPT ![r] = NoRequest]
  /\ UNCHANGED catalog

CatalogNext ==
  \E r \in Requests :
    \/ \E v \in Shipped : Bootstrap(r, v)
    \/ \E v \in Versions : CreateRule(r, v)
    \/ AddRule(r)
    \/ \E v \in Versions, target \in RuleStatuses : LoadRule(r, v, target)
    \/ Survey(r)
    \/ CommitPromotion(r)
    \/ RequestGone(r)

CatalogSpec == CatalogInit /\ [][CatalogNext]_catalogVars

-----------------------------------------------------------------------------
\* The step is the commit of request r.
Commits(r) ==
  request[r].pc \in {"add", "commit"} /\ request'[r].pc = "idle" /\ catalog' # catalog

\* Unless another commit came between what it read and what it writes, a
\* promotion leaves its version the only ACTIVE one, and enabled; a rule is left
\* without an ACTIVE version only by retiring its only one; and RETIRED is final.
\* (Overtaken commits break each of the three, and a release that ships a new
\* version puts it beside the one in force.)
PromotionsAreSound ==
  [][\A r \in Requests :
       Commits(r) /\ request[r].fresh =>
         /\ (request[r].pc = "commit" /\ request[r].target = "ACTIVE") =>
              /\ ActiveVersions' = {request[r].version}
              /\ catalog'[request[r].version].enabled
         /\ (ActiveVersions # {} /\ ActiveVersions' = {}) =>
              /\ request[r].target = "RETIRED"
              /\ ActiveVersions = {request[r].version}
         /\ \A v \in Versions :
              catalog[v].status = "RETIRED" => catalog'[v].status = "RETIRED"]_catalogVars
=============================================================================
