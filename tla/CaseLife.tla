------------------------------- MODULE CaseLife -------------------------------
(***************************************************************************)
(* What the response promises of one case, with no request, no row and no  *)
(* connector: an authorization is a capability that one execution of its   *)
(* action uses up, an action is executed while the playbook of the case    *)
(* offers it, a playbook that has all it requires contains the case if the *)
(* evidence still selects it, and evidence that comes later leads an open  *)
(* case, and no other, to another playbook.                                *)
(***************************************************************************)
EXTENDS Integers

CONSTANTS
  Actions,
  Playbooks,
  Offered,     \* the actions of each playbook
  Sufficient,  \* pairs of a playbook and actions that complete what it requires
  Rank,        \* evidence only leads to playbooks of higher rank
  Guarded      \* the actions that need an authorization

VARIABLES
  stage,     \* how far the case is
  playbook,  \* the one its recommendations are of
  evidence,  \* the one that what has been found on its events selects
  done,      \* actions executed under that playbook
  granted    \* actions with an authorization in force

vars == <<stage, playbook, evidence, done, granted>>

Init ==
  /\ stage = "NEW" /\ playbook \in Playbooks /\ evidence = playbook
  /\ done = {} /\ granted = {}

Grant(a) == granted' = granted \cup {a} /\ UNCHANGED <<stage, playbook, evidence, done>>
Lapse(a) == granted' = granted \ {a} /\ UNCHANGED <<stage, playbook, evidence, done>>

\* The evidence may have changed just before: then either may become of the case.
Respond(a) ==
  LET next == IF stage = "NEW" THEN "INVESTIGATING" ELSE stage IN
  /\ a \in Offered[playbook] \ done
  /\ a \in Guarded => a \in granted
  /\ granted' = granted \ (Guarded \cap {a})
  /\ done' = done \cup {a}
  /\ stage' \in IF <<playbook, done'>> \notin Sufficient THEN {next}
                ELSE IF evidence = playbook THEN {"CONTAINED"} ELSE {"CONTAINED", next}
  /\ UNCHANGED <<playbook, evidence>>

\* Something is found on the events of the case, at whatever stage it is.
Find(id) ==
  /\ Rank[evidence] < Rank[id]
  /\ evidence' = id
  /\ UNCHANGED <<stage, playbook, done, granted>>

\* An open case is looked at anew, with what more the new events bring.
Reassess(id, found) ==
  /\ stage \in {"NEW", "INVESTIGATING"}
  /\ Rank[playbook] < Rank[id] /\ Rank[id] <= Rank[found] /\ Rank[evidence] <= Rank[found]
  /\ playbook' = id /\ evidence' = found /\ done' = {}
  /\ UNCHANGED <<stage, granted>>

TakeUp ==
  /\ stage = "NEW" /\ stage' = "INVESTIGATING"
  /\ UNCHANGED <<playbook, evidence, done, granted>>
Resolve ==
  /\ stage \in {"INVESTIGATING", "CONTAINED"} /\ stage' = "RESOLVED"
  /\ UNCHANGED <<playbook, evidence, done, granted>>

Next ==
  \/ \E a \in Actions : Grant(a) \/ Lapse(a) \/ Respond(a)
  \/ \E id \in Playbooks : Find(id) \/ \E found \in Playbooks : Reassess(id, found)
  \/ TakeUp \/ Resolve

Spec == Init /\ [][Next]_vars
=============================================================================
