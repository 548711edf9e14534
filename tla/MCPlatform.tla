------------------------------ MODULE MCPlatform ------------------------------
(***************************************************************************)
(* The components around the two pipelines, side by side: the assessment   *)
(* of a case, the rule catalogue, the connector, the work on a case and    *)
(* the event feed.  They share no state, so a behaviour exercises one of   *)
(* them, its part, while the others stand still.                           *)
(***************************************************************************)
EXTENDS Assessment, RuleCatalog, Auth0Connector, CaseWork, EventFeed, TLC

VARIABLE part
platformVars ==
  <<part, assessmentVars, catalogVars, connectorVars, caseVars, feedVars>>

Parts == {"assessment", "catalogue", "connector", "case", "feed"}

\* Of the parts that stand still one initial state will do.
PlatformInit ==
  /\ part \in Parts
  /\ AssessmentInit /\ CatalogInit /\ ConnectorInit /\ CaseInit /\ FeedInit
  /\ part # "case" => file.evidence = CaseEvents
  /\ part # "feed" => table = EventIds

PlatformNext ==
  /\ UNCHANGED part
  /\ \/ part = "assessment" /\ AssessmentNext
        /\ UNCHANGED <<catalogVars, connectorVars, caseVars, feedVars>>
     \/ part = "catalogue" /\ CatalogNext
        /\ UNCHANGED <<assessmentVars, connectorVars, caseVars, feedVars>>
     \/ part = "connector" /\ ConnectorNext
        /\ UNCHANGED <<assessmentVars, catalogVars, caseVars, feedVars>>
     \/ part = "case" /\ CaseNext
        /\ UNCHANGED <<assessmentVars, catalogVars, connectorVars, feedVars>>
     \/ part = "feed" /\ FeedNext
        /\ UNCHANGED <<assessmentVars, catalogVars, connectorVars, caseVars>>

PlatformSpec ==
  PlatformInit /\ [][PlatformNext]_platformVars /\ ConnectorFairness

\* Event 5 is the newest; 2 and 4 share their timestamp; identifiers and
\* timestamps are in different orders.
Stamps == (1 :> 3) @@ (2 :> 1) @@ (3 :> 2) @@ (4 :> 1) @@ (5 :> 4)

\* Every part keeps its variables in their types.
PlatformTypeOK ==
  AssessmentTypeOK /\ CatalogTypeOK /\ ConnectorTypeOK /\ CaseTypeOK /\ FeedTypeOK
=============================================================================
