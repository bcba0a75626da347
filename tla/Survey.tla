------------------------------- MODULE Survey -------------------------------
(***************************************************************************)
(* A survey of an account as runBenchAWS does it: DiscoverTypes, then, if  *)
(* it succeeded, EnrichAttributes over exactly the rows it returned, in    *)
(* one context.  The error of the enrichment does not abort the survey:    *)
(* its outcome is read off the rows.  The selection is in the order of the *)
(* type names, as SupportedTypes returns it.                               *)
(***************************************************************************)
EXTENDS Discover, Enrich

ASSUME SurveyAssumption == Row = Rank /\ TypeOf = KindOf

surveyVars == <<discoverVars, enrichVars>>

SurveyInit == DiscoverInit /\ EnrichInit

(* Fault: what was found is enriched although the discovery failed. *)
InAnyCase == phase \in {"done", "failed"}
(* "discover phase: %w" *)
Discovered == phase = "done"

Handover ==
  /\ Discovered
  /\ Begin(Returned)
  /\ UNCHANGED discoverVars

SurveyNext ==
  \/ DiscoverStep /\ UNCHANGED enrichVars
  \/ Handover
  \/ EnrichWork /\ UNCHANGED discoverVars
  \/ ContextEnds /\ UNCHANGED <<phase, bounded, task, problem, found, telling, stamped, history,
                                stage, idx, pool, report>>

SurveySpec ==
  /\ SurveyInit /\ [][SurveyNext]_surveyVars
  /\ DiscoverFair /\ EnrichFair
  /\ WF_surveyVars(Handover)
-----------------------------------------------------------------------------
(* What the survey counts at its end: a row counted as enriched was         *)
(* returned by a discovery of which no type is missing, except those that   *)
(* timed out under a budget, and every returned row with an enricher is     *)
(* either enriched or counted as failed.                                    *)
SurveyAccounts ==
  stage # "off" =>
    /\ idx = {r \in UNION {found[t] : t \in Type \ downgraded} : KindOf[r] \in Enrichable}
    /\ \A t \in Type \ downgraded : handed[t] # "nothing" /\ problem[t] = "none"
    /\ downgraded # {} => bounded
    /\ stage = "done" => \A r \in idx : status[r] # "none"

(* The end of the context brings the survey to its end, once the prefetch   *)
(* has returned: no retry, no queue and no stalled call outlives it.        *)
SurveyEnds ==
  (ContextOver /\ phase # "prefetch") ~> (phase = "failed" \/ stage = "done")
=============================================================================
