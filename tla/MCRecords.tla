------------------------------ MODULE MCRecords ------------------------------
(***************************************************************************)
(* Model checking of records that transactions read early and write late:  *)
(* baselines, decisions, documents, work orders and emission factors.      *)
(* They share no state: part says which of them moves.  In part "verdicts" *)
(* only the evidence of the decisions moves, over many rows; in part       *)
(* "decisions" requests evaluate it, over a few.                           *)
(***************************************************************************)
EXTENDS Baselines, Decisions, Knowledge, WorkOrders, EmissionFactors

VARIABLE part

recordVars ==
    <<baselineVars, decisionVars, knowledgeVars, workOrderVars, factorVars, part>>

\* a level is near itself, and the second also near the first
NearItself == {<<l, l>> : l \in Levels} \cup {<<2, 1>>}

\* Findings of both strengths and of every family, sure and unsure estimates,
\* and results of models that may and may not vote.
ManyRows ==
    {Finding("FLOW_BELOW_CONTEXTUAL_BASELINE", "ACTIVE", "WARNING"),
     Finding("FLOW_PRESSURE_RESTRICTION_PATTERN", "ACTIVE", "HIGH"),
     Finding("FLOW_PRESSURE_RESTRICTION_PATTERN", "RECOVERING", "CRITICAL"),
     Finding("FLOW_PRESSURE_LEAKAGE_PATTERN", "CANDIDATE", "CRITICAL"),
     Finding("PUMP_CURRENT_ABOVE_BASELINE", "ACTIVE", "WARNING"),
     Finding("RESERVOIR_LEVEL_LOW", "ACTIVE", "HIGH"),
     Finding("CYCLE_COMPLETION_FAILURE", "ACTIVE", "WARNING"),
     Finding("LUBRICATION_PATH_DEGRADATION_PATTERN", "ACTIVE", "INFO"),
     Finding("INDEPENDENT_BEARING_CONDITION_PATTERN", "ACTIVE", "WARNING"),
     Finding("VIBRATION_ABOVE_CONTEXTUAL_BASELINE", "ACTIVE", "WARNING"),
     Finding("INSUFFICIENT_TRUSTED_DATA", "ACTIVE", "INFO"),
     Inference("RESTRICTION", "CONFIDENT"), Inference("LEAKAGE", "EXPERIMENT"),
     Inference("ANOMALY", "CONFIDENT")}
    \cup {Estimate(type, reading) :
            type \in {"LUBRICATION_DELIVERY_STATE", "BEARING_CONDITION_STATE"},
            reading \in {"UNTRUSTED", "DETERIORATING", "ELEVATED", "REST"}}

FewRows == {Finding("FLOW_PRESSURE_RESTRICTION_PATTERN", "ACTIVE", "HIGH")}

RecordsInit ==
    /\ BaselineInit /\ DecisionInit /\ KnowledgeInit /\ WorkOrderInit /\ FactorInit
    /\ part \in {"baselines", "verdicts", "decisions", "documents", "orders", "factors"}
    /\ part = "documents" \/ global

RecordsNext ==
    /\ UNCHANGED part
    /\ \/ /\ part = "baselines" /\ BaselineNext
          /\ UNCHANGED <<decisionVars, knowledgeVars, workOrderVars, factorVars>>
       \/ /\ UNCHANGED <<baselineVars, knowledgeVars, workOrderVars, factorVars>>
          /\ \/ part = "verdicts" /\ (EvidenceChanges(Rows) \/ CoverageChanges)
             \/ part = "decisions"
                /\ (EvidenceChanges(FewRows) \/ \E r \in Requesters : Evaluates(r))
       \/ /\ part = "documents" /\ KnowledgeNext
          /\ UNCHANGED <<baselineVars, decisionVars, workOrderVars, factorVars>>
       \/ /\ part = "orders" /\ WorkOrderNext
          /\ UNCHANGED <<baselineVars, decisionVars, knowledgeVars, factorVars>>
       \/ /\ part = "factors" /\ FactorNext
          /\ UNCHANGED <<baselineVars, decisionVars, knowledgeVars, workOrderVars>>

\* BaselineFairness, while it is the baselines that move
PartFairness ==
    /\ WF_baselineVars(part = "baselines" /\ (Commit("backfill") \/ Rollback("backfill")))
    /\ WF_baselineVars(part = "baselines" /\ (Commit("worker") \/ Rollback("worker")))
    /\ SF_baselineVars(part = "baselines" /\ WorkerReads)
    /\ SF_baselineVars(part = "baselines" /\ ReadNextVersion("worker"))
    /\ SF_baselineVars(/\ part = "baselines"
                       /\ refresh["worker"].decision.action # "MARK_STALE" /\ Commit("worker"))
    /\ SF_baselineVars(/\ part = "baselines"
                       /\ refresh["worker"].decision.action = "MARK_STALE" /\ Commit("worker"))
    /\ SF_baselineVars(/\ part = "baselines"
                       /\ \E v \in Versions : v # CurrentVersion /\ SweepReads(v))

RecordsSpec == RecordsInit /\ [][RecordsNext]_recordVars /\ PartFairness

\* The variables of every kind of record keep their types.
RecordsTypeOK ==
    BaselineTypeOK /\ KnowledgeTypeOK /\ WorkOrderTypeOK /\ FactorTypeOK
=============================================================================
