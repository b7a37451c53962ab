------------------------------ MODULE Decisions ------------------------------
(***************************************************************************)
(* From evidence to a decision: how the evidence about one machine is      *)
(* synthesized into a condition (condition_intelligence/services/          *)
(* condition_engine.py, synthesis.py) and how the decision that rests on   *)
(* it replaces the one before (decision_intelligence/).  Every GET of the  *)
(* latest decision is an evaluation, so several run at the same time, each *)
(* in a transaction of its own.                                            *)
(***************************************************************************)
EXTENDS FiniteSets, FiniteSetsExt, Integers

CONSTANTS
    Requesters,    \* requests that may evaluate the machine at the same time
    Places,        \* places for ACTIVE decisions
    Rows,          \* rows of evidence that may be there
    MaxEvidence    \* bound: rows of evidence

ASSUME DecisionAssumption ==
    /\ Cardinality(Places) > 2 * Cardinality(Requesters)
    /\ MaxEvidence \in Nat
    /\ \A row \in Rows :
          /\ row.source \in {"RULE_FINDING", "STATE_ESTIMATE", "ML_RESULT"}
          /\ row.source = "RULE_FINDING" =>
                row.severity \in {"INFO", "WARNING", "HIGH", "CRITICAL"}

VARIABLES
    evidence,    \* open findings, latest ML results and state estimates
    coverage,    \* registered sensors: none, too many UNUSABLE, or enough usable
    active,      \* the condition each ACTIVE decision rests on
    request      \* the transaction of each requester

decisionVars == <<evidence, coverage, active, request>>

SeverityOrder == <<"INFO", "WARNING", "HIGH", "CRITICAL">>
NoSeverity == "NONE"
NoHint == "NONE"
NoCondition == "NONE"

Normal == "NORMAL_OPERATION"
Ambiguous == "AMBIGUOUS_CONDITION"
Insufficient == "INSUFFICIENT_EVIDENCE"
QualityLimitation == "SENSOR_OR_DATA_QUALITY_LIMITATION"
Delivery == "LUBRICATION_DELIVERY_DEGRADATION"
RestrictionPattern == "DEVELOPING_RESTRICTION_PATTERN"
Blockage == "DELIVERY_BLOCKAGE_PATTERN"
LeakagePattern == "POSSIBLE_LEAKAGE_PATTERN"
PumpPerformance == "PUMP_PERFORMANCE_DEGRADATION"
LowLubricant == "LOW_LUBRICANT_AVAILABILITY"
Bearing == "BEARING_CONDITION_DEGRADATION"
IndependentBearing == "INDEPENDENT_BEARING_CONDITION"

\* One row of evidence.  status: the state of a finding; what an estimate says
\* ("REST" is neither of the first three); the standing of an ML result.
Finding(type, state, severity) ==
    [source |-> "RULE_FINDING", name |-> type, status |-> state, severity |-> severity]

Estimate(type, reading) ==
    [source |-> "STATE_ESTIMATE", name |-> type, status |-> reading, severity |-> NoSeverity]

Inference(class, standing) ==
    [source |-> "ML_RESULT", name |-> class, status |-> standing, severity |-> NoSeverity]

-----------------------------------------------------------------------------
(* What a row of evidence says. *)

\* rule_finding_map, strength
Patterns ==
    {"FLOW_PRESSURE_RESTRICTION_PATTERN", "FLOW_PRESSURE_LEAKAGE_PATTERN",
     "PUMP_DEGRADATION_PATTERN", "LUBRICATION_PATH_DEGRADATION_PATTERN",
     "INDEPENDENT_BEARING_CONDITION_PATTERN", "INSUFFICIENT_TRUSTED_DATA"}

\* rule_finding_map, condition
ConditionOfFinding(type) ==
    CASE type \in {"FLOW_PRESSURE_RESTRICTION_PATTERN", "PRESSURE_ABOVE_CONTEXTUAL_BASELINE",
                   "PRESSURE_BUILD_SLOW", "FLOW_BELOW_CONTEXTUAL_BASELINE",
                   "CYCLE_DURATION_ABOVE_BASELINE"} -> RestrictionPattern
      [] type \in {"FLOW_PRESSURE_LEAKAGE_PATTERN", "RESERVOIR_DEPLETION_ABNORMAL"} ->
            LeakagePattern
      [] type \in {"PUMP_DEGRADATION_PATTERN", "PUMP_CURRENT_ABOVE_BASELINE",
                   "PUMP_RUNTIME_ABOVE_BASELINE"} -> PumpPerformance
      [] type = "LUBRICATION_PATH_DEGRADATION_PATTERN" -> Delivery
      [] type = "INDEPENDENT_BEARING_CONDITION_PATTERN" -> IndependentBearing
      [] type = "INSUFFICIENT_TRUSTED_DATA" -> QualityLimitation
      [] type = "CYCLE_COMPLETION_FAILURE" -> Blockage
      [] type = "RESERVOIR_LEVEL_LOW" -> LowLubricant
      [] type \in {"BEARING_TEMPERATURE_ABOVE_CONTEXTUAL_BASELINE",
                   "VIBRATION_ABOVE_CONTEXTUAL_BASELINE"} -> Bearing

\* ml_classification_map; UNKNOWN and an anomaly hint at nothing
ConditionOfClass(class) ==
    CASE class = "RESTRICTION" -> RestrictionPattern
      [] class = "BLOCKAGE" -> Blockage
      [] class = "LEAKAGE" -> LeakagePattern
      [] class = "PUMP_DEGRADATION" -> PumpPerformance
      [] class = "SENSOR_FAULT" -> QualityLimitation
      [] class = "INDEPENDENT_BEARING_ISSUE" -> IndependentBearing
      [] class = "NORMAL" -> Normal
      [] OTHER -> NoHint

\* _evidence_from_rule_finding
FindingHint(row) ==
    IF row.name = "FLOW_PRESSURE_RESTRICTION_PATTERN" /\ row.severity = "CRITICAL"
    THEN Blockage
    ELSE ConditionOfFinding(row.name)

FindingStrength(row) ==
    CASE row.status = "CANDIDATE" -> "WEAK"
      [] row.name \in Patterns -> "STRONG"
      [] OTHER -> "SUPPORTING"

\* _evidence_from_state_estimate
EstimateHint(row) ==
    CASE row.status = "DETERIORATING" ->
            IF row.name = "LUBRICATION_DELIVERY_STATE" THEN Delivery ELSE Bearing
      [] row.status = "REST" -> Normal
      [] row.status \in {"UNTRUSTED", "ELEVATED"} -> NoHint

\* _evidence_from_ml_result
InferenceStrength(row) ==
    CASE row.status = "EXPERIMENT" -> "EXPERIMENTAL"
      [] row.status = "CONFIDENT" /\ row.name # "ANOMALY" -> "SUPPORTING"
      [] OTHER -> "WEAK"

HintOf(row) ==
    CASE row.source = "RULE_FINDING" -> FindingHint(row)
      [] row.source = "STATE_ESTIMATE" -> EstimateHint(row)
      [] row.source = "ML_RESULT" -> ConditionOfClass(row.name)

StrengthOf(row) ==
    CASE row.source = "RULE_FINDING" -> FindingStrength(row)
      [] row.source = "STATE_ESTIMATE" -> IF EstimateHint(row) = NoHint THEN "WEAK" ELSE "SUPPORTING"
      [] row.source = "ML_RESULT" -> InferenceStrength(row)

-----------------------------------------------------------------------------
(* The synthesis. *)

\* _GENERIC_TO_SPECIFIC_FAMILY
Specifics(generic) ==
    CASE generic = Delivery ->
            {RestrictionPattern, Blockage, LeakagePattern, PumpPerformance, LowLubricant}
      [] generic = Bearing -> {IndependentBearing}
      [] OTHER -> {}

\* _matching_hints
MatchingHints(type) == {type} \cup {g \in {Delivery, Bearing} : type \in Specifics(g)}

\* a hint of a tallied strength
Votes(row) == StrengthOf(row) \in {"STRONG", "SUPPORTING"} /\ HintOf(row) # NoHint

Voted(rows) == {HintOf(row) : row \in {x \in rows : Votes(x)}}

\* mutant: a generic hint stands beside the specific ones
Unfolded(rows) == Voted(rows) \ {Normal}

\* the hypotheses, a generic one folded into the specific ones that are there
Hypotheses(rows) ==
    LET voted == Voted(rows) \ {Normal}
    IN  {type \in voted : Specifics(type) \cap voted = {}}

For(rows, type) == {row \in rows : HintOf(row) \in MatchingHints(type)}

Rank(severity) == CHOOSE i \in DOMAIN SeverityOrder : SeverityOrder[i] = severity

\* default_severity
DefaultSeverity(type) ==
    CASE type \in {Normal, QualityLimitation, Insufficient} -> "INFO"
      [] type = Blockage -> "CRITICAL"
      [] OTHER -> "WARNING"

\* _severity_for: of the findings among the rows, confirmed or not
SeverityFor(rows, type) ==
    LET ranks == {Rank(row.severity) : row \in {x \in For(rows, type) : x.source = "RULE_FINDING"}}
    IN  IF ranks = {} THEN DefaultSeverity(type) ELSE SeverityOrder[Max(ranks)]

Verdict(type, severity, confidence) ==
    [type |-> type, severity |-> severity, confidence |-> confidence]

\* _single_hypothesis_result
SingleHypothesis(rows, type) ==
    LET voters     == {row \in For(rows, type) : Votes(row)}
        strong     == {row \in voters : StrengthOf(row) = "STRONG"}
        sources    == {row.source : row \in voters}
        confidence == CASE strong # {} /\ Cardinality(sources) >= 2 -> "HIGH"
                        [] strong # {} \/ Cardinality(sources) >= 2 -> "MODERATE"
                        [] OTHER -> "LOW"
    IN  Verdict(type, SeverityFor(rows, type), confidence)

\* no hypothesis: normal if anything was looked at
NothingAbnormal(rows) ==
    CASE Normal \in Voted(rows) -> Verdict(Normal, "INFO", "HIGH")
      [] Normal \notin Voted(rows) /\ rows # {} -> Verdict(Normal, "INFO", "MODERATE")
      [] rows = {} -> Verdict(Insufficient, "INFO", "LOW")

\* a disagreement
Disagreement(rows) ==
    Verdict(Ambiguous, "WARNING", IF Normal \in Voted(rows) THEN "LOW" ELSE "MODERATE")

\* synthesize, with _quality_gate_verdict
Synthesize(rows, sensors) ==
    LET types   == Hypotheses(rows)
        bearing == types \cap {Bearing, IndependentBearing}
        other   == types \ bearing
    IN  CASE sensors = "none" -> Verdict(Insufficient, "INFO", "LOW")
          [] sensors = "unusable" -> Verdict(QualityLimitation, "INFO", "MODERATE")
          [] sensors = "usable" /\ types = {} -> NothingAbnormal(rows)
          [] /\ sensors = "usable"
             /\ Normal \notin Voted(rows)
             /\ \/ Cardinality(types) = 1
                \/ (Cardinality(other) = 1 /\ Cardinality(bearing) = 1) ->
                SingleHypothesis(rows, CHOOSE t \in types : t \in other \/ other = {})
          [] OTHER -> Disagreement(rows)

-----------------------------------------------------------------------------
(* The evaluations. *)

Coverages == {"none", "unusable", "usable"}

NoRequest == [pc |-> "idle", type |-> NoCondition, seen |-> {}, updated |-> {}]

ActivePlaces == {p \in Places : active[p] # NoCondition}

\* A place is free when no decision is there and no UPDATE has one in its snapshot.
FreePlaces ==
    {p \in Places : active[p] = NoCondition /\ \A r \in Requesters : p \notin request[r].seen}

DecisionInit ==
    /\ evidence = {}
    /\ coverage = "usable"
    /\ active = [p \in Places |-> NoCondition]
    /\ request = [r \in Requesters |-> NoRequest]

\* ConditionEngine.assess: the condition of the evidence there is now.  The row
\* it inserts is never changed and no later step of the evaluation reads it.
Assess(r) ==
    /\ request[r].pc = "idle"
    /\ request' = [request EXCEPT ![r] =
         [NoRequest EXCEPT !.pc = "assessed", !.type = Synthesize(evidence, coverage).type]]
    /\ UNCHANGED <<evidence, coverage, active>>

\* mutant: only one prior decision is superseded
OnePrior == IF ActivePlaces = {} THEN {} ELSE {CHOOSE p \in ActivePlaces : TRUE}

\* the rows the UPDATE looks for: every ACTIVE one of the machine
PriorDecisions == ActivePlaces

\* insert_and_supersede_prior: the UPDATE takes its snapshot ...
SupersedeBegins(r) ==
    /\ request[r].pc = "assessed"
    /\ request' = [request EXCEPT ![r].pc = "updating", ![r].seen = PriorDecisions]
    /\ UNCHANGED <<evidence, coverage, active>>

\* ... and waits for rows that others have updated; those that are no longer
\* ACTIVE then are left alone.
SupersedeEnds(r) ==
    /\ request[r].pc = "updating"
    /\ \A o \in Requesters \ {r} : request[o].updated \cap request[r].seen = {}
    /\ request' = [request EXCEPT ![r].pc = "updated",
                                  ![r].updated = request[r].seen \cap ActivePlaces]
    /\ UNCHANGED <<evidence, coverage, active>>

\* the insert and the commit of the request; there is always a free place
\* (DecisionAssumption), unless older decisions are left ACTIVE
CommitDecision(r) ==
    /\ request[r].pc = "updated"
    /\ FreePlaces # {}
    /\ active' = [p \in Places |->
         CASE p = Min(FreePlaces) -> request[r].type
           [] p \in request[r].updated -> NoCondition
           [] OTHER -> active[p]]
    /\ request' = [request EXCEPT ![r] = NoRequest]
    /\ UNCHANGED <<evidence, coverage>>

\* an exception or a client gone: the transaction is rolled back
RequestFails(r) ==
    /\ request[r].pc # "idle"
    /\ request' = [request EXCEPT ![r] = NoRequest]
    /\ UNCHANGED <<evidence, coverage, active>>

\* The other services write: there is one row of each finding type, state type
\* and model.  rows: what they write in a run.
EvidenceChanges(rows) ==
    /\ \E row \in rows : evidence' = SymDiff(evidence, {row})
    /\ Cardinality(evidence') <= MaxEvidence
    /\ \A x, y \in evidence' : x.source = y.source /\ x.name = y.name => x = y
    /\ UNCHANGED <<coverage, active, request>>

CoverageChanges ==
    /\ coverage' \in Coverages \ {coverage}
    /\ UNCHANGED <<evidence, active, request>>

Evaluates(r) ==
    Assess(r) \/ SupersedeBegins(r) \/ SupersedeEnds(r) \/ CommitDecision(r) \/ RequestFails(r)

DecisionNext ==
    EvidenceChanges(Rows) \/ CoverageChanges \/ \E r \in Requesters : Evaluates(r)

DecisionSpec == DecisionInit /\ [][DecisionNext]_decisionVars

-----------------------------------------------------------------------------
(* Properties. *)

Confidences == <<"LOW", "MODERATE", "HIGH">>
Level(confidence) == CHOOSE i \in DOMAIN Confidences : Confidences[i] = confidence

\* synthesis.py: a generic hint "corroborates" a more specific hypothesis "rather
\* than becoming a second, competing hypothesis".  For a condition the evidence
\* establishes, another row that speaks for it, whatever its source, changes the
\* verdict to no other condition and lowers no confidence, nor the severity once a
\* finding has given it.
Corroboration ==
    LET now == Synthesize(evidence, coverage)
    IN  \A row \in Rows :
           /\ now.type \notin {Normal, Ambiguous, Insufficient}
           /\ Votes(row) /\ HintOf(row) \in MatchingHints(now.type)
           => LET then == Synthesize(evidence \cup {row}, coverage)
              IN  /\ then.type = now.type
                  /\ Level(then.confidence) >= Level(now.confidence)
                  /\ \/ \A x \in For(evidence, now.type) : x.source # "RULE_FINDING"
                     \/ Rank(then.severity) >= Rank(now.severity)

Overlap == \E q, r \in Requesters : q # r /\ request[q].pc # "idle" /\ request[r].pc # "idle"

\* Races leave two ACTIVE decisions, or one of older evidence (there is no unique
\* index on ACTIVE).  When the machine goes on being evaluated, evaluations no
\* longer overlap and the evidence stays, one ACTIVE decision is left, and it
\* rests on the condition of the evidence.
DecisionsConverge ==
    /\ []<><<\E r \in Requesters : CommitDecision(r)>>_request
    /\ <>[]~Overlap
    /\ <>[][FALSE]_<<evidence, coverage>>
    =>
        <>[](\E p \in Places :
                /\ ActivePlaces = {p}
                /\ active[p] = Synthesize(evidence, coverage).type)
=============================================================================
