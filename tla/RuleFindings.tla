---------------------------- MODULE RuleFindings ----------------------------
(***************************************************************************)
(* The deterministic rules of one machine and the life of their findings   *)
(* (rules_engine/services/rule_engine.py, services/lifecycle.py,           *)
(* repositories/rule_finding_repository.py): one evaluation per cycle of   *)
(* the rules worker, and evaluations of the reprocess command, which may   *)
(* run beside it.                                                          *)
(*                                                                         *)
(* A rule is reduced to "its signal deviates".  The machine has one        *)
(* component of each kind, so a finding type names a lineage.  An          *)
(* evaluation reads the open findings, later writes rows by id and commits *)
(* them together.                                                          *)
(***************************************************************************)
EXTENDS Integers, FiniteSetsExt

CONSTANTS
    Signals,        \* the measurements of the machine
    Tracked,        \* the finding types whose rows are followed
    Required,       \* debounce.by_finding_type: firings before ACTIVE
    FindingSlots,   \* places for rows of one lineage
    Windows,        \* what the window of a reprocess command may show
    MaxReprocess    \* bound: evaluations by the reprocess command

\* The finding type of each rule over one measurement (_SINGLE_SIGNAL_CHECKS and
\* the reservoir and cycle checks).  Both vibration rules have one rule_id.
TypeOf ==
    [FLOW                |-> "FLOW_BELOW_CONTEXTUAL_BASELINE",
     PRESSURE            |-> "PRESSURE_ABOVE_CONTEXTUAL_BASELINE",
     PUMP_CURRENT        |-> "PUMP_CURRENT_ABOVE_BASELINE",
     PUMP_RUNTIME        |-> "PUMP_RUNTIME_ABOVE_BASELINE",
     BEARING_TEMPERATURE |-> "BEARING_TEMPERATURE_ABOVE_CONTEXTUAL_BASELINE",
     VIBRATION_RMS       |-> "VIBRATION_ABOVE_CONTEXTUAL_BASELINE",
     VIBRATION_PEAK      |-> "VIBRATION_ABOVE_CONTEXTUAL_BASELINE",
     RESERVOIR_LEVEL     |-> "RESERVOIR_LEVEL_LOW",
     RESERVOIR_DEPLETION |-> "RESERVOIR_DEPLETION_ABNORMAL",
     PRESSURE_RISE       |-> "PRESSURE_BUILD_SLOW",
     CYCLE_DURATION      |-> "CYCLE_DURATION_ABOVE_BASELINE",
     CYCLE_COMPLETION    |-> "CYCLE_COMPLETION_FAILURE"]

SingleTypes == {TypeOf[s] : s \in DOMAIN TypeOf}

Restriction == "FLOW_PRESSURE_RESTRICTION_PATTERN"
Leakage == "FLOW_PRESSURE_LEAKAGE_PATTERN"
PumpDegradation == "PUMP_DEGRADATION_PATTERN"
PathDegradation == "LUBRICATION_PATH_DEGRADATION_PATTERN"
IndependentBearing == "INDEPENDENT_BEARING_CONDITION_PATTERN"
InsufficientData == "INSUFFICIENT_TRUSTED_DATA"

FindingTypes ==
    SingleTypes \cup {Restriction, Leakage, PumpDegradation, PathDegradation,
                      IndependentBearing, InsufficientData}

ASSUME FindingAssumption ==
    /\ Signals \subseteq DOMAIN TypeOf
    /\ Tracked \subseteq FindingTypes
    /\ Required \in [FindingTypes -> Nat \ {0}]
    /\ FindingSlots \in Nat \ {0}
    /\ Windows \subseteq SUBSET Signals
    /\ MaxReprocess \in Nat

VARIABLES
    finding,      \* the rows of each lineage
    evaluation,   \* the transaction of each evaluator
    deviating,    \* the measurements that deviate from their baseline
    trusted,      \* enough sensors of the machine are eligible
    reprocesses,  \* evaluations the reprocess command has started
    mishaps,      \* history: a savepoint of a candidate or a row was undone
    fires,        \* history: firings since the lineage last did not fire
    quiet         \* history: cycles in a row in which it did not fire, up to 2

findingVars == <<finding, evaluation, deviating, trusted, reprocesses, mishaps, fires, quiet>>

Evaluators == {"worker", "reprocess"}
Slots == 1 .. FindingSlots
Open == {"CANDIDATE", "ACTIVE", "RECOVERING"}

\* No reader tells a resolved row from a place where no row ever was, and none
\* reads the counter of one.
Finding == [state : Open \cup {"RESOLVED"}, cycles : Nat]
NoFinding == [state |-> "RESOLVED", cycles |-> 0]

FindingTypeOK ==
    /\ finding \in [Tracked -> [Slots -> Finding]]
    /\ evaluation \in [Evaluators -> [busy : BOOLEAN, undone : BOOLEAN,
                                      fired : [Tracked -> 0 .. 2],
                                      slot : [Tracked -> 0 .. FindingSlots],
                                      read : [Tracked -> Finding]]]
    /\ deviating \subseteq Signals
    /\ trusted \in BOOLEAN
    /\ reprocesses \in 0 .. MaxReprocess
    /\ mishaps \in BOOLEAN
    /\ fires \in [Tracked -> Nat]
    /\ quiet \in [Tracked -> 0 .. 2]

NoEvaluation ==
    [busy |-> FALSE, undone |-> FALSE, fired |-> [l \in Tracked |-> 0], slot |-> [l \in Tracked |-> 0],
     read |-> [l \in Tracked |-> NoFinding]]

FindingInit ==
    /\ finding = [l \in Tracked |-> [s \in Slots |-> NoFinding]]
    /\ evaluation = [w \in Evaluators |-> NoEvaluation]
    /\ deviating = {}
    /\ trusted = TRUE
    /\ reprocesses = 0
    /\ mishaps = FALSE
    /\ fires = [l \in Tracked |-> 0]
    /\ quiet = [l \in Tracked |-> 0]

-----------------------------------------------------------------------------
(* The rules, as far as they look at each other. *)

\* _evaluate_pattern: all required types fire and no excluded one does
Matches(types, requires, excludes) == requires \subseteq types /\ types \cap excludes = {}

\* bearing.lubrication_signal_types
LubricationTypes ==
    {TypeOf[s] : s \in {"FLOW", "PRESSURE", "PRESSURE_RISE", "PUMP_CURRENT",
                        "PUMP_RUNTIME", "CYCLE_DURATION", "CYCLE_COMPLETION"}}

\* mutant: leakage does not exclude a pressure above its baseline
SpecificWithoutExclusion(types) ==
    {p \in {Restriction, Leakage, PumpDegradation} :
        CASE p = Restriction ->
                Matches(types, {TypeOf.FLOW, TypeOf.PRESSURE}, {})
          [] p = Leakage ->
                Matches(types, {TypeOf.FLOW, TypeOf.RESERVOIR_DEPLETION}, {})
          [] p = PumpDegradation ->
                Matches(types, {TypeOf.PRESSURE_RISE}, {TypeOf.PRESSURE})}

\* check_restriction_pattern, check_leakage_pattern, check_pump_degradation_pattern
SpecificPatterns(types) ==
    {p \in {Restriction, Leakage, PumpDegradation} :
        CASE p = Restriction ->
                Matches(types, {TypeOf.FLOW, TypeOf.PRESSURE}, {})
          [] p = Leakage ->
                Matches(types, {TypeOf.FLOW, TypeOf.RESERVOIR_DEPLETION}, {TypeOf.PRESSURE})
          [] p = PumpDegradation ->
                Matches(types, {TypeOf.PRESSURE_RISE}, {TypeOf.PRESSURE})}

\* check_lubrication_path_degradation_pattern: only when none of those matched
PathPattern(types) ==
    IF SpecificPatterns(types) = {} /\ Cardinality(types \cap LubricationTypes) >= 2
    THEN {PathDegradation} ELSE {}

\* check_independent_bearing_pattern; the peak value alone does not count
BearingPattern(measurements, types) ==
    IF /\ measurements \cap {"BEARING_TEMPERATURE", "VIBRATION_RMS"} # {}
       /\ types \cap LubricationTypes = {}
    THEN {IndependentBearing} ELSE {}

\* _evaluate_all_rules: how many candidates a lineage has for the measurements that
\* deviate; with too few trusted sensors nothing else is evaluated
CandidateCount(measurements, enough, t) ==
    LET types    == {TypeOf[s] : s \in measurements}
        patterns == SpecificPatterns(types) \cup PathPattern(types)
                        \cup BearingPattern(measurements, types)
    IN  IF ~enough THEN IF t = InsufficientData THEN 1 ELSE 0
        ELSE IF t \in SingleTypes THEN Cardinality({s \in measurements : TypeOf[s] = t})
        ELSE IF t \in patterns THEN 1 ELSE 0

\* as a function, which TLC computes once
Candidates ==
    [measurements \in SUBSET Signals |->
        [enough \in BOOLEAN |->
            [t \in Tracked |-> CandidateCount(measurements, enough, t)]]]

-----------------------------------------------------------------------------
(* The lifecycle. *)

\* mutant: a finding that stops firing is resolved at once
ResolvesAtOnce(row, fired, required) ==
    CASE fired /\ row.state \notin Open -> "CREATE_CANDIDATE"
      [] fired /\ row.state = "CANDIDATE" ->
            IF row.cycles + 1 >= required THEN "ACTIVATE" ELSE "ADVANCE_CANDIDATE"
      [] fired /\ row.state = "ACTIVE" -> "REFRESH_ACTIVE"
      [] fired /\ row.state = "RECOVERING" -> "REACTIVATE_FROM_RECOVERING"
      [] ~fired /\ row.state \in Open -> "RESOLVE"
      [] OTHER -> "NOOP"

\* mutant: a finding that stops firing before it is ACTIVE stays a candidate
KeepsCandidate(row, fired, required) ==
    CASE fired /\ row.state \notin Open -> "CREATE_CANDIDATE"
      [] fired /\ row.state = "CANDIDATE" ->
            IF row.cycles + 1 >= required THEN "ACTIVATE" ELSE "ADVANCE_CANDIDATE"
      [] fired /\ row.state = "ACTIVE" -> "REFRESH_ACTIVE"
      [] fired /\ row.state = "RECOVERING" -> "REACTIVATE_FROM_RECOVERING"
      [] ~fired /\ row.state = "RECOVERING" -> "RESOLVE"
      [] ~fired /\ row.state = "ACTIVE" -> "MARK_RECOVERING"
      [] OTHER -> "NOOP"

\* decide()
DecideFinding(row, fired, required) ==
    CASE fired /\ row.state \notin Open -> "CREATE_CANDIDATE"
      [] fired /\ row.state = "CANDIDATE" ->
            IF row.cycles + 1 >= required THEN "ACTIVATE" ELSE "ADVANCE_CANDIDATE"
      [] fired /\ row.state = "ACTIVE" -> "REFRESH_ACTIVE"
      [] fired /\ row.state = "RECOVERING" -> "REACTIVATE_FROM_RECOVERING"
      [] ~fired /\ row.state \in {"CANDIDATE", "RECOVERING"} -> "RESOLVE"
      [] ~fired /\ row.state = "ACTIVE" -> "MARK_RECOVERING"
      [] OTHER -> "NOOP"

\* The UPDATE of each action: the columns it names, over the row as it is now.
\* read is the row the decision was made on.
WriteFinding(action, read, row) ==
    CASE action = "CREATE_CANDIDATE" -> [state |-> "CANDIDATE", cycles |-> 1]
      [] action = "ADVANCE_CANDIDATE" -> [row EXCEPT !.cycles = read.cycles + 1]
      [] action \in {"ACTIVATE", "REACTIVATE_FROM_RECOVERING"} ->
            [state |-> "ACTIVE", cycles |-> 0]
      [] action = "REFRESH_ACTIVE" -> [row EXCEPT !.cycles = 0]
      [] action = "MARK_RECOVERING" -> [row EXCEPT !.state = "RECOVERING"]
      [] action = "RESOLVE" -> NoFinding
      [] OTHER -> row

\* A candidate applied to a row: what the session then hands the next candidate,
\* and the row
Firing(l, read, row) ==
    LET action == DecideFinding(read, TRUE, Required[l])
    IN  [read |-> WriteFinding(action, read, read), row |-> WriteFinding(action, read, row)]

\* The candidates of one lineage are applied in turn; both vibration rules make two
Applied(l, n, read, row) ==
    LET first  == Firing(l, read, row)
        second == Firing(l, first.read, first.row)
    IN  CASE n = 0 -> row
          [] n = 1 -> first.row
          [] OTHER -> second.row

\* get_current: the open row of the lineage, 0 when there is none
OpenSlot(l) ==
    LET open == {s \in Slots : finding[l][s].state \in Open}
    IN  IF open = {} THEN 0 ELSE Min(open)

\* A resolved row that no evaluation has read will not be read again: its place
\* may go to a new row.
FreeSlots(l) ==
    {s \in Slots : /\ finding[l][s].state \notin Open
                   /\ \A w \in Evaluators : evaluation[w].busy => evaluation[w].slot[l] # s}

-----------------------------------------------------------------------------
(* The evaluations. *)

Begin(w, measurements) ==
    /\ ~evaluation[w].busy
    /\ evaluation' = [evaluation EXCEPT ![w] =
         [busy |-> TRUE, undone |-> FALSE,
          fired |-> Candidates[measurements][trusted],
          slot |-> [l \in Tracked |-> OpenSlot(l)],
          read |-> [l \in Tracked |-> IF OpenSlot(l) = 0 THEN NoFinding
                                      ELSE finding[l][OpenSlot(l)]]]]
    /\ UNCHANGED <<finding, deviating, trusted, mishaps, fires, quiet>>

WorkerBegins == Begin("worker", deviating) /\ UNCHANGED reprocesses

\* the command looks at another window; eligibility is that of now
ReprocessBegins ==
    /\ reprocesses < MaxReprocess
    /\ reprocesses' = reprocesses + 1
    /\ \E measurements \in Windows : Begin("reprocess", measurements)

\* uq_rule_finding_active_scope
OneOpen(rows) ==
    \A r, s \in Slots : rows[r].state \in Open /\ rows[s].state \in Open => r = s

\* the candidates of a lineage that fired: those that find no open row create
\* one; an insert that meets one is undone, and the next candidate finds it
Fired(l, e) ==
    LET n    == e.fired[l]
        open == OpenSlot(l)
        new  == Min(FreeSlots(l))
    IN  CASE e.slot[l] # 0 ->
               [finding[l] EXCEPT ![e.slot[l]] = Applied(l, n, e.read[l], @)]
          [] e.slot[l] = 0 /\ open = 0 ->
               [finding[l] EXCEPT ![new] = Applied(l, n, NoFinding, @)]
          [] OTHER -> [finding[l] EXCEPT ![open] = Applied(l, n - 1, @, @)]

\* an open finding that did not fire
NotFired(l, e) ==
    IF e.slot[l] = 0 THEN finding[l]
    ELSE [finding[l] EXCEPT ![e.slot[l]] =
            WriteFinding(DecideFinding(e.read[l], FALSE, Required[l]), e.read[l], @)]

Outcome(l, e) == IF e.fired[l] > 0 THEN Fired(l, e) ELSE NotFired(l, e)

\* an evaluation is over; undone: it failed or lost a savepoint
Ends(w, undone) ==
    /\ evaluation[w].busy
    /\ evaluation' = [evaluation EXCEPT ![w] = [NoEvaluation EXCEPT !.undone = undone]]

Undisturbed == reprocesses = 0 /\ ~mishaps

\* history: what the evaluations have seen, as long as it matters
Observe(e) ==
    /\ fires' = [l \in Tracked |-> IF ~Undisturbed' \/ e.fired[l] = 0 THEN 0
                                   ELSE Min({fires[l] + e.fired[l], Required[l]})]
    /\ quiet' = [l \in Tracked |-> IF ~Undisturbed' \/ e.fired[l] > 0 THEN 0
                                   ELSE Min({quiet[l] + 1, 2})]

\* _apply_lifecycle and the commit.  Errors lose the savepoints of some lineages;
\* so does the unique index, when a stale write would open a second row.
CommitFindings(w, lost) ==
    /\ Ends(w, lost # {})
    /\ UNCHANGED <<deviating, trusted, reprocesses>>
    /\ mishaps' = (mishaps \/ lost # {})
    /\ finding' = [l \in Tracked |->
            IF l \in lost \/ ~OneOpen(Outcome(l, evaluation[w])) THEN finding[l]
            ELSE Outcome(l, evaluation[w])]
    /\ Observe(evaluation[w])

\* the savepoint of the machine or the transaction is rolled back
EvaluationFails(w) ==
    /\ Ends(w, TRUE)
    /\ UNCHANGED <<finding, deviating, trusted, reprocesses, mishaps, fires, quiet>>

\* the machine and the quality of its data
MachineChanges ==
    /\ \/ /\ \E s \in Signals : deviating' = SymDiff(deviating, {s})
          /\ UNCHANGED trusted
       \/ trusted' = ~trusted /\ UNCHANGED deviating
    /\ UNCHANGED <<finding, evaluation, reprocesses, mishaps, fires, quiet>>

FindingNext ==
    \/ WorkerBegins
    \/ ReprocessBegins
    \/ \E w \in Evaluators, lost \in SUBSET Tracked : CommitFindings(w, lost)
    \/ \E w \in Evaluators : EvaluationFails(w)
    \/ MachineChanges

FindingSpec == FindingInit /\ [][FindingNext]_findingVars

-----------------------------------------------------------------------------
(* Properties.  Undisturbed: only the worker evaluates, and no savepoint was *)
(* lost; a lost one leaves its row as it was for another cycle, and a stale  *)
(* write of the reprocess command may open a resolved row again.             *)

\* Onset debounce: a finding becomes ACTIVE only when its lineage has fired as
\* often as its policy asks since the last cycle in which it did not, and an
\* ACTIVE or RECOVERING finding is resolved only after two cycles in a row
\* without; flapping, failed evaluations and loss of trust never shorten this.
FindingsDebounced ==
    [][Undisturbed' =>
         \A l \in Tracked, s \in Slots :
            LET old == finding[l][s].state
                new == finding'[l][s].state
            IN  /\ new = "ACTIVE" /\ old \notin {"ACTIVE", "RECOVERING"}
                       => fires'[l] >= Required[l]
                /\ new = "RESOLVED" /\ old \in {"ACTIVE", "RECOVERING"} => quiet'[l] = 2
      ]_findingVars

Active(l) == \E s \in Slots : finding[l][s].state = "ACTIVE"

\* Restriction and leakage contradict each other (pressure above its baseline, or
\* not).  However the signals alternate, one is over before the other is ACTIVE.
NoContradiction ==
    Undisturbed /\ {Restriction, Leakage} \subseteq Tracked
        => ~(Active(Restriction) /\ Active(Leakage))

\* Once the machine and the trust in its data stay as they are, the open findings
\* come to be exactly those that its signals call for, and ACTIVE, whatever stale
\* writes and lost savepoints came before.
FindingsFollowMachine ==
    <>[][FALSE]_<<deviating, trusted>> =>
        <>[](\A l \in Tracked :
                IF Candidates[deviating][trusted][l] > 0 THEN Active(l) ELSE OpenSlot(l) = 0)
=============================================================================
