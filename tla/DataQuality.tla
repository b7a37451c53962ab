----------------------------- MODULE DataQuality -----------------------------
(***************************************************************************)
(* The data quality worker (data_quality/worker.py): the topic loop, which *)
(* assesses each event, and the window loop, which evaluates every tracked *)
(* sensor and the machine, share one row of quality state per sensor.      *)
(* Each works in a transaction of its own with a savepoint per event,      *)
(* sensor and machine.                                                     *)
(*                                                                         *)
(* A severity is a number, 0 for none, and stands for the quality state    *)
(* and the eligibility that the policy maps it to.  The sensor rules over  *)
(* a window (stale, clock, drift, stuck) are one rule.                     *)
(***************************************************************************)
EXTENDS Integers, Sequences, FiniteSetsExt

CONSTANTS
    Sensors,       \* the sensors of one machine, by id
    BatchSize,     \* pipeline_batch_size
    MaxEvents,     \* bound: events on the topic
    MaxChanges,    \* bound: changes of what the sensors report
    MaxErrors      \* bound: errors and restarts

ASSUME QualityAssumption ==
    /\ Sensors \subseteq Nat
    /\ BatchSize \in Nat \ {0}
    /\ MaxEvents \in Nat
    /\ MaxChanges \in Nat
    /\ MaxErrors \in Nat

VARIABLES
    topic,      \* the valid events, in the order of the topic
    offset,     \* the committed offset: how many events are behind it
    quality,    \* sensor_quality_state: the worst severity, or Untracked
    issue,      \* quality_issue: the open window issue of each sensor and rule
    batch,      \* the transaction of the topic loop
    cycle,      \* the transaction of the window loop
    deviates,   \* the sensors whose last window makes the sensor rule fire
    reports,    \* what the telemetry of the last five minutes says of each sensor
    changes,    \* how often deviates or reports has changed
    errors,     \* errors and restarts so far
    assessed,   \* history: events whose assessment was committed
    excused     \* history: events skipped because their own savepoint failed

qualityVars == <<topic, offset, quality, issue, batch, cycle, deviates, reports,
                 changes, errors, assessed, excused>>

Rules == {"sensor", "communication_loss"}
Untracked == -1
Severities == 0 .. 2
Warning == 1
Error == 2

\* The severity of each window issue
SeverityOf(rule) == IF rule = "sensor" THEN Warning ELSE Error

IssueStates == {"NONE", "ACTIVE", "RECOVERING"}
Unwritten == [s \in Sensors |-> Untracked]
NoIssues == [s \in Sensors |-> [r \in Rules |-> "NONE"]]

NoBatch == [pc |-> "idle", upto |-> 0, at |-> 0, worst |-> 0, lost |-> {},
            wrote |-> Unwritten]
NoCycle == [open |-> FALSE, todo |-> {}, issue |-> NoIssues, wrote |-> Unwritten]

QualityTypeOK ==
    /\ topic \in Seq([sensor : Sensors, severity : Severities])
    /\ Len(topic) <= MaxEvents
    /\ offset \in 0 .. Len(topic)
    /\ quality \in [Sensors -> {Untracked} \cup Severities]
    /\ issue \in [Sensors -> [Rules -> IssueStates]]
    /\ batch \in [pc : {"idle", "open", "read", "stored"}, upto : 0 .. MaxEvents,
                  at : 0 .. MaxEvents, worst : Severities, lost : SUBSET (1 .. MaxEvents),
                  wrote : [Sensors -> {Untracked} \cup Severities]]
    /\ cycle \in [open : BOOLEAN, todo : SUBSET Sensors,
                  issue : [Sensors -> [Rules -> IssueStates]],
                  wrote : [Sensors -> {Untracked} \cup Severities]]
    /\ deviates \subseteq Sensors
    /\ reports \in [Sensors -> {"NOTHING", "VALUES", "LOSS"}]
    /\ changes \in 0 .. MaxChanges
    /\ errors \in 0 .. MaxErrors
    /\ assessed \subseteq 1 .. MaxEvents
    /\ excused \subseteq 1 .. MaxEvents

QualityInit ==
    /\ topic = <<>>
    /\ offset = 0
    /\ quality = Unwritten
    /\ issue = NoIssues
    /\ batch = NoBatch
    /\ cycle = NoCycle
    /\ deviates \in {{}, Sensors}
    /\ reports = [s \in Sensors |-> "NOTHING"]
    /\ changes = 0
    /\ errors = 0
    /\ assessed = {}
    /\ excused = {}

OneMoreError == errors < MaxErrors /\ errors' = errors + 1

\* The rows of quality state with the writes of a transaction
Overlaid(wrote) ==
    [s \in Sensors |-> IF wrote[s] = Untracked THEN quality[s] ELSE wrote[s]]

\* list_active_severities and worst_severity: the worst of the open issues
WorstOpen(issues) ==
    Max({0} \cup {SeverityOf(r) : r \in {q \in Rules : issues[q] # "NONE"}})

\* A row written in one transaction is locked until that is over.
LockedBy(transaction, s) == transaction.wrote[s] # Untracked

\* Each transaction wants a row that the other has written.
Deadlock ==
    /\ batch.pc = "read"
    /\ LockedBy(cycle, topic[batch.at + 1].sensor)
    /\ \E s \in cycle.todo : LockedBy(batch, s)

-----------------------------------------------------------------------------
(* The topic loop. *)

EventArrives ==
    /\ Len(topic) < MaxEvents
    /\ \E s \in Sensors, severity \in {0, Error} :
          topic' = Append(topic, [sensor |-> s, severity |-> severity])
    /\ UNCHANGED <<offset, quality, issue, batch, cycle, deviates, reports,
                   changes, errors, assessed, excused>>

\* getmany
FetchBatch ==
    /\ batch.pc = "idle"
    /\ offset < Len(topic)
    /\ batch' = [NoBatch EXCEPT !.pc = "open", !.at = offset,
                                !.upto = Min({Len(topic), offset + BatchSize})]
    /\ UNCHANGED <<topic, offset, quality, issue, cycle, deviates, reports,
                   changes, errors, assessed, excused>>

\* process_event up to the quality state: the severities of the event, and the
\* open window issues as committed now
ReadEvent ==
    /\ batch.pc = "open"
    /\ batch.at < batch.upto
    /\ LET event == topic[batch.at + 1]
       IN  batch' = [batch EXCEPT !.pc = "read",
                        !.worst = Max({event.severity, WorstOpen(issue[event.sensor])})]
    /\ UNCHANGED <<topic, offset, quality, issue, cycle, deviates, reports,
                   changes, errors, assessed, excused>>

\* the upsert of the sensor's row
WriteEvent ==
    LET s == topic[batch.at + 1].sensor
    IN  /\ batch.pc = "read"
        /\ ~LockedBy(cycle, s)
        /\ batch' = [batch EXCEPT !.pc = "open", !.at = @ + 1,
                                  !.wrote[s] = batch.worst]
        /\ UNCHANGED <<topic, offset, quality, issue, cycle, deviates, reports,
                       changes, errors, assessed, excused>>

\* any exception in the savepoint of the event, also that of a deadlock: skipped
EventFails ==
    /\ batch.pc = "read"
    /\ batch' = [batch EXCEPT !.pc = "open", !.at = @ + 1, !.lost = @ \cup {batch.at + 1}]
    /\ OneMoreError \/ (Deadlock /\ UNCHANGED errors)
    /\ UNCHANGED <<topic, offset, quality, issue, cycle, deviates, reports,
                   changes, assessed, excused>>

\* session.commit()
BatchStored ==
    /\ batch.pc = "open"
    /\ batch.at = batch.upto
    /\ quality' = Overlaid(batch.wrote)
    /\ assessed' = assessed \cup ((offset + 1 .. batch.upto) \ batch.lost)
    /\ excused' = excused \cup batch.lost
    /\ batch' = [batch EXCEPT !.pc = "stored", !.wrote = Unwritten]
    /\ UNCHANGED <<topic, offset, issue, cycle, deviates, reports, changes, errors>>

\* consumer.commit()
OffsetsCommitted ==
    /\ batch.pc = "stored"
    /\ offset' = batch.upto
    /\ batch' = NoBatch
    /\ UNCHANGED <<topic, quality, issue, cycle, deviates, reports, changes,
                   errors, assessed, excused>>

\* mutant: after an error the loop goes on with the next batch
BatchSkipped ==
    /\ batch.pc # "idle"
    /\ OneMoreError
    /\ batch' = NoBatch
    /\ offset' = batch.upto
    /\ UNCHANGED <<topic, quality, issue, cycle, deviates, reports, changes,
                   assessed, excused>>

\* an error of the transaction, of its commit or of the offset commit: the same
\* records again
BatchFails ==
    /\ batch.pc # "idle"
    /\ OneMoreError
    /\ batch' = [NoBatch EXCEPT !.pc = "open", !.at = offset, !.upto = batch.upto]
    /\ UNCHANGED <<topic, offset, quality, issue, cycle, deviates, reports,
                   changes, assessed, excused>>

-----------------------------------------------------------------------------
(* The window loop. *)

\* list_all_tracked
CycleBegins ==
    /\ ~cycle.open
    /\ quality # Unwritten
    /\ cycle' = [NoCycle EXCEPT !.open = TRUE, !.issue = issue,
                                !.todo = {s \in Sensors : quality[s] # Untracked}]
    /\ UNCHANGED <<topic, offset, quality, issue, batch, deviates, reports,
                   changes, errors, assessed, excused>>

\* mutant: a recovering issue is never resolved
NeverResolved(state, fired) ==
    IF fired THEN "ACTIVE" ELSE IF state = "NONE" THEN "NONE" ELSE "RECOVERING"

\* upsert_active_window_issue, advance_or_resolve_if_absent
NextIssue(state, fired) ==
    IF fired THEN "ACTIVE" ELSE IF state = "ACTIVE" THEN "RECOVERING" ELSE "NONE"

\* evaluate_sensor: the state that the open issues alone amount to
EvaluateSensor(s) ==
    LET issues == [cycle.issue[s] EXCEPT !["sensor"] = NextIssue(@, s \in deviates)]
    IN  /\ s \in cycle.todo
        /\ ~LockedBy(batch, s)
        /\ cycle' = [cycle EXCEPT !.todo = @ \ {s}, !.issue[s] = issues,
                                  !.wrote[s] = WorstOpen(issues)]
        /\ UNCHANGED <<topic, offset, quality, issue, batch, deviates, reports,
                       changes, errors, assessed, excused>>

\* any exception in the savepoint of the sensor
SensorFails(s) ==
    /\ s \in cycle.todo
    /\ cycle' = [cycle EXCEPT !.todo = @ \ {s}]
    /\ OneMoreError \/ (Deadlock /\ LockedBy(batch, s) /\ UNCHANGED errors)
    /\ UNCHANGED <<topic, offset, quality, issue, batch, deviates, reports,
                   changes, assessed, excused>>

Reporting == {s \in Sensors : reports[s] # "NOTHING"}

\* check_communication_loss
CommunicationLoss ==
    /\ Cardinality(Reporting) >= 2
    /\ \A s \in Reporting : reports[s] = "LOSS"

\* evaluate_machine_communication: the issue is kept at the lowest sensor that
\* reports; without any it stays as it is
MachineEvaluated(issues) ==
    IF Reporting = {} THEN issues
    ELSE [issues EXCEPT ![Min(Reporting)]["communication_loss"] =
              NextIssue(@, CommunicationLoss)]

\* the machine's check, which may fail in its savepoint, and the commit
CycleCommits ==
    /\ cycle.open
    /\ cycle.todo = {}
    /\ \/ issue' = MachineEvaluated(cycle.issue) /\ UNCHANGED errors
       \/ issue' = cycle.issue /\ OneMoreError
    /\ quality' = Overlaid(cycle.wrote)
    /\ cycle' = NoCycle
    /\ UNCHANGED <<topic, offset, batch, deviates, reports, changes, assessed, excused>>

\* an error outside the savepoints
CycleFails ==
    /\ cycle.open
    /\ OneMoreError
    /\ cycle' = NoCycle
    /\ UNCHANGED <<topic, offset, quality, issue, batch, deviates, reports,
                   changes, assessed, excused>>

WorkerRestarts ==
    /\ batch.pc # "idle" \/ cycle.open
    /\ OneMoreError
    /\ batch' = NoBatch
    /\ cycle' = NoCycle
    /\ UNCHANGED <<topic, offset, quality, issue, deviates, reports, changes,
                   assessed, excused>>

\* the machine and its network
SensorsChange ==
    /\ changes < MaxChanges
    /\ changes' = changes + 1
    /\ \/ /\ \E s \in Sensors : deviates' = SymDiff(deviates, {s})
          /\ UNCHANGED reports
       \/ /\ \E S \in SUBSET Sensors \ {{}}, r \in {"NOTHING", "VALUES", "LOSS"} :
                reports' = [s \in Sensors |-> IF s \in S THEN r ELSE reports[s]]
          /\ UNCHANGED deviates
    /\ UNCHANGED <<topic, offset, quality, issue, batch, cycle, errors, assessed, excused>>

TopicStep == FetchBatch \/ ReadEvent \/ WriteEvent \/ BatchStored \/ OffsetsCommitted
WindowStep == CycleBegins \/ (\E s \in Sensors : EvaluateSensor(s)) \/ CycleCommits
Victim == EventFails \/ \E s \in Sensors : SensorFails(s)

QualityNext ==
    \/ EventArrives
    \/ TopicStep
    \/ BatchFails
    \/ WindowStep
    \/ Victim
    \/ CycleFails
    \/ WorkerRestarts
    \/ SensorsChange

QualitySpec == QualityInit /\ [][QualityNext]_qualityVars

-----------------------------------------------------------------------------
(* Properties. *)

\* The offsets never pass an event that was not assessed, except one whose own
\* savepoint failed, whatever is retried, restarted or answered late.
AssessedBehindOffset == 1 .. offset \subseteq assessed \cup excused

IssueOpen(s, rule) == issue[s][rule] # "NONE"

\* Once the sensors, the network and the topic stay as they are, a sensor has an
\* open issue exactly when its window deviates, and its quality state is that of
\* its open issues: an assessment that read them before the window loop committed,
\* and overwrote the row after it, does not last.
QualityFollowsSensors ==
    <>[][FALSE]_<<deviates, reports, topic>> =>
        <>[](\A s \in Sensors : quality[s] # Untracked =>
                /\ IssueOpen(s, "sensor") <=> s \in deviates
                /\ quality[s] = WorstOpen(issue[s]))

\* docs/DATA_QUALITY.md: "A rule that stops firing transitions ACTIVE -> RECOVERING
\* on the first clean evaluation cycle".  Once every sensor of the machine reports
\* values again, a cycle without errors leaves no communication loss ACTIVE.
LossRecovers ==
    [][cycle.open /\ ~cycle'.open /\ errors' = errors
          /\ (\A s \in Sensors : reports[s] = "VALUES")
        => \A s \in Sensors : issue'[s]["communication_loss"] # "ACTIVE"]_qualityVars
=============================================================================
