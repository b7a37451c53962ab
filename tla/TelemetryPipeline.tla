-------------------------- MODULE TelemetryPipeline --------------------------
(***************************************************************************)
(* The ingestion path behind the MQTT broker: MqttBridge writes the Kafka  *)
(* topics that TelemetryConsumer reads.  The two processes share nothing   *)
(* else, and each fails on its own.                                        *)
(***************************************************************************)
EXTENDS MqttBridge

CONSTANTS
    BatchSize,     \* pipeline_batch_size
    MaxFaults      \* bound: faults of the consumer

ASSUME PipelineAssumption == BatchSize \in Nat \ {0} /\ MaxFaults \in Nat

VARIABLES committed, position, start, phase, telemetry, quarantine, faults

Consumer == INSTANCE TelemetryConsumer

consumerVars == <<committed, position, start, phase, telemetry, quarantine, faults>>
bridgeVars   == <<processVars, publishVars, spool, kafkaUp, brokerVars, troubles, stops>>
pipelineVars == <<vars, consumerVars>>

PipelineTypeOK == TypeOK /\ Consumer!TypeOK

PipelineInit == Init /\ Consumer!ConsumerInit

BridgeDoes(A) == A /\ UNCHANGED consumerVars
ConsumerDoes(A) == A /\ UNCHANGED bridgeVars

PipelineNext == BridgeDoes(BridgeNext) \/ ConsumerDoes(Consumer!ConsumerNext)

PipelineSpec == PipelineInit /\ [][PipelineNext]_pipelineVars

(* Coroutines and loops are scheduled; the producer writes while Kafka      *)
(* answers, and gives up on an abandoned record or writes it; the container *)
(* is restarted and the watchdogs reconnect.  Of Kafka itself, of timeouts  *)
(* and of stops nothing is assumed.                                         *)
Fairness ==
    /\ \A h \in Handlers : WF_pipelineVars(BridgeDoes(StartHandler(h) \/ HandlerDone(h) \/ Retry(h)))
    /\ WF_pipelineVars(BridgeDoes(Drain \/ Retry(Drainer)))
    /\ \A t \in Topics : WF_pipelineVars(BridgeDoes(RecordWritten(t)))
    /\ WF_pipelineVars(BridgeDoes(ProducerStarts))
    /\ WF_pipelineVars(BridgeDoes(ProcessStarts))
    /\ \A t \in Topics : WF_pipelineVars(ConsumerDoes(Consumer!Loop(t)))

FairPipeline == PipelineSpec /\ Fairness

-----------------------------------------------------------------------------
(* Properties                                                               *)

\* The offsets never pass a record that is in neither table.
CommittedIsStored == Consumer!CommittedIsStored

\* Where an event is on its way; of its copies, the one that is furthest.
PlaceOf(e) ==
    IF Consumer!Stored(e) THEN "stored"
    ELSE IF InSpool(e) \/ InLog(e) THEN "kept"
    ELSE IF InProcess(e) THEN "memory"
    ELSE IF e \in accepted THEN "gone"
    ELSE "none"

places == [e \in Event \ Malformed |-> PlaceOf(e)]

Path == INSTANCE IngestionPath WITH Events <- Event \ Malformed, place <- places

\* Bridge and consumer together keep the promise of the path: whatever fails between
\* them, a valid event that was acknowledged is lost only from the memory of a bridge
\* that stops, one in the spool or the topic stays until it is in a table, and none
\* is stored that the broker never had.
IngestionPromise == Path!Spec

\* Once Kafka stays up, every valid event that the bridge acknowledged and
\* did not take with it when it stopped ends up in `telemetry` or, with its
\* context unknown, in `telemetry_quarantine`; and the spool empties.  No event
\* leaves puback, excused or a table, so from some point on is as much as ever after.
KafkaSteady == <>[]kafkaUp
AcknowledgedIsStored ==
    KafkaSteady =>
        \A e \in Event \ Malformed :
            <>[](e \in puback => e \in excused \/ Consumer!Stored(e))

SpoolEmpties == KafkaSteady => <>[](spool = <<>>)
=============================================================================
