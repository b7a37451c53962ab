--------------------------- MODULE MCTelemetryPath ---------------------------
(***************************************************************************)
(* Model checking of the two sides of the MQTT broker: the edge gateway    *)
(* with its buffer, and bridge and consumer behind it.  What passes the    *)
(* broker is arbitrary on either side, so they are checked apart: part     *)
(* says which of them moves and the other stays in its initial state.      *)
(***************************************************************************)
EXTENDS EdgeGateway, TelemetryPipeline

VARIABLE part

pathVars == <<gatewayVars, pipelineVars, part>>

PathInit ==
    /\ GatewayInit /\ PipelineInit
    /\ part \in {"edge", "pipeline"}

PathNext ==
    /\ UNCHANGED part
    /\ \/ part = "edge" /\ GatewayNext /\ UNCHANGED pipelineVars
       \/ part = "pipeline" /\ PipelineNext /\ UNCHANGED gatewayVars

\* GatewayFairness, while it is the gateway that moves
EdgeFairness ==
    /\ WF_gatewayVars(part = "edge" /\ (InsertPending \/ Retention))
    /\ WF_gatewayVars(part = "edge" /\ DrainPass(Runner))
    /\ WF_gatewayVars(part = "edge" /\ NetDeliver(Runner))
    /\ WF_gatewayVars(part = "edge" /\ SenderStarts(Runner))

\* Fairness of TelemetryPipeline, while it is bridge and consumer that move
PlatformFairness ==
    /\ \A h \in Handlers :
          WF_pipelineVars(part = "pipeline" /\ BridgeDoes(StartHandler(h) \/ HandlerDone(h) \/ Retry(h)))
    /\ WF_pipelineVars(part = "pipeline" /\ BridgeDoes(Drain \/ Retry(Drainer)))
    /\ \A t \in Topics : WF_pipelineVars(part = "pipeline" /\ BridgeDoes(RecordWritten(t)))
    /\ WF_pipelineVars(part = "pipeline" /\ BridgeDoes(ProducerStarts))
    /\ WF_pipelineVars(part = "pipeline" /\ BridgeDoes(ProcessStarts))
    /\ \A t \in Topics : WF_pipelineVars(part = "pipeline" /\ ConsumerDoes(Consumer!Loop(t)))

PathSpec == PathInit /\ [][PathNext]_pathVars /\ EdgeFairness /\ PlatformFairness

\* the second event of every sensor is malformed
SecondMalformed == Sensors \X {2}
=============================================================================
