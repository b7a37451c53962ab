----------------------------- MODULE MCMqttBridge -----------------------------
(* Instances of MqttBridge for TLC.                                         *)
EXTENDS MqttBridge, TLC

CONSTANTS good, bad

\* every event of one sensor is malformed
BadEvents == {bad} \X (1 .. MaxSeq)

HandlerSymmetry == Permutations(Handlers)
=============================================================================
