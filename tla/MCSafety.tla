------------------------------- MODULE MCSafety -------------------------------
(***************************************************************************)
(* Model checking of three components of which only safety is asked: the   *)
(* bridge, what the data quality worker makes of the numbers missing on    *)
(* the topic, and the model registry.  They share no state: part says      *)
(* which of them moves and the others stay in their initial states.  On    *)
(* the topic of SequenceGaps records are lost, repeated and reordered in   *)
(* every way, not only in those of the bridge.                             *)
(***************************************************************************)
EXTENDS MCMqttBridge, SequenceGaps, ModelRegistry

VARIABLE part

safetyVars == <<vars, gapVars, registryVars, part>>

SafetyInit ==
    /\ Init /\ GapInit /\ RegistryInit
    /\ part \in {"bridge", "gaps", "registry"}

SafetyNext ==
    /\ UNCHANGED part
    /\ \/ part = "bridge" /\ BridgeNext /\ UNCHANGED <<gapVars, registryVars>>
       \/ part = "gaps" /\ GapNext /\ UNCHANGED <<vars, registryVars>>
       \/ part = "registry" /\ RegistryNext /\ UNCHANGED <<vars, gapVars>>

SafetySpec == SafetyInit /\ [][SafetyNext]_safetyVars

\* The clock of the source goes on, goes back once, and gives two readings one time.
ClockGoesBack == [n \in 0 .. 2 |-> IF n = 1 THEN 1 ELSE 2]

=============================================================================
