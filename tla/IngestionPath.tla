---------------------------- MODULE IngestionPath ----------------------------
(***************************************************************************)
(* What the way from the MQTT broker to the tables promises of the valid   *)
(* events of the edge gateways, without coroutines, queues, retries,       *)
(* batches or offsets.                                                     *)
(*                                                                         *)
(*   "none"    the broker has not had the event                            *)
(*   "memory"  the bridge has acknowledged it and has it in memory         *)
(*   "gone"    it passed the bridge by, or was in memory at a stop         *)
(*   "kept"    it is in the spool or in the topic                          *)
(*   "stored"  it is in `telemetry` or `telemetry_quarantine`              *)
(*                                                                         *)
(* Only a stop of the bridge takes an acknowledged event away, and then    *)
(* only from its memory; what is kept stays so until it is stored, and     *)
(* what is stored stays.                                                   *)
(***************************************************************************)
CONSTANT Events

VARIABLE place

Places == {"none", "memory", "gone", "kept", "stored"}

Init == place = [e \in Events |-> "none"]

\* The bridge acknowledges e, also when the edge sends it again.
Acknowledge(e) ==
    /\ place[e] \in {"none", "gone"}
    /\ place' = [place EXCEPT ![e] = "memory"]

\* The bridge is not subscribed when the broker has e for it.
PassBy(e) ==
    /\ place[e] = "none"
    /\ place' = [place EXCEPT ![e] = "gone"]

Keep(e) ==
    /\ place[e] = "memory"
    /\ place' = [place EXCEPT ![e] = "kept"]

\* A transaction stores a batch.
Store(D) ==
    /\ \A e \in D : place[e] = "kept"
    /\ place' = [e \in Events |-> IF e \in D THEN "stored" ELSE place[e]]

\* The bridge stops, and its memory is gone.
Stop == place' = [e \in Events |-> IF place[e] = "memory" THEN "gone" ELSE place[e]]

Next ==
    \/ \E e \in Events : Acknowledge(e) \/ PassBy(e) \/ Keep(e)
    \/ \E D \in SUBSET Events : Store(D)
    \/ Stop

Spec == Init /\ [][Next]_place
=============================================================================
