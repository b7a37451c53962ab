----------------------------- MODULE EdgeGateway -----------------------------
(***************************************************************************)
(* One edge gateway: EdgeRuntime (edge/edge/runtime/runtime.py) over the   *)
(* SQLite LocalBuffer (edge/edge/buffering/store.py) and MqttTransport     *)
(* (edge/edge/transport/mqtt.py).                                          *)
(*                                                                         *)
(* The running gateway is one process with two threads, acquisition and    *)
(* sender, that share a threading.Lock around the buffer.  The sender      *)
(* reads a batch of rows under the lock and then sends them without it, so *)
(* what it holds may be out of date.  `python -m edge replay` is a second  *)
(* process on the same file that runs the same drain pass and takes        *)
(* neither the threading.Lock nor the gateway's flock.                     *)
(*                                                                         *)
(* One step is one SQLite commit or one interaction with the MQTT client;  *)
(* a process may end between any two of them.                              *)
(***************************************************************************)
EXTENDS Integers, FiniteSets, Sequences, EdgeConnectivity

CONSTANTS
    EdgeSensors,    \* sensors polled by the gateway
    MaxAcquired,    \* bound: acquisitions per sensor
    MaxBuffered,    \* config.buffer.max_buffered_events
    SnapshotLimit,  \* get_replayable(limit=...)
    Procs,          \* processes with a sender
    Runner,         \* the one started by `python -m edge run`
    MaxOutbox,      \* bound: messages waiting in a process's MQTT client
    MaxCrashes,     \* bound: ends of a process
    NoEdgeEvent     \* "no event"

EdgeEvent == EdgeSensors \X (1 .. MaxAcquired)

ASSUME GatewayAssumption ==
    /\ MaxAcquired \in Nat
    /\ MaxBuffered \in Nat \ {0}
    /\ SnapshotLimit \in Nat \ {0}
    /\ Runner \in Procs
    /\ MaxOutbox \in Nat \ {0}
    /\ MaxCrashes \in Nat
    /\ NoEdgeEvent \notin EdgeEvent

VARIABLES
    \* the SQLite file
    lastSequence,   \* sequence_state.last_sequence per sensor
    status,         \* events.status per event; ABSENT when there is no row
    created,        \* events.created_at, as the rank of the insertion
    rows,           \* number of rows ever inserted
    \* the acquisition thread
    acqPc, acqEvent, doomed,
    \* the sender of each process
    pc, batch, current, progress, connectivity,
    \* the MQTT client of each process, the link and the broker
    outbox, brokerUp, delivered,
    crashes

bufferVars  == <<lastSequence, status, created, rows>>
acqVars     == <<acqPc, acqEvent, doomed>>
senderVars  == <<pc, batch, current, progress, connectivity>>
netVars     == <<outbox, brokerUp, delivered>>
gatewayVars == <<bufferVars, acqVars, senderVars, netVars, crashes>>

Status == {"ABSENT", "PENDING", "SENT", "ACKNOWLEDGED", "FAILED", "DEAD_LETTER"}

GatewayTypeOK ==
    /\ lastSequence \in [EdgeSensors -> 0 .. MaxAcquired]
    /\ status \in [EdgeEvent -> Status]
    /\ created \in [EdgeEvent -> Nat]
    /\ rows \in Nat
    /\ acqPc \in {"idle", "minted", "inserted", "overflow", "checked", "stale"}
    /\ acqEvent \in EdgeEvent \cup {NoEdgeEvent}
    /\ doomed \in SUBSET EdgeEvent
    /\ pc \in [Procs -> {"off", "idle", "loop", "waiting", "failed", "sent", "marking"}]
    /\ batch \in [Procs -> SUBSET EdgeEvent]
    /\ current \in [Procs -> EdgeEvent \cup {NoEdgeEvent}]
    /\ progress \in [Procs -> BOOLEAN]
    /\ connectivity \in [Procs -> Connectivity]
    /\ outbox \in [Procs -> Seq(EdgeEvent)]
    /\ brokerUp \in BOOLEAN
    /\ delivered \in SUBSET EdgeEvent
    /\ crashes \in 0 .. MaxCrashes

GatewayInit ==
    /\ lastSequence = [s \in EdgeSensors |-> 0]
    /\ status = [e \in EdgeEvent |-> "ABSENT"]
    /\ created = [e \in EdgeEvent |-> 0]
    /\ rows = 0
    /\ acqPc = "idle"
    /\ acqEvent = NoEdgeEvent
    /\ doomed = {}
    /\ pc = [w \in Procs |-> IF w = Runner THEN "idle" ELSE "off"]
    /\ batch = [w \in Procs |-> {}]
    /\ current = [w \in Procs |-> NoEdgeEvent]
    /\ progress = [w \in Procs |-> FALSE]
    /\ connectivity = [w \in Procs |-> InitialConnectivity]
    /\ outbox = [w \in Procs |-> <<>>]
    /\ brokerUp = TRUE
    /\ delivered = {}
    /\ crashes = 0

-----------------------------------------------------------------------------
(* The lock of the running gateway: the acquisition thread holds it for the *)
(* whole of its turn, the sender between its two marks.  Another process    *)
(* has a lock of its own and nobody to share it with.                       *)

SenderHasLock(w) == w = Runner => acqPc = "idle"
AcquisitionHasLock == pc[Runner] # "marking"

Pending == {e \in EdgeEvent : status[e] = "PENDING"}
\* mutant: get_replayable forgets FAILED rows
PendingOnly == {e \in EdgeEvent : status[e] = "PENDING"}

Replayable == {e \in EdgeEvent : status[e] \in {"PENDING", "FAILED"}}

\* ORDER BY sequence_number ASC, created_at ASC
Before(e, f) == \/ e[2] < f[2]
                \/ e[2] = f[2] /\ created[e] < created[f]

\* LocalBuffer.get_replayable: the first SnapshotLimit rows in that order
GetReplayable ==
    {e \in Replayable :
        Cardinality({f \in Replayable : Before(f, e)}) < SnapshotLimit}

-----------------------------------------------------------------------------
(* Acquisition: acquire_once, one observation at a time                      *)

\* mutant: next_sequence is not written back
MintInMemory(s) ==
    /\ pc[Runner] # "off" /\ AcquisitionHasLock
    /\ acqPc = "idle"
    /\ lastSequence[s] < MaxAcquired
    /\ acqPc' = "minted"
    /\ acqEvent' = <<s, lastSequence[s] + 1>>
    /\ UNCHANGED <<bufferVars, doomed, senderVars, netVars, crashes>>

\* next_sequence, with its own commit
Mint(s) ==
    /\ pc[Runner] # "off" /\ AcquisitionHasLock
    /\ acqPc = "idle"
    /\ lastSequence[s] < MaxAcquired
    /\ lastSequence' = [lastSequence EXCEPT ![s] = @ + 1]
    /\ acqPc' = "minted"
    /\ acqEvent' = <<s, lastSequence[s] + 1>>
    /\ UNCHANGED <<status, created, rows, doomed, senderVars, netVars, crashes>>

\* insert_pending; a primary key that is already there makes it a no-op
InsertPending ==
    /\ acqPc = "minted"
    /\ IF status[acqEvent] = "ABSENT"
       THEN /\ status' = [status EXCEPT ![acqEvent] = "PENDING"]
            /\ created' = [created EXCEPT ![acqEvent] = rows + 1]
            /\ rows' = rows + 1
       ELSE UNCHANGED <<status, created, rows>>
    /\ acqPc' = "inserted"
    /\ UNCHANGED <<lastSequence, acqEvent, doomed, senderVars, netVars, crashes>>

\* mutant: the count limit is not enforced
NoOverflow == {{}}

\* The rows over max_buffered_events: lowest sequence numbers first, ties
\* in any order.
Overflow ==
    LET excess == Cardinality(Pending) - MaxBuffered
    IN  {D \in SUBSET Pending :
            /\ Cardinality(D) = (IF excess > 0 THEN excess ELSE 0)
            /\ \A d \in D, r \in Pending \ D : d[2] <= r[2]}

SelectOverflow ==
    /\ acqPc = "inserted"
    /\ \E D \in Overflow :
          /\ doomed' = D
          /\ acqPc' = IF D = {} THEN "checked" ELSE "overflow"
    /\ UNCHANGED <<acqEvent, bufferVars, senderVars, netVars, crashes>>

\* The rows older than max_buffer_age_seconds: any number of the oldest, but
\* not the row just inserted.
Stale == {D \in SUBSET (Pending \ {acqEvent}) :
             \A d \in D, r \in Pending \ D : created[d] < created[r]}

\* Ends acquire_once for this observation when no row is too old.
SelectStale ==
    /\ acqPc = "checked"
    /\ \E D \in Stale :
          /\ doomed' = D
          /\ acqPc' = IF D = {} THEN "idle" ELSE "stale"
          /\ acqEvent' = IF D = {} THEN NoEdgeEvent ELSE acqEvent
    /\ UNCHANGED <<bufferVars, senderVars, netVars, crashes>>

\* _dead_letter: UPDATE ... WHERE event_id = ?, whatever the status is by now
DeadLetter ==
    /\ acqPc \in {"overflow", "stale"}
    /\ status' = [e \in EdgeEvent |-> IF e \in doomed THEN "DEAD_LETTER" ELSE status[e]]
    /\ doomed' = {}
    /\ acqPc' = IF acqPc = "overflow" THEN "checked" ELSE "idle"
    /\ acqEvent' = IF acqPc = "overflow" THEN acqEvent ELSE NoEdgeEvent
    /\ UNCHANGED <<lastSequence, created, rows, senderVars, netVars, crashes>>

-----------------------------------------------------------------------------
(* A drain pass: _drain_once                                                *)

TakeBatch(w) ==
    /\ pc[w] = "idle" /\ SenderHasLock(w)
    /\ batch' = [batch EXCEPT ![w] = GetReplayable]
    /\ progress' = [progress EXCEPT ![w] = FALSE]
    /\ pc' = [pc EXCEPT ![w] = "loop"]
    /\ UNCHANGED <<current, connectivity, bufferVars, acqVars, netVars, crashes>>

\* mutant: no ORDER BY
AnyOfBatch(w, e) == e \in batch[w]

\* e is the next row of the batch
NextInBatch(w, e) == /\ e \in batch[w]
                     /\ \A f \in batch[w] \ {e} : Before(e, f)

\* MqttTransport.send hands the message to the MQTT client
PublishRow(w) ==
    /\ pc[w] = "loop"
    /\ Len(outbox[w]) < MaxOutbox
    /\ \E e \in batch[w] :
          /\ NextInBatch(w, e)
          /\ current' = [current EXCEPT ![w] = e]
          /\ batch' = [batch EXCEPT ![w] = @ \ {e}]
          /\ outbox' = [outbox EXCEPT ![w] = Append(@, e)]
    /\ pc' = [pc EXCEPT ![w] = "waiting"]
    /\ UNCHANGED <<progress, connectivity, bufferVars, acqVars, brokerUp, delivered, crashes>>

\* send must reconnect first and cannot
ConnectFails(w) ==
    /\ pc[w] = "loop" /\ ~brokerUp
    /\ \E e \in batch[w] :
          /\ NextInBatch(w, e)
          /\ current' = [current EXCEPT ![w] = e]
          /\ batch' = [batch EXCEPT ![w] = @ \ {e}]
    /\ pc' = [pc EXCEPT ![w] = "failed"]
    /\ UNCHANGED <<progress, connectivity, bufferVars, acqVars, netVars, crashes>>

\* The client gets its messages through to the broker in order.  A message
\* stays with the client after send has given up on it.
NetDeliver(w) ==
    /\ brokerUp /\ pc[w] # "off" /\ outbox[w] # <<>>
    /\ delivered' = delivered \cup {Head(outbox[w])}
    /\ outbox' = [outbox EXCEPT ![w] = Tail(@)]
    /\ UNCHANGED <<brokerUp, bufferVars, acqVars, senderVars, crashes>>

\* wait_for_publish sees the PUBACK of the last message handed over
PublishConfirmed(w) ==
    /\ pc[w] = "waiting" /\ outbox[w] = <<>>
    /\ pc' = [pc EXCEPT ![w] = "sent"]
    /\ UNCHANGED <<batch, current, progress, connectivity, bufferVars, acqVars, netVars, crashes>>

\* mutant: the result of wait_for_publish is not looked at
TimeoutTakenForSent(w) ==
    /\ pc[w] = "waiting"
    /\ pc' = [pc EXCEPT ![w] = "sent"]
    /\ UNCHANGED <<batch, current, progress, connectivity, bufferVars, acqVars, netVars, crashes>>

\* no PUBACK within 5 s: TransportError, delivered or not
PublishTimesOut(w) ==
    /\ pc[w] = "waiting"
    /\ pc' = [pc EXCEPT ![w] = "failed"]
    /\ UNCHANGED <<batch, current, progress, connectivity, bufferVars, acqVars, netVars, crashes>>

\* mutant: a failure writes a status that is not one of BufferStatus
FailAsRetry(w) ==
    /\ pc[w] = "failed" /\ SenderHasLock(w)
    /\ status' = [status EXCEPT ![current[w]] = "RETRY"]
    /\ connectivity' = [connectivity EXCEPT ![w] = RecordFailure(@)]
    /\ current' = [current EXCEPT ![w] = NoEdgeEvent]
    /\ batch' = [batch EXCEPT ![w] = {}]
    /\ pc' = [pc EXCEPT ![w] = "loop"]
    /\ UNCHANGED <<progress, lastSequence, created, rows, acqVars, netVars, crashes>>

\* mark_failed and record_failure; the pass is over
MarkFailed(w) ==
    /\ pc[w] = "failed" /\ SenderHasLock(w)
    /\ status' = [status EXCEPT ![current[w]] = "FAILED"]
    /\ connectivity' = [connectivity EXCEPT ![w] = RecordFailure(@)]
    /\ current' = [current EXCEPT ![w] = NoEdgeEvent]
    /\ batch' = [batch EXCEPT ![w] = {}]
    /\ pc' = [pc EXCEPT ![w] = "loop"]
    /\ UNCHANGED <<progress, lastSequence, created, rows, acqVars, netVars, crashes>>

\* mark_sent, first commit of two under the lock
MarkSent(w) ==
    /\ pc[w] = "sent" /\ SenderHasLock(w)
    /\ status' = [status EXCEPT ![current[w]] = "SENT"]
    /\ pc' = [pc EXCEPT ![w] = "marking"]
    /\ UNCHANGED <<batch, current, progress, connectivity, lastSequence, created, rows,
                   acqVars, netVars, crashes>>

\* mark_acknowledged and record_success; on to the next row
MarkAcknowledged(w) ==
    /\ pc[w] = "marking"
    /\ status' = [status EXCEPT ![current[w]] = "ACKNOWLEDGED"]
    /\ connectivity' = [connectivity EXCEPT ![w] = RecordSuccess(@)]
    /\ current' = [current EXCEPT ![w] = NoEdgeEvent]
    /\ progress' = [progress EXCEPT ![w] = TRUE]
    /\ pc' = [pc EXCEPT ![w] = "loop"]
    /\ UNCHANGED <<batch, lastSequence, created, rows, acqVars, netVars, crashes>>

\* The sender thread starts over (after a backoff if nothing was sent);
\* replay_now stops after a pass that sent nothing, and its client with it.
EndPass(w) ==
    /\ pc[w] = "loop" /\ batch[w] = {}
    /\ IF w = Runner \/ progress[w]
       THEN /\ pc' = [pc EXCEPT ![w] = "idle"]
            /\ UNCHANGED <<connectivity, outbox>>
       ELSE /\ pc' = [pc EXCEPT ![w] = "off"]
            /\ connectivity' = [connectivity EXCEPT ![w] = InitialConnectivity]
            /\ outbox' = [outbox EXCEPT ![w] = <<>>]
    /\ progress' = [progress EXCEPT ![w] = FALSE]
    /\ UNCHANGED <<batch, current, bufferVars, acqVars, brokerUp, delivered, crashes>>

-----------------------------------------------------------------------------
(* Processes and the link                                                   *)

\* A crash, a kill, or stop() closing the file under a sender that has not
\* noticed: all that is not in SQLite is gone.
SenderEnds(w) ==
    /\ pc[w] # "off" /\ crashes < MaxCrashes
    /\ crashes' = crashes + 1
    /\ pc' = [pc EXCEPT ![w] = "off"]
    /\ batch' = [batch EXCEPT ![w] = {}]
    /\ current' = [current EXCEPT ![w] = NoEdgeEvent]
    /\ progress' = [progress EXCEPT ![w] = FALSE]
    /\ connectivity' = [connectivity EXCEPT ![w] = InitialConnectivity]
    /\ outbox' = [outbox EXCEPT ![w] = <<>>]
    /\ IF w = Runner
       THEN /\ acqPc' = "idle" /\ acqEvent' = NoEdgeEvent /\ doomed' = {}
       ELSE UNCHANGED acqVars
    /\ UNCHANGED <<bufferVars, brokerUp, delivered>>

\* MqttTransport connects in its constructor: without a broker the process
\* does not come up.
SenderStarts(w) ==
    /\ pc[w] = "off" /\ brokerUp
    /\ pc' = [pc EXCEPT ![w] = "idle"]
    /\ UNCHANGED <<batch, current, progress, connectivity, bufferVars, acqVars, netVars, crashes>>

LinkChanges ==
    /\ brokerUp' = ~brokerUp
    /\ UNCHANGED <<outbox, delivered, bufferVars, acqVars, senderVars, crashes>>

Retention == SelectOverflow \/ SelectStale \/ DeadLetter
Acquire == (\E s \in EdgeSensors : Mint(s)) \/ InsertPending \/ Retention

Send(w) == PublishRow(w) \/ ConnectFails(w) \/ PublishConfirmed(w) \/ PublishTimesOut(w)
Mark(w) == MarkFailed(w) \/ MarkSent(w) \/ MarkAcknowledged(w)
DrainPass(w) == TakeBatch(w) \/ Send(w) \/ Mark(w) \/ EndPass(w)

GatewayNext == \/ Acquire
               \/ \E w \in Procs : DrainPass(w) \/ NetDeliver(w) \/ SenderEnds(w) \/ SenderStarts(w)
               \/ LinkChanges

GatewaySpec == GatewayInit /\ [][GatewayNext]_gatewayVars

(* Threads are scheduled, the MQTT client gets on while the link is up, and *)
(* the container is restarted (restart: unless-stopped).  Nothing is        *)
(* assumed here of the link or of timeouts.                                 *)
GatewayFairness ==
    /\ WF_gatewayVars(InsertPending \/ Retention)
    /\ WF_gatewayVars(DrainPass(Runner))
    /\ WF_gatewayVars(NetDeliver(Runner))
    /\ WF_gatewayVars(SenderStarts(Runner))

FairGateway == GatewaySpec /\ GatewayFairness

-----------------------------------------------------------------------------
(* Properties                                                               *)

\* A row the buffer calls SENT or ACKNOWLEDGED is at the broker: the sender
\* marks only what was confirmed, whatever became of the row meanwhile.
SettledMeansDelivered ==
    \A e \in EdgeEvent : status[e] \in {"SENT", "ACKNOWLEDGED"} => e \in delivered

\* insert_pending never meets an existing row: the counter that names an
\* event survives every crash, so no id is minted twice (ADR-044, ADR-045).
MintedIsFresh ==
    /\ acqPc = "minted" => status[acqEvent] = "ABSENT"
    /\ \A e \in EdgeEvent : status[e] # "ABSENT" => e[2] <= lastSequence[e[1]]

\* f comes later than e from the same sensor
LaterReading(e, f) == e[1] = f[1] /\ e[2] < f[2]

\* The broker first sees the events of a sensor in sequence order, although
\* the sender works from an old batch, times out and retries.
FirstDeliveryInOrder ==
    [][\A e \in delivered' \ delivered, f \in delivered : ~LaterReading(e, f)]_delivered

\* A FAILED row is the oldest its sensor still owes: a pass stops at the
\* first failure and the next one starts there again.
FailedIsHeadOfLine ==
    \A e, f \in EdgeEvent : LaterReading(e, f) /\ status[f] = "FAILED" => e \notin Replayable

\* max_buffered_events caps PENDING rows only; what can escape it is one
\* FAILED row per sensor, the row being inserted, and a row for each crash
\* that cut retention off.
BacklogBounded ==
    Cardinality(Replayable) <= MaxBuffered + Cardinality(EdgeSensors) + crashes
                               + (IF acqPc = "idle" THEN 0 ELSE 1)

\* An ACKNOWLEDGED row is settled for good: it is never retried or shed.
AcknowledgedIsFinal ==
    [][\A e \in EdgeEvent : status[e] = "ACKNOWLEDGED" => status'[e] = "ACKNOWLEDGED"]_status

\* The state shown in health agrees with the run of outcomes behind it.
ConnectivityTellsTheTruth ==
    \A w \in Procs :
        LET c == connectivity[w]
        IN  /\ c.state = "OFFLINE" <=> c.failures = OfflineAfter
            /\ c.state = "DEGRADED" <=> c.failures \in 1 .. OfflineAfter - 1
            /\ c.state = "RECOVERING" => c.successes \in 1 .. RecoveredAfter - 1

\* If from some time on the link is up and PUBACKs come within the timeout,
\* no row is left to retry: every one is settled or dead-lettered, whatever
\* outages, late deliveries and crashes came before.
SteadyLink == <>[]brokerUp /\ <>[][~PublishTimesOut(Runner)]_gatewayVars
BacklogDrains ==
    SteadyLink => \A e \in EdgeEvent : <>[](status[e] \notin {"PENDING", "FAILED"})

(* The gateway keeps the custody promise of StoreAndForward.                *)
CustodyOf(st) == CASE st = "ABSENT" -> "none"
                   [] st \in {"PENDING", "FAILED"} -> "held"
                   [] st = "DEAD_LETTER" -> "shed"
                   [] st \in {"SENT", "ACKNOWLEDGED"} -> "done"

Promise == INSTANCE StoreAndForward
              WITH Sensors <- EdgeSensors, MaxSeq <- MaxAcquired,
                   custody <- [e \in EdgeEvent |-> CustodyOf(status[e])]

CustodyPromise == Promise!Spec

-----------------------------------------------------------------------------
(* Why one sender keeps the order: the inductive invariant behind           *)
(* FirstDeliveryInOrder, FailedIsHeadOfLine and AcknowledgedIsFinal.  It     *)
(* holds while the running gateway is the only process on the file.         *)

Busy == pc[Runner] \in {"waiting", "failed", "sent", "marking"}

\* what the drain pass has read and not yet dealt with
InHand == batch[Runner] \cup
             {e \in EdgeEvent : e = current[Runner] /\ Busy /\ pc[Runner] # "marking"}

Outgoing == {outbox[Runner][i] : i \in DOMAIN outbox[Runner]}

\* e will never be sent again: its number was lost to a crash before the
\* insert, or it is dead-lettered and in nobody's hands, or it is settled
Gone(e) == /\ status[e] \in {"ABSENT", "DEAD_LETTER"}
           /\ e[2] <= lastSequence[e[1]]
           /\ e \notin InHand
           /\ ~(acqPc = "minted" /\ e = acqEvent)
Over(e) == status[e] \in {"SENT", "ACKNOWLEDGED"} \/ Gone(e)

Attempted(e) == \/ e \in delivered \/ e \in Outgoing
                \/ status[e] = "FAILED"
                \/ Busy /\ e = current[Runner]

\* the lock: a turn of one thread is not interleaved with a turn of the other
LockInv ==
    /\ acqPc # "idle" => pc[Runner] # "marking"
    /\ acqPc = "idle" => doomed = {}
    /\ doomed \subseteq Pending

\* the batch in progress
BatchInv ==
    /\ pc[Runner] \in {"off", "idle"} => batch[Runner] = {}
    /\ pc[Runner] = "off" => Outgoing = {}
    /\ Busy => current[Runner] \notin batch[Runner]
    /\ pc[Runner] = "marking" => status[current[Runner]] = "SENT"
    /\ \A e \in InHand : status[e] \in {"PENDING", "FAILED", "DEAD_LETTER"}
    /\ \A e \in Outgoing : \/ Busy /\ e = current[Runner]
                           \/ status[e] \in {"FAILED", "SENT", "ACKNOWLEDGED"}

\* nothing is attempted or lined up ahead of an older event of its sensor
PrecedenceInv ==
    /\ \A e, f \in EdgeEvent : LaterReading(e, f) /\ Attempted(f) => Over(e)
    /\ \A e \in EdgeEvent, f \in batch[Runner] :
          LaterReading(e, f) => e \in batch[Runner] \/ Over(e) \/ (Busy /\ e = current[Runner])

=============================================================================
