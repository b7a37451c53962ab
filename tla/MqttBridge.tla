------------------------------ MODULE MqttBridge ------------------------------
(***************************************************************************)
(* The MQTT -> Kafka bridge (backend/app/pipeline/mqtt_bridge.py) and its  *)
(* SQLite spool (backend/app/pipeline/spool.py).                           *)
(*                                                                         *)
(* paho's thread hands each message to the asyncio loop, where one         *)
(* coroutine per message and the spool-drain task publish through one      *)
(* aiokafka producer.  A coroutine runs undisturbed from one await to the  *)
(* next; its awaits are the send, the 5 s timeout and the backoff.  A send *)
(* that timed out leaves its record with the producer, which may still     *)
(* write it.                                                               *)
(***************************************************************************)
EXTENDS Integers, FiniteSets, Sequences, Functions

CONSTANTS
    Sensors,       \* sensors behind the edge gateways
    MaxSeq,        \* bound: events per sensor
    Malformed,     \* events SchemaValidator rejects
    Handlers,      \* bound: coroutines handling a message at a time
    Drainer,       \* the spool-drain task
    MaxTries,      \* _MAX_PUBLISH_RETRIES
    DrainBatch,    \* _SPOOL_DRAIN_BATCH_SIZE
    MaxMessages,   \* bound: messages the MQTT broker passes on
    MaxTroubles,   \* bound: failed sends and lost replies
    MaxStops,      \* bound: ends of the process and of the MQTT connection
    NoEvent

Event == Sensors \X (1 .. MaxSeq)
Publishers == Handlers \cup {Drainer}
Topics == {"telemetry", "dlq"}

ASSUME BridgeAssumption ==
    /\ MaxSeq \in Nat
    /\ Malformed \subseteq Event
    /\ Drainer \notin Handlers
    /\ {MaxTries, DrainBatch} \subseteq Nat \ {0}
    /\ {MaxMessages, MaxTroubles, MaxStops} \subseteq Nat
    /\ NoEvent \notin Event \cup Publishers

VARIABLES
    running,       \* the process is up
    subscribed,    \* ... and has its MQTT session (on_connect has subscribed)
    producerReady, \* producer.start() has succeeded in this process
    scheduled,     \* messages whose coroutine has not run yet
    job,           \* per publisher: the message it sends, its attempt, its await
    drainList,     \* rest of the batch that the drain task has read
    accumulator,   \* per topic: records the producer has taken, oldest first
    spool,         \* spooled_events, in rowid order
    log, kafkaUp,  \* the Kafka topics and whether the broker answers
    accepted,      \* events the MQTT broker has accepted from the edge
    puback,        \* events the bridge has acknowledged to the MQTT broker
    excused,       \* events that passed the bridge by or were only in its memory
                   \* when it stopped
    messages, troubles, stops

processVars == <<running, subscribed, producerReady>>
publishVars == <<scheduled, job, drainList, accumulator>>
kafkaVars   == <<log, kafkaUp>>
brokerVars  == <<accepted, puback, excused, messages>>
vars == <<processVars, publishVars, spool, kafkaVars, brokerVars, troubles, stops>>

Job == [msg : Event \cup {NoEvent}, tries : 0 .. MaxTries,
        pc : {"idle", "waiting", "backoff", "sent"}]
Idle == [msg |-> NoEvent, tries |-> 0, pc |-> "idle"]
\* a record and the coroutine that awaits it; NoEvent when none does any more
Record == [msg : Event, owner : Publishers \cup {NoEvent}]

Without(q, i) == SubSeq(q, 1, i - 1) \o SubSeq(q, i + 1, Len(q))

TypeOK ==
    /\ {running, subscribed, producerReady, kafkaUp} \subseteq BOOLEAN
    /\ scheduled \in Seq(Event)
    /\ job \in [Publishers -> Job]
    /\ drainList \in Seq(Event)
    /\ accumulator \in [Topics -> Seq(Record)]
    /\ spool \in Seq(Event)
    /\ log \in [Topics -> Seq(Event)]
    /\ puback \subseteq accepted /\ accepted \subseteq Event /\ excused \subseteq Event
    /\ messages \in 0 .. MaxMessages /\ troubles \in 0 .. MaxTroubles /\ stops \in 0 .. MaxStops

Init ==
    /\ running = TRUE /\ subscribed = FALSE /\ producerReady = FALSE
    /\ scheduled = <<>>
    /\ job = [p \in Publishers |-> Idle]
    /\ drainList = <<>>
    /\ accumulator = [t \in Topics |-> <<>>]
    /\ spool = <<>>
    /\ log = [t \in Topics |-> <<>>] /\ kafkaUp = TRUE
    /\ accepted = {} /\ puback = {} /\ excused = {}
    /\ messages = 0 /\ troubles = 0 /\ stops = 0

Trouble == troubles < MaxTroubles /\ troubles' = troubles + 1

-----------------------------------------------------------------------------
(* From the MQTT broker                                                     *)

\* f is a later event of the sensor of e
Later(e, f) == e[1] = f[1] /\ e[2] < f[2]

\* The broker accepts a message from an edge gateway - new ones of a sensor
\* in sequence order, old ones again at any time, as StoreAndForward says -
\* and passes it on.  on_message only schedules a coroutine, and when it
\* returns paho acknowledges the message.  The bridge has a clean session
\* under a random client id: while it is not subscribed nothing is kept for it.
MessageArrives(e) ==
    /\ messages < MaxMessages
    /\ e \in accepted \/ \A f \in accepted : ~Later(e, f)
    /\ messages' = messages + 1
    /\ accepted' = accepted \cup {e}
    /\ IF subscribed
       THEN /\ scheduled' = Append(scheduled, e)
            /\ puback' = puback \cup {e}
            /\ UNCHANGED excused
       ELSE excused' = excused \cup {e} /\ UNCHANGED <<scheduled, puback>>
    /\ UNCHANGED <<processVars, job, drainList, accumulator, spool, kafkaVars, troubles, stops>>

-----------------------------------------------------------------------------
(* Publishing                                                               *)

TopicOf(m) == IF m \in Malformed THEN "dlq" ELSE "telemetry"

\* p starts an attempt at m and awaits it
Sending(p, m, try) ==
    /\ job' = [job EXCEPT ![p] = [msg |-> m, tries |-> try, pc |-> "waiting"]]
    /\ accumulator' = [accumulator EXCEPT ![TopicOf(m)] = Append(@, [msg |-> m, owner |-> p])]

InSpool(e) == e \in Range(spool)

\* BridgeSpool.enqueue: INSERT OR IGNORE on event_id
Spooled(m) == IF InSpool(m) THEN spool ELSE Append(spool, m)

\* mutant: a message that could not be published is only logged
LogOnly(p, m) == drainList' = drainList /\ UNCHANGED spool

\* What p does with m when _try_publish has returned False.  A message for
\* the DLQ is dropped; the drain task stops this cycle.
GiveUp(p, m) ==
    IF p = Drainer THEN drainList' = <<>> /\ UNCHANGED spool
    ELSE /\ UNCHANGED drainList
         /\ IF m \in Malformed THEN UNCHANGED spool ELSE spool' = Spooled(m)

\* mutant: coroutines are started in any order
StartAny(h) ==
    /\ running /\ scheduled # <<>> /\ job[h].pc = "idle"
    /\ \E i \in DOMAIN scheduled :
          /\ scheduled' = Without(scheduled, i)
          /\ IF producerReady
             THEN Sending(h, scheduled[i], 1) /\ UNCHANGED <<drainList, spool>>
             ELSE GiveUp(h, scheduled[i]) /\ UNCHANGED <<job, accumulator>>
    /\ UNCHANGED <<processVars, kafkaVars, brokerVars, troubles, stops>>

\* _handle_message up to its first await; the loop starts coroutines in the
\* order in which they were scheduled
StartHandler(h) ==
    /\ running /\ scheduled # <<>> /\ job[h].pc = "idle"
    /\ scheduled' = Tail(scheduled)
    /\ IF producerReady
       THEN Sending(h, Head(scheduled), 1) /\ UNCHANGED <<drainList, spool>>
       ELSE GiveUp(h, Head(scheduled)) /\ UNCHANGED <<job, accumulator>>
    /\ UNCHANGED <<processVars, kafkaVars, brokerVars, troubles, stops>>

\* The producer's queue of p's topic after p's wait was cut short: the record
\* stays for the producer to write, or failed with a KafkaError and is gone.
Abandoned(p, stays) ==
    LET topic == TopicOf(job[p].msg)
        queue == accumulator[topic]
        mine  == CHOOSE i \in DOMAIN queue : queue[i].owner = p
    IN  [accumulator EXCEPT ![topic] =
            IF stays THEN [queue EXCEPT ![mine].owner = NoEvent] ELSE Without(queue, mine)]

\* mutant: one attempt too many
FailsOnceMore(p) ==
    /\ job[p].pc = "waiting" /\ Trouble
    /\ \E stays \in BOOLEAN : accumulator' = Abandoned(p, stays)
    /\ IF job[p].tries <= MaxTries
       THEN job' = [job EXCEPT ![p].pc = "backoff"] /\ UNCHANGED <<drainList, spool>>
       ELSE job' = [job EXCEPT ![p] = Idle] /\ GiveUp(p, job[p].msg)
    /\ UNCHANGED <<processVars, scheduled, kafkaVars, brokerVars, stops>>

\* An attempt fails: back off and retry, or give up after MaxTries.
AttemptFails(p) ==
    /\ job[p].pc = "waiting" /\ Trouble
    /\ \E stays \in BOOLEAN : accumulator' = Abandoned(p, stays)
    /\ IF job[p].tries < MaxTries
       THEN job' = [job EXCEPT ![p].pc = "backoff"] /\ UNCHANGED <<drainList, spool>>
       ELSE job' = [job EXCEPT ![p] = Idle] /\ GiveUp(p, job[p].msg)
    /\ UNCHANGED <<processVars, scheduled, kafkaVars, brokerVars, stops>>

Retry(p) ==
    /\ job[p].pc = "backoff"
    /\ Sending(p, job[p].msg, job[p].tries + 1)
    /\ UNCHANGED <<processVars, scheduled, drainList, spool, kafkaVars, brokerVars, troubles, stops>>

\* The coroutine of a message resumes after a successful send: done.
HandlerDone(h) ==
    /\ job[h].pc = "sent"
    /\ job' = [job EXCEPT ![h] = Idle]
    /\ UNCHANGED <<processVars, scheduled, drainList, accumulator, spool, kafkaVars, brokerVars,
                   troubles, stops>>

-----------------------------------------------------------------------------
(* The drain task: _drain_spool_once                                        *)

\* mutant: the task waits for a full batch
DrainFullBatch ==
    /\ running /\ producerReady /\ job[Drainer].pc = "idle" /\ Len(spool) >= DrainBatch
    /\ Sending(Drainer, Head(spool), 1)
    /\ drainList' = SubSeq(spool, 2, DrainBatch)
    /\ UNCHANGED <<processVars, scheduled, spool, kafkaVars, brokerVars, troubles, stops>>

\* peek_batch and the first send
DrainStarts ==
    /\ running /\ producerReady /\ job[Drainer].pc = "idle" /\ spool # <<>>
    /\ Sending(Drainer, Head(spool), 1)
    /\ drainList' = SubSeq(spool, 2, IF Len(spool) < DrainBatch THEN Len(spool) ELSE DrainBatch)
    /\ UNCHANGED <<processVars, scheduled, spool, kafkaVars, brokerVars, troubles, stops>>

\* BridgeSpool.remove
Removed ==
    IF InSpool(job[Drainer].msg)
    THEN Without(spool, CHOOSE i \in DOMAIN spool : spool[i] = job[Drainer].msg)
    ELSE spool

\* remove the row that was sent, and send the next of the batch
DrainGoesOn ==
    /\ job[Drainer].pc = "sent"
    /\ spool' = Removed
    /\ IF drainList = <<>>
       THEN job' = [job EXCEPT ![Drainer] = Idle] /\ UNCHANGED <<drainList, accumulator>>
       ELSE Sending(Drainer, Head(drainList), 1) /\ drainList' = Tail(drainList)
    /\ UNCHANGED <<processVars, scheduled, kafkaVars, brokerVars, troubles, stops>>

-----------------------------------------------------------------------------
(* The producer and Kafka                                                   *)

\* _ensure_producer, at the start and from the watchdog
ProducerStarts ==
    /\ running /\ ~producerReady /\ kafkaUp
    /\ producerReady' = TRUE
    /\ UNCHANGED <<running, subscribed, publishVars, spool, kafkaVars, brokerVars, troubles, stops>>

\* The oldest record of the topic is written and its sender told.
RecordWritten(t) ==
    /\ kafkaUp /\ accumulator[t] # <<>>
    /\ LET r == Head(accumulator[t])
       IN  /\ log' = [log EXCEPT ![t] = Append(@, r.msg)]
           /\ job' = [p \in Publishers |->
                         IF p = r.owner THEN [job[p] EXCEPT !.pc = "sent"] ELSE job[p]]
    /\ accumulator' = [accumulator EXCEPT ![t] = Tail(@)]
    /\ UNCHANGED <<processVars, scheduled, drainList, spool, kafkaUp, brokerVars, troubles, stops>>

\* It is written, the reply is lost, and the producer will write it again.
ReplyLost(t) ==
    /\ kafkaUp /\ accumulator[t] # <<>> /\ Trouble
    /\ log' = [log EXCEPT ![t] = Append(@, Head(accumulator[t]).msg)]
    /\ UNCHANGED <<processVars, publishVars, spool, kafkaUp, brokerVars, stops>>

\* The producer's request timeout, longer than the sender's patience.
RecordExpires(t) ==
    /\ accumulator[t] # <<>> /\ Head(accumulator[t]).owner = NoEvent
    /\ accumulator' = [accumulator EXCEPT ![t] = Tail(@)]
    /\ UNCHANGED <<processVars, scheduled, job, drainList, spool, kafkaVars, brokerVars,
                   troubles, stops>>

KafkaChanges ==
    /\ kafkaUp' = ~kafkaUp
    /\ UNCHANGED <<processVars, publishVars, spool, log, brokerVars, troubles, stops>>

-----------------------------------------------------------------------------
(* The process and its MQTT connection                                      *)

Stop == stops < MaxStops /\ stops' = stops + 1

\* The connection is lost; coroutines already scheduled go on.
MqttDisconnects ==
    /\ subscribed /\ Stop
    /\ subscribed' = FALSE
    /\ UNCHANGED <<running, producerReady, publishVars, spool, kafkaVars, brokerVars, troubles>>

\* on_connect
MqttConnects ==
    /\ running /\ ~subscribed
    /\ subscribed' = TRUE
    /\ UNCHANGED <<running, producerReady, publishVars, spool, kafkaVars, brokerVars, troubles, stops>>

\* A crash, a kill or an orderly stop: only the spool survives.  paho has
\* acknowledged what is scheduled or being sent, so it does not come back.
ProcessEnds ==
    /\ running /\ Stop
    /\ running' = FALSE /\ subscribed' = FALSE /\ producerReady' = FALSE
    /\ scheduled' = <<>> /\ drainList' = <<>>
    /\ job' = [p \in Publishers |-> Idle]
    /\ accumulator' = [t \in Topics |-> <<>>]
    /\ excused' = excused \cup Range(scheduled) \cup
                    {job[h].msg : h \in {h \in Handlers : job[h].pc # "idle"}}
    /\ UNCHANGED <<spool, kafkaVars, accepted, puback, messages, troubles>>

ProcessStarts ==
    /\ ~running
    /\ running' = TRUE
    /\ UNCHANGED <<subscribed, producerReady, publishVars, spool, kafkaVars, brokerVars,
                   troubles, stops>>

Handle == \E h \in Handlers : StartHandler(h) \/ HandlerDone(h)
Publish == \E p \in Publishers : AttemptFails(p) \/ Retry(p)
Drain == DrainStarts \/ DrainGoesOn
Kafka == \E t \in Topics : RecordWritten(t) \/ ReplyLost(t) \/ RecordExpires(t)
Process == MqttDisconnects \/ MqttConnects \/ ProcessEnds \/ ProcessStarts

BridgeNext == \/ \E e \in Event : MessageArrives(e)
              \/ Handle \/ Publish \/ Drain
              \/ ProducerStarts \/ Kafka \/ KafkaChanges
              \/ Process

Spec == Init /\ [][BridgeNext]_vars

-----------------------------------------------------------------------------
(* Properties                                                               *)

InLog(e) == e \in Range(log["telemetry"])
InProcess(e) == \/ e \in Range(scheduled)
                \/ \E h \in Handlers : job[h].msg = e

\* Through Kafka outages, timeouts, late writes and restarts, a valid event
\* the bridge acknowledged is in the process, the spool or the topic, unless
\* the bridge stopped with that event in memory only (mqtt_bridge.py:11).
NeverDropped ==
    \A e \in puback \ (Malformed \cup excused) : InProcess(e) \/ InSpool(e) \/ InLog(e)

\* A row leaves the spool only when its event is in the topic.
SpoolKeepsUnsent ==
    [][\A e \in Event : InSpool(e) => InSpool(e)' \/ InLog(e)]_spool

\* An event is overtaken in the topic by a younger one of its sensor only
\* after an attempt at it failed: it is being retried, or in the spool.
OvertakenOnlyInTrouble ==
    \A e, f \in Event \ Malformed :
        Later(e, f) /\ InLog(f) /\ ~InLog(e) /\ e \in puback \ excused =>
            \/ InSpool(e)
            \/ \E p \in Publishers : job[p].msg = e /\ (job[p].tries > 1 \/ job[p].pc = "backoff")

\* The spool holds an event once (spool.py:61).
SpooledOnce == Cardinality(Range(spool)) = Len(spool)

-----------------------------------------------------------------------------
(* A claim of the documentation                                            *)

\* docs/TELEMETRY_PIPELINE.md section 4 (ADR-053): at-least-once transport end
\* to end: a valid event that the bridge acknowledged is not lost.
AtLeastOnce ==
    \A e \in puback \ Malformed : InProcess(e) \/ InSpool(e) \/ InLog(e)
=============================================================================
