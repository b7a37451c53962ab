---------------------------- MODULE PipelineProofs ----------------------------
(***************************************************************************)
(* No acknowledged event is lost: theorems about MqttBridge and about its  *)
(* composition with TelemetryConsumer, for all values of the constants.    *)
(***************************************************************************)
EXTENDS TelemetryPipeline, BridgeProofs

-----------------------------------------------------------------------------
(* The bridge: messages on their way.                                       *)

Written(m) == m \in Range(log[TopicOf(m)])

\* What a publisher has been told is written is in its topic.
SentOK == \A p \in Publishers : job[p].pc = "sent" => Written(job[p].msg)

\* A message is in the spool once, and none that belongs in the DLQ.
SpoolOK ==
    /\ \A i, j \in DOMAIN spool : spool[i] = spool[j] => i = j
    /\ \A e \in Range(spool) : e \notin Malformed

DeliveryInv == BridgeTypeInv /\ SentOK /\ SpoolOK

LEMMA LogGrows ==
    ASSUME BridgeTypeInv, [BridgeNext]_vars, NEW t \in Topics
    PROVE  Range(log[t]) \subseteq Range(log'[t])
<1>1. CASE log' = log
  BY <1>1
<1>2. ASSUME NEW u \in Topics, RecordWritten(u) \/ ReplyLost(u)
      PROVE  Range(log[t]) \subseteq Range(log'[t])
  <2>1. PICK m : m = Head(accumulator[u]).msg
    OBVIOUS
  <2>2. log' = [log EXCEPT ![u] = Append(log[u], m)]
    BY <1>2, <2>1 DEF RecordWritten, ReplyLost
  <2>3. m \in Event
    BY <1>2, <2>1, FirstRecord
    DEF RecordWritten, ReplyLost, Record, BridgeTypeInv, QueuesInv
  <2>4. log[u] \in Seq(Event) /\ log \in [Topics -> Seq(Event)]
    BY DEF BridgeTypeInv, TypeOK
  <2>5. Range(Append(log[u], m)) = Range(log[u]) \cup {m}
    BY <2>3, <2>4, RangeAppend
  <2>6. CASE t = u
    BY <2>2, <2>4, <2>5, <2>6
  <2>7. CASE t # u
    BY <2>2, <2>4, <2>7
  <2>8. QED BY <2>6, <2>7
<1>3. QED
  BY <1>1, <1>2
  DEF BridgeNext, Handle, Publish, Drain, Kafka, Process, MessageArrives, StartHandler,
      HandlerDone, AttemptFails, Retry, DrainStarts, DrainGoesOn, ProducerStarts,
      RecordExpires, KafkaChanges, MqttDisconnects, MqttConnects, ProcessEnds,
      ProcessStarts, vars, kafkaVars

LEMMA WrittenStays ==
    ASSUME BridgeTypeInv, [BridgeNext]_vars, NEW m, Written(m)
    PROVE  Written(m)'
<1>1. TopicOf(m) \in Topics /\ TopicOf(m)' = TopicOf(m)
  BY TopicOfType DEF TopicOf
<1>2. QED BY <1>1, LogGrows DEF Written

-----------------------------------------------------------------------------
(* The bridge: what a step does to its jobs, its tasks and its spool.       *)

\* A job goes on with its message, or has no need of it any more.
JobStep(p) ==
    \/ job'[p] = job[p]
    \/ job'[p].pc # "sent" /\ (job'[p].msg = job[p].msg \/ job[p].pc \in {"idle", "sent"})
    \/ /\ job'[p].pc # "sent"
       /\ \/ p = Drainer \/ job[p].msg \in Malformed \cup Range(spool')
          \/ ProcessEnds /\ job[p].msg \in excused'
    \/ job'[p].pc = "sent" /\ job'[p].msg = job[p].msg /\ Written(job[p].msg)'

LEMMA SendingJobs ==
    ASSUME BridgeTypeInv, NEW p \in Publishers, NEW m, NEW try, Sending(p, m, try)
    PROVE  /\ job'[p].pc = "waiting" /\ job'[p].msg = m
           /\ \A o \in Publishers \ {p} : job'[o] = job[o]
<1>1. job' = [job EXCEPT ![p] = [msg |-> m, tries |-> try, pc |-> "waiting"]]
  BY DEF Sending
<1>2. job \in [Publishers -> Job]
  BY DEF BridgeTypeInv, TypeOK
<1>3. QED BY <1>1, <1>2

LEMMA SettingJob ==
    ASSUME BridgeTypeInv, NEW p \in Publishers, NEW j, job' = [job EXCEPT ![p] = j]
    PROVE  job'[p] = j /\ \A o \in Publishers \ {p} : job'[o] = job[o]
BY DEF BridgeTypeInv, TypeOK

\* What becomes of a message that could not be published
LEMMA GivenUp ==
    ASSUME BridgeTypeInv, NEW p \in Publishers, NEW m \in Event, GiveUp(p, m)
    PROVE  /\ p = Drainer \/ m \in Malformed \cup Range(spool')
           /\ spool' = spool \/ (m \notin Malformed /\ spool' = Spooled(m))
BY GiveUpProperties DEF BridgeTypeInv, TypeOK

LEMMA NextJob ==
    ASSUME BridgeTypeInv, [BridgeNext]_vars, NEW p \in Publishers
    PROVE  JobStep(p)
<1>0. /\ job \in [Publishers -> Job] /\ Idle.pc # "sent" /\ Handlers \subseteq Publishers
      /\ Drainer \in Publishers
  BY DEF BridgeTypeInv, TypeOK, Idle, Publishers
<1>1. CASE job' = job
  BY <1>1 DEF JobStep
<1>2. ASSUME NEW h \in Handlers, StartHandler(h) PROVE JobStep(p)
  <2>1. CASE producerReady
    <3>1. PICK m : m = Head(scheduled)
      OBVIOUS
    <3>2. Sending(h, m, 1) /\ job[h].pc = "idle"
      BY <1>2, <2>1, <3>1 DEF StartHandler
    <3>3. QED BY <1>0, <3>2, SendingJobs DEF JobStep
  <2>2. CASE ~producerReady
    BY <1>2, <2>2 DEF StartHandler, JobStep
  <2>3. QED BY <2>1, <2>2
<1>3. ASSUME NEW h \in Handlers, HandlerDone(h) PROVE JobStep(p)
  <2>1. job' = [job EXCEPT ![h] = Idle] /\ job[h].pc = "sent"
    BY <1>3 DEF HandlerDone
  <2>2. job'[h] = Idle /\ \A o \in Publishers \ {h} : job'[o] = job[o]
    BY <1>0, <2>1, SettingJob
  <2>3. QED BY <1>0, <2>1, <2>2 DEF JobStep
<1>4. ASSUME NEW o \in Publishers, AttemptFails(o) PROVE JobStep(p)
  <2>1. CASE job[o].tries < MaxTries
    <3>1. job' = [job EXCEPT ![o].pc = "backoff"]
      BY <1>4, <2>1 DEF AttemptFails
    <3>2. job'[o].pc = "backoff" /\ job'[o].msg = job[o].msg
      BY <1>0, <3>1 DEF Job
    <3>3. \A r \in Publishers \ {o} : job'[r] = job[r]
      BY <1>0, <3>1
    <3>4. QED BY <3>2, <3>3 DEF JobStep
  <2>2. CASE ~(job[o].tries < MaxTries)
    <3>1. job' = [job EXCEPT ![o] = Idle] /\ GiveUp(o, job[o].msg) /\ job[o].pc = "waiting"
      BY <1>4, <2>2 DEF AttemptFails
    <3>2. job'[o] = Idle /\ \A r \in Publishers \ {o} : job'[r] = job[r]
      BY <3>1, SettingJob
    <3>3. job[o].msg \in Event
      BY <1>0, <3>1 DEF BridgeTypeInv, QueuesInv, JobsOK, Job
    <3>4. o = Drainer \/ job[o].msg \in Malformed \cup Range(spool')
      BY <3>1, <3>3, GivenUp
    <3>5. QED BY <1>0, <3>2, <3>4 DEF JobStep
  <2>3. QED BY <2>1, <2>2
<1>5. ASSUME NEW o \in Publishers, Retry(o) PROVE JobStep(p)
  <2>1. PICK m, try : m = job[o].msg /\ try = job[o].tries + 1
    OBVIOUS
  <2>2. Sending(o, m, try)
    BY <1>5, <2>1 DEF Retry
  <2>3. job'[o].pc = "waiting" /\ job'[o].msg = m /\ \A r \in Publishers \ {o} : job'[r] = job[r]
    BY <2>2, SendingJobs
  <2>4. QED BY <2>1, <2>3 DEF JobStep
<1>6. CASE DrainStarts \/ DrainGoesOn
  <2>1. job[Drainer].pc \in {"idle", "sent"}
    BY <1>6 DEF DrainStarts, DrainGoesOn
  <2>2. \/ \E m : Sending(Drainer, m, 1)
        \/ job' = [job EXCEPT ![Drainer] = Idle]
    BY <1>6 DEF DrainStarts, DrainGoesOn
  <2>3. CASE job' = [job EXCEPT ![Drainer] = Idle]
    <3>1. job'[Drainer] = Idle /\ \A r \in Publishers \ {Drainer} : job'[r] = job[r]
      BY <1>0, <2>3, SettingJob
    <3>2. QED BY <1>0, <2>1, <3>1 DEF JobStep
  <2>4. CASE \E m : Sending(Drainer, m, 1)
    <3>1. PICK m : Sending(Drainer, m, 1)
      BY <2>4
    <3>2. job'[Drainer].pc = "waiting" /\ \A r \in Publishers \ {Drainer} : job'[r] = job[r]
      BY <1>0, <3>1, SendingJobs
    <3>3. QED BY <2>1, <3>2 DEF JobStep
  <2>5. QED BY <2>2, <2>3, <2>4
<1>7. ASSUME NEW t \in Topics, RecordWritten(t) PROVE JobStep(p)
  <2> DEFINE r == accumulator[t][1]
  <2>1. 1 \in DOMAIN accumulator[t] /\ Head(accumulator[t]) = r /\ r \in Record
    BY <1>7, FirstRecord DEF RecordWritten, BridgeTypeInv, QueuesInv
  <2>2. /\ log' = [log EXCEPT ![t] = Append(log[t], r.msg)]
        /\ job' = [o \in Publishers |->
                      IF o = r.owner THEN [job[o] EXCEPT !.pc = "sent"] ELSE job[o]]
    BY <1>7, <2>1 DEF RecordWritten
  <2>3. CASE p # r.owner
    BY <2>2, <2>3 DEF JobStep
  <2>4. CASE p = r.owner
    <3>1. TopicOf(r.msg) = t /\ job[p].msg = r.msg
      BY <2>1, <2>4, BridgeAssumption DEF BridgeTypeInv, QueuesInv, RecordsOK
    <3>2. job'[p].pc = "sent" /\ job'[p].msg = job[p].msg
      BY <1>0, <2>2, <2>4 DEF Job
    <3>3. log[t] \in Seq(Event) /\ r.msg \in Event /\ log \in [Topics -> Seq(Event)]
      BY <2>1 DEF BridgeTypeInv, TypeOK, Record
    <3>4. r.msg \in Range(log'[t])
      BY <2>2, <3>3, RangeAppend
    <3>5. TopicOf(job[p].msg)' = t
      BY <3>1, <3>2 DEF TopicOf
    <3>6. Written(job[p].msg)'
      BY <3>1, <3>2, <3>4, <3>5 DEF Written
    <3>7. QED BY <3>2, <3>6 DEF JobStep
  <2>5. QED BY <2>3, <2>4
<1>8. CASE ProcessEnds
  <2>1. job'[p] = Idle
    BY <1>8 DEF ProcessEnds
  <2>2. CASE p = Drainer \/ job[p].pc = "idle"
    BY <1>0, <2>1, <2>2 DEF JobStep
  <2>3. CASE p \in Handlers /\ job[p].pc # "idle"
    <3>1. job[p].msg \in excused'
      BY <1>8, <2>3 DEF ProcessEnds
    <3>2. QED BY <1>0, <1>8, <2>1, <3>1 DEF JobStep
  <2>4. QED BY <2>2, <2>3 DEF Publishers
<1>9. QED
  BY <1>1, <1>2, <1>3, <1>4, <1>5, <1>6, <1>7, <1>8
  DEF BridgeNext, Handle, Publish, Drain, Kafka, Process, MessageArrives, ProducerStarts,
      ReplyLost, RecordExpires, KafkaChanges, MqttDisconnects, MqttConnects,
      ProcessStarts, vars, publishVars

LEMMA NextSent == ASSUME DeliveryInv, [BridgeNext]_vars PROVE SentOK'
<1> SUFFICES ASSUME NEW p \in Publishers, job'[p].pc = "sent"
             PROVE  Written(job[p].msg)'
  BY DEF SentOK, Written, TopicOf
<1>1. CASE job'[p] = job[p]
  <2>1. PICK m : m = job[p].msg
    OBVIOUS
  <2>2. Written(m)
    BY <1>1, <2>1 DEF DeliveryInv, SentOK
  <2>3. Written(m)'
    BY <2>2, WrittenStays DEF DeliveryInv
  <2>4. QED BY <1>1, <2>1, <2>3 DEF Written, TopicOf
<1>2. CASE job'[p] # job[p]
  BY <1>2, NextJob DEF DeliveryInv, JobStep
<1>3. QED BY <1>1, <1>2

\* A row is added for a message that could not be published, and one is removed for a
\* message that was.
SpoolStep ==
    \/ spool' = spool
    \/ \E m \in Event \ Malformed : spool' = Spooled(m)
    \/ job[Drainer].pc = "sent" /\ spool' = Removed

LEMMA NextSpoolStep == ASSUME BridgeTypeInv, [BridgeNext]_vars PROVE SpoolStep
<1>1. CASE spool' = spool
  BY <1>1 DEF SpoolStep
<1>2. ASSUME NEW h \in Handlers, StartHandler(h) PROVE SpoolStep
  <2>1. CASE producerReady
    BY <1>2, <2>1 DEF StartHandler, SpoolStep
  <2>2. CASE ~producerReady
    <3>1. Head(scheduled) \in Event
      BY <1>2, RangeTail DEF StartHandler, BridgeTypeInv, TypeOK
    <3>2. h \in Publishers /\ GiveUp(h, Head(scheduled))
      BY <1>2, <2>2 DEF StartHandler, Publishers
    <3>3. QED BY <3>1, <3>2, GivenUp DEF SpoolStep
  <2>3. QED BY <2>1, <2>2
<1>3. ASSUME NEW p \in Publishers, AttemptFails(p) PROVE SpoolStep
  <2>1. CASE job[p].tries < MaxTries
    BY <1>3, <2>1 DEF AttemptFails, SpoolStep
  <2>2. CASE ~(job[p].tries < MaxTries)
    <3>1. job[p].msg \in Event
      BY <1>3 DEF AttemptFails, BridgeTypeInv, TypeOK, QueuesInv, JobsOK, Job
    <3>2. GiveUp(p, job[p].msg)
      BY <1>3, <2>2 DEF AttemptFails
    <3>3. QED BY <3>1, <3>2, GivenUp DEF SpoolStep
  <2>3. QED BY <2>1, <2>2
<1>4. CASE DrainGoesOn
  BY <1>4 DEF DrainGoesOn, SpoolStep
<1>5. QED
  BY <1>1, <1>2, <1>3, <1>4
  DEF BridgeNext, Handle, Publish, Drain, Kafka, Process, MessageArrives, HandlerDone, Retry,
      DrainStarts, ProducerStarts, RecordWritten, ReplyLost, RecordExpires, KafkaChanges,
      MqttDisconnects, MqttConnects, ProcessEnds, ProcessStarts, vars

\* What leaves the spool is in its topic.
LEMMA SpoolLoses ==
    ASSUME DeliveryInv, [BridgeNext]_vars, NEW e \in Range(spool), e \notin Range(spool')
    PROVE  Written(e)
<1>1. spool \in Seq(Event) /\ e \in Event /\ Drainer \in Publishers
  BY RangeOfSeq DEF DeliveryInv, BridgeTypeInv, TypeOK, Publishers
<1>2. SpoolStep
  BY NextSpoolStep DEF DeliveryInv
<1>3. PICK s : s = spool'
  OBVIOUS
<1>4. CASE \E m \in Event \ Malformed : s = Spooled(m)
  BY <1>1, <1>3, <1>4, SpooledProperties
<1>5. CASE job[Drainer].pc = "sent" /\ s = Removed
  <2>1. PICK m : m = job[Drainer].msg
    OBVIOUS
  <2>2. e = m
    BY <1>1, <1>3, <1>5, <2>1, RemovedProperties
  <2>3. QED BY <1>1, <1>5, <2>1, <2>2 DEF DeliveryInv, SentOK
<1>6. QED BY <1>2, <1>3, <1>4, <1>5 DEF SpoolStep

LEMMA NextSpool == ASSUME DeliveryInv, [BridgeNext]_vars PROVE SpoolOK'
<1>1. spool \in Seq(Event) /\ SpoolOK
  BY DEF DeliveryInv, BridgeTypeInv, TypeOK
<1>2. PICK s : s = spool'
  OBVIOUS
<1>3. SpoolStep
  BY NextSpoolStep DEF DeliveryInv
<1>4. SUFFICES /\ \A i, j \in DOMAIN s : s[i] = s[j] => i = j
               /\ \A e \in Range(s) : e \notin Malformed
  BY <1>2 DEF SpoolOK
<1>5. CASE s = spool
  BY <1>1, <1>5 DEF SpoolOK
<1>6. CASE \E m \in Event \ Malformed : s = Spooled(m)
  <2>1. PICK m \in Event \ Malformed : s = Spooled(m)
    BY <1>6
  <2>2. CASE InSpool(m)
    BY <1>1, <2>1, <2>2 DEF Spooled, SpoolOK
  <2>3. CASE ~InSpool(m)
    <3>1. s = Append(spool, m)
      BY <2>1, <2>3 DEF Spooled
    <3>2. Range(s) = Range(spool) \cup {m}
      BY <1>1, <3>1, RangeAppend
    <3>3. PICK n \in Nat : /\ DOMAIN spool = 1 .. n /\ DOMAIN s = 1 .. n + 1
                           /\ \A i \in 1 .. n : s[i] = spool[i]
                           /\ s[n + 1] = m
      BY <1>1, <3>1, AppendProperties, LenProperties
    <3>4. \A i \in 1 .. n : s[i] # m
      BY <2>3, <3>3 DEF InSpool, Range
    <3>5. \A i \in DOMAIN s : i = n + 1 \/ i \in 1 .. n
      BY <3>3
    <3>6. ASSUME NEW i \in DOMAIN s, NEW j \in DOMAIN s, s[i] = s[j] PROVE i = j
      BY <1>1, <3>3, <3>4, <3>5, <3>6 DEF SpoolOK
    <3>7. QED BY <1>1, <3>2, <3>6 DEF SpoolOK
  <2>4. QED BY <2>2, <2>3
<1>7. CASE s = Removed
  <2>1. PICK m : m = job[Drainer].msg
    OBVIOUS
  <2>2. /\ Range(s) \subseteq Range(spool)
        /\ s = spool \/ \E i \in 1 .. Len(spool) : s = Without(spool, i)
    BY <1>1, <1>7, <2>1, RemovedProperties
  <2>3. ASSUME NEW i \in 1 .. Len(spool), s = Without(spool, i)
        PROVE  \A j, k \in DOMAIN s : s[j] = s[k] => j = k
    <3>1. PICK f : LeavesOut(s, spool, i, f)
      BY <1>1, <2>3, WithoutFrom
    <3>2. QED BY <1>1, <3>1 DEF LeavesOut, SpoolOK
  <2>4. QED BY <1>1, <2>2, <2>3 DEF SpoolOK
<1>8. QED BY <1>2, <1>3, <1>5, <1>6, <1>7 DEF SpoolStep

LEMMA InitDelivery == Init => DeliveryInv
<1> SUFFICES ASSUME Init PROVE DeliveryInv
  OBVIOUS
<1>1. BridgeTypeInv
  BY InitBridgeType
<1>2. SentOK
  BY DEF Init, SentOK, Idle
<1>3. SpoolOK
  BY DEF Init, SpoolOK, Range
<1>4. QED BY <1>1, <1>2, <1>3 DEF DeliveryInv

LEMMA NextDelivery == ASSUME DeliveryInv, [BridgeNext]_vars PROVE DeliveryInv'
BY NextBridgeType, NextSent, NextSpool DEF DeliveryInv

\* A message is in the spool once, however often it arrives and could not be published.
THEOREM SpoolHasNoDuplicates == Spec => []SpooledOnce
<1>1. ASSUME DeliveryInv PROVE SpooledOnce
  <2>1. spool \in Seq(Event) /\ SpoolOK
    BY <1>1 DEF DeliveryInv, BridgeTypeInv, TypeOK
  <2>2. PICK n \in Nat : n = Len(spool) /\ DOMAIN spool = 1 .. n
    BY <2>1, LenProperties
  <2>3. spool \in [1 .. n -> Range(spool)]
    BY <2>1, <2>2, RangeOfSeq DEF Range
  <2>4. /\ \A i, j \in 1 .. n : spool[i] = spool[j] => i = j
        /\ \A e \in Range(spool) : \E i \in 1 .. n : spool[i] = e
    BY <2>1, <2>2 DEF SpoolOK, Range
  <2>5. spool \in Bijection(1 .. n, Range(spool))
    BY <2>3, <2>4, Fun_IsBij
  <2>6. ExistsBijection(1 .. n, Range(spool))
    BY <2>5, Fun_ExistsBij
  <2>7. IsFiniteSet(1 .. n) /\ Cardinality(1 .. n) = n
    BY FS_Interval
  <2>8. Cardinality(Range(spool)) = n
    BY <2>6, <2>7, FS_Bijection
  <2>9. QED BY <2>2, <2>8 DEF SpooledOnce
<1>2. QED BY <1>1, InitDelivery, NextDelivery, PTL DEF Spec

\* A row leaves the spool only when its event is in the topic.
THEOREM SpoolIsKeptUntilWritten == Spec => SpoolKeepsUnsent
<1>1. ASSUME DeliveryInv, [BridgeNext]_vars
      PROVE  [\A e \in Event : InSpool(e) => InSpool(e)' \/ InLog(e)]_spool
  <2> SUFFICES ASSUME NEW e \in Event, InSpool(e), ~InSpool(e)' PROVE InLog(e)
    OBVIOUS
  <2>1. e \in Range(spool) /\ e \notin Range(spool')
    BY DEF InSpool
  <2>2. e \notin Malformed /\ Written(e)
    BY <1>1, <2>1, SpoolLoses DEF DeliveryInv, SpoolOK
  <2>3. QED BY <2>2 DEF Written, TopicOf, InLog
<1>2. QED BY <1>1, InitDelivery, NextDelivery, PTL DEF Spec, SpoolKeepsUnsent

\* A message that waits for its coroutine waits on, is taken by one, is spooled at
\* once or was in memory when the process ended.
LEMMA NextScheduled ==
    ASSUME BridgeTypeInv, [BridgeNext]_vars, NEW e \in Range(scheduled)
    PROVE  \/ e \in Range(scheduled') \cup Range(spool') \cup Malformed
           \/ \E h \in Handlers : job'[h].msg = e
           \/ ProcessEnds /\ e \in excused'
<1>0. scheduled \in Seq(Event)
  BY DEF BridgeTypeInv, TypeOK
<1>1. CASE scheduled' = scheduled
  BY <1>1
<1>2. ASSUME NEW f \in Event, MessageArrives(f) PROVE e \in Range(scheduled')
  <2>1. scheduled' = scheduled \/ scheduled' = Append(scheduled, f)
    BY <1>2 DEF MessageArrives
  <2>2. Range(Append(scheduled, f)) = Range(scheduled) \cup {f}
    BY <1>0, RangeAppend
  <2>3. QED BY <2>1, <2>2
<1>3. ASSUME NEW h \in Handlers, StartHandler(h), e \notin Range(scheduled')
      PROVE  e \in Range(spool') \cup Malformed \/ job'[h].msg = e
  <2>1. PICK m : m = Head(scheduled)
    OBVIOUS
  <2>2. m \in Event /\ e = m
    BY <1>0, <1>3, <2>1, RangeTail DEF StartHandler
  <2>3. h \in Publishers /\ h # Drainer
    BY BridgeAssumption DEF Publishers
  <2>4. CASE producerReady
    <3>1. Sending(h, m, 1)
      BY <1>3, <2>1, <2>4 DEF StartHandler
    <3>2. QED BY <2>2, <2>3, <3>1, SendingJobs
  <2>5. CASE ~producerReady
    <3>1. GiveUp(h, m)
      BY <1>3, <2>1, <2>5 DEF StartHandler
    <3>2. QED BY <2>2, <2>3, <3>1, GivenUp
  <2>6. QED BY <2>4, <2>5
<1>4. CASE ProcessEnds
  BY <1>4 DEF ProcessEnds
<1>5. QED
  BY <1>1, <1>2, <1>3, <1>4
  DEF BridgeNext, Handle, Publish, Drain, Kafka, Process, HandlerDone, AttemptFails, Retry,
      DrainStarts, DrainGoesOn, ProducerStarts, RecordWritten, ReplyLost, RecordExpires,
      KafkaChanges, MqttDisconnects, MqttConnects, ProcessStarts, vars, publishVars

\* What is excused stays excused, and what is acknowledged was before or is scheduled.
LEMMA NextAcknowledged ==
    ASSUME BridgeTypeInv, [BridgeNext]_vars
    PROVE  excused \subseteq excused' /\ puback' \subseteq puback \cup Range(scheduled')
<1>0. scheduled \in Seq(Event)
  BY DEF BridgeTypeInv, TypeOK
<1>1. CASE UNCHANGED <<puback, excused>>
  BY <1>1
<1>2. ASSUME NEW e \in Event, MessageArrives(e)
      PROVE  excused \subseteq excused' /\ puback' \subseteq puback \cup Range(scheduled')
  <2>1. CASE subscribed
    <3>1. /\ scheduled' = Append(scheduled, e) /\ puback' = puback \cup {e}
          /\ excused' = excused
      BY <1>2, <2>1 DEF MessageArrives
    <3>2. QED BY <1>0, <3>1, RangeAppend
  <2>2. CASE ~subscribed
    BY <1>2, <2>2 DEF MessageArrives
  <2>3. QED BY <2>1, <2>2
<1>3. CASE ProcessEnds
  BY <1>3 DEF ProcessEnds
<1>4. QED
  BY <1>1, <1>2, <1>3
  DEF BridgeNext, Handle, Publish, Drain, Kafka, Process, StartHandler, HandlerDone,
      AttemptFails, Retry, DrainStarts, DrainGoesOn, ProducerStarts, RecordWritten, ReplyLost,
      RecordExpires, KafkaChanges, MqttDisconnects, MqttConnects, ProcessStarts, vars,
      brokerVars

\* Where a message that the bridge has taken may be.
Held(e) == InProcess(e) \/ InSpool(e) \/ InLog(e)

LEMMA NextHeld ==
    ASSUME DeliveryInv, [BridgeNext]_vars, NEW e \in Event \ Malformed, Held(e)
    PROVE  Held(e)' \/ (ProcessEnds /\ e \in excused')
<1> USE DEF DeliveryInv
<1>1. InLog(e) <=> Written(e)
  BY DEF InLog, Written, TopicOf
<1>2. ASSUME Written(e) PROVE InLog(e)'
  BY <1>2, WrittenStays DEF InLog, Written, TopicOf
<1>3. CASE InLog(e)
  BY <1>1, <1>2, <1>3 DEF Held
<1>4. CASE InSpool(e)
  <2>1. CASE e \in Range(spool')
    BY <2>1 DEF Held, InSpool
  <2>2. CASE e \notin Range(spool')
    <3>1. Written(e)
      BY <1>4, <2>2, SpoolLoses DEF InSpool
    <3>2. QED BY <1>2, <3>1 DEF Held
  <2>3. QED BY <2>1, <2>2
<1>5. CASE e \in Range(scheduled)
  BY <1>5, NextScheduled DEF Held, InProcess, InSpool
<1>6. ASSUME NEW h \in Handlers, job[h].msg = e
      PROVE  Held(e)' \/ (ProcessEnds /\ e \in excused')
  <2>1. h \in Publishers /\ h # Drainer /\ job[h].pc # "idle"
    BY <1>6, BridgeAssumption DEF BridgeTypeInv, QueuesInv, JobsOK, Publishers
  <2>2. CASE job'[h].msg = e
    BY <2>2 DEF Held, InProcess
  <2>3. CASE job[h].pc = "sent"
    <3>1. Written(e)
      BY <1>6, <2>1, <2>3 DEF SentOK
    <3>2. QED BY <1>2, <3>1 DEF Held
  <2>4. CASE job'[h].msg # e /\ job[h].pc # "sent"
    <3>1. JobStep(h)
      BY <2>1, NextJob
    <3>2. e \in Range(spool') \/ (ProcessEnds /\ e \in excused')
      BY <1>6, <2>1, <2>4, <3>1 DEF JobStep
    <3>3. QED BY <3>2 DEF Held, InSpool
  <2>5. QED BY <2>2, <2>3, <2>4
<1>7. QED BY <1>3, <1>4, <1>5, <1>6 DEF Held, InProcess

HeldInv == \A e \in puback \ (Malformed \cup excused) : Held(e)

LEMMA NextHeldInv ==
    ASSUME DeliveryInv, HeldInv, [BridgeNext]_vars PROVE HeldInv'
<1> SUFFICES ASSUME NEW e \in puback', e \notin Malformed, e \notin excused'
             PROVE  Held(e)'
  BY DEF HeldInv
<1>1. excused \subseteq excused' /\ puback' \subseteq puback \cup Range(scheduled')
  BY NextAcknowledged DEF DeliveryInv
<1>2. CASE e \in Range(scheduled')
  BY <1>2 DEF Held, InProcess
<1>3. CASE e \in puback
  <2>1. e \in Event \ Malformed
    BY <1>3 DEF DeliveryInv, BridgeTypeInv, TypeOK
  <2>2. Held(e)
    BY <1>1, <1>3, <2>1 DEF HeldInv
  <2>3. QED BY <2>1, <2>2, NextHeld
<1>4. QED BY <1>1, <1>2, <1>3

\* Through outages of Kafka, timeouts, late writes and restarts, a valid event that the
\* bridge acknowledged is in the process, in the spool or in the topic, unless the
\* process ended, or the connection was gone, with it in memory only.
THEOREM NothingIsDropped == Spec => []NeverDropped
<1>1. Init => HeldInv
  BY DEF Init, HeldInv
<1>2. HeldInv => NeverDropped
  BY DEF HeldInv, Held, NeverDropped
<1>3. QED BY <1>1, <1>2, InitDelivery, NextDelivery, NextHeldInv, PTL DEF Spec

-----------------------------------------------------------------------------
(* The bridge: who is overtaken.                                            *)

Queue == accumulator["telemetry"]

Has(q, e) == \E i \in DOMAIN q : q[i].msg = e

\* Each record of f in q has one of e before it.
Precedes(q, e, f) ==
    \A i \in DOMAIN q : q[i].msg = f => \E j \in DOMAIN q : j < i /\ q[j].msg = e

Queued(e) == Has(Queue, e)

\* e is being retried, or in the spool.
Troubled(e) ==
    \/ InSpool(e)
    \/ \E p \in Publishers : job[p].msg = e /\ (job[p].tries > 1 \/ job[p].pc = "backoff")

\* e was acknowledged and is on its way without trouble so far.
Steady(e) == e \in puback \ excused /\ ~InLog(e) /\ ~Troubled(e)

\* f is with someone who may send it.
Outside(f) == InSpool(f) \/ f \in Range(drainList) \/ \E p \in Publishers : job[p].msg = f

Placed(f) == f \in Range(scheduled) \/ Queued(f) \/ Outside(f) \/ InLog(f)

\* An attempt is the first or a later one.
TriesOK == \A p \in Publishers : job[p].pc # "idle" => job[p].tries >= 1

\* What the drain task sends comes from the spool.
DrainOK ==
    \A e \in Range(drainList) \cup {job[Drainer].msg} : e # NoEvent => InSpool(e) \/ InLog(e)

\* Whatever is on its way was accepted, and what was accepted is acknowledged or excused.
AcceptedOK ==
    /\ accepted \subseteq puback \cup excused
    /\ \A f \in Event \ Malformed : Placed(f) => f \in accepted

PlacesInv == DeliveryInv /\ HeldInv /\ TriesOK /\ DrainOK /\ AcceptedOK

\* The records of e are awaited, so none of them expires.
Owned(e) == \A i \in DOMAIN Queue : Queue[i].msg = e => Queue[i].owner # NoEvent

InSchedule(e, f) ==
    \A i \in DOMAIN scheduled : scheduled[i] = f =>
        Queued(e) \/ \E j \in DOMAIN scheduled : j < i /\ scheduled[j] = e

\* Wherever f is, e is before it.
Ahead(e, f) ==
    /\ ~InLog(f)
    /\ Precedes(Queue, e, f)
    /\ InSchedule(e, f)
    /\ Outside(f) => Queued(e)

OrderInv ==
    \A e \in Event \ Malformed : Steady(e) =>
        /\ Owned(e)
        /\ \A f \in Event \ Malformed : Later(e, f) => Ahead(e, f)

LEMMA AppendOrder ==
    ASSUME NEW q \in Seq(Record), NEW r \in Record, NEW e, NEW f
    PROVE  /\ Has(Append(q, r), e) <=> Has(q, e) \/ r.msg = e
           /\ Precedes(q, e, f) /\ (r.msg = f => Has(q, e)) => Precedes(Append(q, r), e, f)
<1> PICK s : s = Append(q, r)
  OBVIOUS
<1>1. PICK n \in Nat : /\ DOMAIN q = 1 .. n /\ DOMAIN s = 1 .. n + 1
                       /\ \A i \in 1 .. n : s[i] = q[i]
                       /\ s[n + 1] = r
  BY AppendProperties, LenProperties
<1>2. /\ n + 1 \in DOMAIN s /\ n + 1 \notin 1 .. n
      /\ \A i \in DOMAIN s : i \in 1 .. n \/ i = n + 1
      /\ \A i \in 1 .. n : i < n + 1 /\ i \in DOMAIN s
  BY <1>1
<1>3. Has(s, e) <=> Has(q, e) \/ r.msg = e
  BY <1>1, <1>2 DEF Has
<1>4. Precedes(q, e, f) /\ (r.msg = f => Has(q, e)) => Precedes(s, e, f)
  BY <1>1, <1>2 DEF Has, Precedes
<1>5. QED BY <1>3, <1>4

LEMMA WithoutOrder ==
    ASSUME NEW q \in Seq(Record), NEW i \in DOMAIN q, NEW e, q[i].msg # e, NEW f
    PROVE  /\ Has(Without(q, i), e) <=> Has(q, e)
           /\ Has(Without(q, i), f) => Has(q, f)
           /\ Precedes(q, e, f) => Precedes(Without(q, i), e, f)
<1> PICK s : s = Without(q, i)
  OBVIOUS
<1>1. PICK n \in Nat : n = Len(q) /\ DOMAIN q = 1 .. n /\ i \in 1 .. n
  BY LenProperties
<1>2. /\ DOMAIN s = 1 .. n - 1
      /\ \A k \in 1 .. n - 1 : s[k] = IF k < i THEN q[k] ELSE q[k + 1]
  <2>1. i \in 1 .. Len(q)
    BY <1>1
  <2>2. /\ s \in Seq(Record) /\ Len(s) = Len(q) - 1
        /\ \A k \in 1 .. Len(q) - 1 : s[k] = IF k < i THEN q[k] ELSE q[k + 1]
    BY <2>1, WithoutProperties
  <2>3. QED BY <1>1, <2>2, LenProperties
\* where an entry of q other than that at i has gone
<1>3. ASSUME NEW k \in 1 .. n, k # i
      PROVE  \E l \in 1 .. n - 1 : s[l] = q[k] /\ l = IF k < i THEN k ELSE k - 1
  <2>1. CASE k < i
    BY <1>1, <1>2, <2>1
  <2>2. CASE k > i
    <3>1. k - 1 \in 1 .. n - 1 /\ ~(k - 1 < i)
      BY <1>1, <2>2
    <3>2. s[k - 1] = q[k]
      BY <1>1, <1>2, <3>1
    <3>3. QED BY <1>1, <2>2, <3>1, <3>2
  <2>3. QED BY <1>1, <1>3, <2>1, <2>2
\* and where one of s comes from
<1>4. ASSUME NEW l \in 1 .. n - 1
      PROVE  \E k \in 1 .. n : s[l] = q[k] /\ k # i /\ l = IF k < i THEN k ELSE k - 1
  <2>1. CASE l < i
    BY <1>1, <1>2, <2>1
  <2>2. CASE ~(l < i)
    <3>1. l + 1 \in 1 .. n /\ l + 1 # i /\ ~(l + 1 < i) /\ s[l] = q[l + 1] /\ l = (l + 1) - 1
      BY <1>1, <1>2, <2>2
    <3>2. QED BY <3>1
  <2>3. QED BY <2>1, <2>2
<1>5. Has(s, e) <=> Has(q, e)
  <2>1. ASSUME Has(q, e) PROVE Has(s, e)
    <3>1. PICK k \in 1 .. n : q[k].msg = e
      BY <1>1, <2>1 DEF Has
    <3>2. PICK l \in 1 .. n - 1 : s[l] = q[k]
      BY <1>3, <3>1
    <3>3. QED BY <1>2, <3>1, <3>2 DEF Has
  <2>2. QED BY <1>1, <1>2, <1>4, <2>1, SMTT(30) DEF Has
<1>6. Has(s, f) => Has(q, f)
  BY <1>1, <1>2, <1>4 DEF Has
<1>7. ASSUME Precedes(q, e, f), NEW l \in 1 .. n - 1, s[l].msg = f
      PROVE  \E j \in 1 .. n - 1 : j < l /\ s[j].msg = e
  <2>1. PICK k \in 1 .. n : s[l] = q[k] /\ k # i /\ l = IF k < i THEN k ELSE k - 1
    BY <1>4
  <2>2. PICK m \in 1 .. n : m < k /\ q[m].msg = e
    BY <1>1, <1>7, <2>1 DEF Precedes
  <2>3. PICK j \in 1 .. n - 1 : s[j] = q[m] /\ j = IF m < i THEN m ELSE m - 1
    BY <1>3, <2>2
  <2>4. j < l
    BY <1>1, <2>1, <2>2, <2>3
  <2>5. QED BY <2>2, <2>3, <2>4
<1>8. QED BY <1>2, <1>5, <1>6, <1>7 DEF Precedes

\* A record that loses its owner stays in its place.
Disowned(q, i) == [q EXCEPT ![i].owner = NoEvent]

LEMMA DisownedOrder ==
    ASSUME NEW q \in Seq(Record), NEW i \in DOMAIN q, NEW e, NEW f
    PROVE  /\ Has(Disowned(q, i), e) <=> Has(q, e)
           /\ Precedes(q, e, f) => Precedes(Disowned(q, i), e, f)
<1> PICK r : r = Disowned(q, i)
  OBVIOUS
<1>0. r = [q EXCEPT ![i].owner = NoEvent]
  BY DEF Disowned
<1>1. DOMAIN r = DOMAIN q /\ \A k \in DOMAIN q : r[k].msg = q[k].msg
  <2>1. q[i] \in Record /\ DOMAIN r = DOMAIN q
    BY <1>0, ElementOfSeq, LenProperties
  <2>2. \A k \in DOMAIN q \ {i} : r[k] = q[k]
    BY <1>0
  <2>3. r[i] = [q[i] EXCEPT !.owner = NoEvent]
    BY <1>0
  <2>4. r[i].msg = q[i].msg
    BY <2>1, <2>3 DEF Record
  <2>5. QED BY <2>1, <2>2, <2>4
<1>2. QED BY <1>1 DEF Has, Precedes

\* The life of a job: a first attempt, a wait for the next or for the coroutine to go
\* on, the end.
JobMove(p) ==
    \/ job'[p] = job[p]
    \/ job'[p] = Idle
    \/ /\ job[p].pc \in {"idle", "sent"}
       /\ job'[p].pc = "waiting" /\ job'[p].tries = 1
       /\ \/ p = Drainer /\ job'[p].msg \in Range(spool) \cup Range(drainList)
          \/ p \in Handlers /\ scheduled # <<>> /\ job'[p].msg = Head(scheduled)
    \/ /\ job[p].pc = "waiting" /\ job'[p].pc \in {"backoff", "sent"}
       /\ job'[p].msg = job[p].msg /\ job'[p].tries = job[p].tries
    \/ /\ job[p].pc = "backoff" /\ job'[p].pc = "waiting"
       /\ job'[p].msg = job[p].msg /\ job'[p].tries = job[p].tries + 1

LEMMA SendingTries ==
    ASSUME BridgeTypeInv, NEW p \in Publishers, NEW m, NEW try, Sending(p, m, try)
    PROVE  job'[p] = [msg |-> m, tries |-> try, pc |-> "waiting"]
BY SettingJob DEF Sending

LEMMA NextJobMove ==
    ASSUME BridgeTypeInv, [BridgeNext]_vars, NEW p \in Publishers
    PROVE  JobMove(p)
<1>0. /\ job \in [Publishers -> Job] /\ Handlers \subseteq Publishers /\ Drainer \in Publishers
      /\ scheduled \in Seq(Event) /\ drainList \in Seq(Event) /\ spool \in Seq(Event)
  BY DEF BridgeTypeInv, TypeOK, Publishers
<1>1. CASE job' = job
  BY <1>1 DEF JobMove
<1>2. ASSUME NEW o \in Publishers, job[o].pc \in {"idle", "sent"}, NEW m, Sending(o, m, 1),
             \/ o = Drainer /\ m \in Range(spool) \cup Range(drainList)
             \/ o \in Handlers /\ scheduled # <<>> /\ m = Head(scheduled)
      PROVE  JobMove(p)
  <2>1. job'[o] = [msg |-> m, tries |-> 1, pc |-> "waiting"]
    BY <1>2, SendingTries
  <2>2. job'[o].pc = "waiting" /\ job'[o].tries = 1 /\ job'[o].msg = m
    BY <2>1
  <2>3. \A r \in Publishers \ {o} : job'[r] = job[r]
    BY <1>2, SendingJobs
  <2>4. QED BY <1>2, <2>2, <2>3 DEF JobMove
<1>3. ASSUME NEW h \in Handlers, StartHandler(h) PROVE JobMove(p)
  <2>1. CASE producerReady
    <3>1. PICK m : m = Head(scheduled)
      OBVIOUS
    <3>2. Sending(h, m, 1) /\ job[h].pc = "idle" /\ scheduled # <<>>
      BY <1>3, <2>1, <3>1 DEF StartHandler
    <3>3. QED BY <1>0, <1>2, <3>1, <3>2
  <2>2. CASE ~producerReady
    BY <1>3, <2>2 DEF StartHandler, JobMove
  <2>3. QED BY <2>1, <2>2
<1>4. ASSUME NEW o \in Publishers, job' = [job EXCEPT ![o] = Idle] PROVE JobMove(p)
  <2>1. job'[o] = Idle /\ \A r \in Publishers \ {o} : job'[r] = job[r]
    BY <1>4, SettingJob
  <2>2. QED BY <2>1 DEF JobMove
<1>5. ASSUME NEW o \in Publishers, AttemptFails(o) PROVE JobMove(p)
  <2>1. CASE job[o].tries < MaxTries
    <3>1. job' = [job EXCEPT ![o].pc = "backoff"] /\ job[o].pc = "waiting"
      BY <1>5, <2>1 DEF AttemptFails
    <3>2. /\ job'[o].pc = "backoff" /\ job'[o].msg = job[o].msg
          /\ job'[o].tries = job[o].tries
      BY <1>0, <3>1 DEF Job
    <3>3. \A r \in Publishers \ {o} : job'[r] = job[r]
      BY <1>0, <3>1
    <3>4. QED BY <3>1, <3>2, <3>3 DEF JobMove
  <2>2. CASE ~(job[o].tries < MaxTries)
    BY <1>4, <1>5, <2>2 DEF AttemptFails
  <2>3. QED BY <2>1, <2>2
<1>6. ASSUME NEW o \in Publishers, Retry(o) PROVE JobMove(p)
  <2>1. PICK m, try : m = job[o].msg /\ try = job[o].tries + 1
    OBVIOUS
  <2>2. Sending(o, m, try) /\ job[o].pc = "backoff"
    BY <1>6, <2>1 DEF Retry
  <2>3. job'[o] = [msg |-> m, tries |-> try, pc |-> "waiting"]
    BY <2>2, SendingTries
  <2>4. job'[o].pc = "waiting" /\ job'[o].tries = try /\ job'[o].msg = m
    BY <2>3
  <2>5. \A r \in Publishers \ {o} : job'[r] = job[r]
    BY <2>2, SendingJobs
  <2>6. QED BY <2>1, <2>2, <2>4, <2>5 DEF JobMove
<1>7. CASE DrainStarts
  <2>1. PICK m : m = Head(spool)
    OBVIOUS
  <2>2. Sending(Drainer, m, 1) /\ job[Drainer].pc = "idle" /\ m \in Range(spool)
    BY <1>0, <1>7, <2>1, RangeTail DEF DrainStarts
  <2>3. QED BY <1>0, <1>2, <2>2
<1>8. CASE DrainGoesOn
  <2>1. CASE drainList = <<>>
    BY <1>0, <1>4, <1>8, <2>1 DEF DrainGoesOn
  <2>2. CASE drainList # <<>>
    <3>1. PICK m : m = Head(drainList)
      OBVIOUS
    <3>2. Sending(Drainer, m, 1) /\ job[Drainer].pc = "sent" /\ m \in Range(drainList)
      BY <1>0, <1>8, <2>2, <3>1, RangeTail DEF DrainGoesOn
    <3>3. QED BY <1>0, <1>2, <3>2
  <2>3. QED BY <2>1, <2>2
<1>9. ASSUME NEW t \in Topics, RecordWritten(t) PROVE JobMove(p)
  <2> DEFINE r == accumulator[t][1]
  <2>1. 1 \in DOMAIN accumulator[t] /\ Head(accumulator[t]) = r /\ r \in Record
    BY <1>9, FirstRecord DEF RecordWritten, BridgeTypeInv, QueuesInv
  <2>2. job' = [o \in Publishers |->
                   IF o = r.owner THEN [job[o] EXCEPT !.pc = "sent"] ELSE job[o]]
    BY <1>9, <2>1 DEF RecordWritten
  <2>3. CASE p # r.owner
    BY <2>2, <2>3 DEF JobMove
  <2>4. CASE p = r.owner
    <3>1. job[p].pc = "waiting"
      BY <2>1, <2>4, BridgeAssumption DEF BridgeTypeInv, QueuesInv, RecordsOK
    <3>2. /\ job'[p].pc = "sent" /\ job'[p].msg = job[p].msg
          /\ job'[p].tries = job[p].tries
      BY <1>0, <2>2, <2>4 DEF Job
    <3>3. QED BY <3>1, <3>2 DEF JobMove
  <2>5. QED BY <2>3, <2>4
<1>10. CASE ProcessEnds
  BY <1>10 DEF ProcessEnds, JobMove
<1>11. QED
  BY <1>0, <1>1, <1>3, <1>4, <1>5, <1>6, <1>7, <1>8, <1>9, <1>10
  DEF BridgeNext, Handle, Publish, Drain, Kafka, Process, MessageArrives, HandlerDone,
      ProducerStarts, ReplyLost, RecordExpires, KafkaChanges, MqttDisconnects,
      MqttConnects, ProcessStarts, vars, publishVars

LEMMA NextTries == ASSUME BridgeTypeInv, TriesOK, [BridgeNext]_vars PROVE TriesOK'
<1> SUFFICES ASSUME NEW p \in Publishers, job'[p].pc # "idle" PROVE job'[p].tries >= 1
  BY DEF TriesOK
<1>1. job[p].tries \in Nat /\ Idle.pc = "idle"
  BY DEF BridgeTypeInv, TypeOK, Job, Idle
<1>2. job[p].pc # "idle" => job[p].tries >= 1
  BY DEF TriesOK
<1>3. QED BY <1>1, <1>2, NextJobMove DEF JobMove

LEMMA QueueType ==
    ASSUME BridgeTypeInv
    PROVE  /\ Queue \in Seq(Record) /\ Len(Queue) \in Nat /\ DOMAIN Queue = 1 .. Len(Queue)
           /\ \A i \in DOMAIN Queue : /\ Queue[i] \in Record
                                      /\ Queue[i].msg \in Event \ Malformed
<1>1. "telemetry" \in Topics /\ QueuesType /\ RecordsOK
  BY DEF Topics, BridgeTypeInv, QueuesInv
<1>2. /\ Queue \in Seq(Record) /\ Len(Queue) \in Nat /\ DOMAIN Queue = 1 .. Len(Queue)
      /\ \A i \in DOMAIN Queue : Queue[i] \in Record
  BY <1>1, QueueDomain DEF Queue
<1>3. \A i \in DOMAIN Queue : TopicOf(Queue[i].msg) = "telemetry" /\ Queue[i].msg \in Event
  BY <1>1, <1>2 DEF RecordsOK, Queue, Record
<1>4. QED BY <1>2, <1>3 DEF TopicOf

LEMMA SendingQueue ==
    ASSUME BridgeTypeInv, NEW p \in Publishers, NEW m, NEW try, Sending(p, m, try)
    PROVE  IF m \in Malformed THEN Queue' = Queue
           ELSE Queue' = Append(Queue, [msg |-> m, owner |-> p])
<1>1. PICK t, r : t = TopicOf(m) /\ r = [msg |-> m, owner |-> p]
  OBVIOUS
<1>2. accumulator' = [accumulator EXCEPT ![t] = Append(accumulator[t], r)]
  BY <1>1 DEF Sending
<1>3. accumulator \in [Topics -> Seq(Record)] /\ "telemetry" \in Topics
  BY DEF BridgeTypeInv, TypeOK, Topics
<1>4. CASE m \in Malformed
  <2>1. t = "dlq"
    BY <1>1, <1>4 DEF TopicOf
  <2>2. QED BY <1>2, <1>3, <1>4, <2>1 DEF Queue
<1>5. CASE m \notin Malformed
  <2>1. t = "telemetry"
    BY <1>1, <1>5 DEF TopicOf
  <2>2. Queue' = Append(Queue, r)
    BY <1>2, <1>3, <2>1 DEF Queue
  <2>3. QED BY <1>1, <1>5, <2>2
<1>6. QED BY <1>4, <1>5

\* What comes new into the topic was the oldest record of the queue.
LEMMA NextLog ==
    ASSUME BridgeTypeInv, [BridgeNext]_vars, NEW f, InLog(f)', ~InLog(f)
    PROVE  1 \in DOMAIN Queue /\ Queue[1].msg = f
<1>1. PICK t \in Topics : RecordWritten(t) \/ ReplyLost(t)
  <2>1. log' # log
    BY DEF InLog
  <2>2. QED
    BY <2>1 DEF BridgeNext, Handle, Publish, Drain, Kafka, Process, MessageArrives,
      StartHandler, HandlerDone, AttemptFails, Retry, DrainStarts, DrainGoesOn,
      ProducerStarts, RecordExpires, KafkaChanges, MqttDisconnects, MqttConnects,
      ProcessEnds, ProcessStarts, vars, kafkaVars
<1>2. PICK m : m = Head(accumulator[t]).msg
  OBVIOUS
<1>3. log' = [log EXCEPT ![t] = Append(log[t], m)] /\ accumulator[t] # <<>>
  BY <1>1, <1>2 DEF RecordWritten, ReplyLost
<1>4. /\ 1 \in DOMAIN accumulator[t] /\ m = accumulator[t][1].msg /\ m \in Event
  BY <1>2, <1>3, FirstRecord DEF BridgeTypeInv, QueuesInv, Record
<1>5. log \in [Topics -> Seq(Event)] /\ "telemetry" \in Topics /\ log[t] \in Seq(Event)
  BY DEF BridgeTypeInv, TypeOK, Topics
<1>6. t = "telemetry"
  BY <1>3, <1>5 DEF InLog
<1>7. Range(Append(log[t], m)) = Range(log[t]) \cup {m}
  BY <1>4, <1>5, RangeAppend
<1>8. Range(log'[t]) = Range(log[t]) \cup {m}
  BY <1>3, <1>5, <1>7
<1>9. f = m
  BY <1>6, <1>8 DEF InLog
<1>10. QED BY <1>4, <1>6, <1>9 DEF Queue

\* The drain task reads the spool.
LEMMA NextDrainList ==
    ASSUME BridgeTypeInv, [BridgeNext]_vars
    PROVE  Range(drainList') \subseteq Range(drainList) \cup Range(spool)
<1>0. drainList \in Seq(Event) /\ spool \in Seq(Event)
  BY DEF BridgeTypeInv, TypeOK
<1>1. CASE drainList' = drainList \/ drainList' = <<>>
  BY <1>1 DEF Range
<1>2. ASSUME NEW p, NEW m, GiveUp(p, m) PROVE drainList' = drainList \/ drainList' = <<>>
  BY <1>2 DEF GiveUp
<1>3. CASE DrainStarts
  <2>1. PICK n : n = IF Len(spool) < DrainBatch THEN Len(spool) ELSE DrainBatch
    OBVIOUS
  <2>2. /\ n \in Nat /\ n <= Len(spool) /\ \A i \in 2 .. n : i \in DOMAIN spool
        /\ 2 \in Int /\ n \in Int /\ \A i \in 2 .. n : spool[i] \in Range(spool)
    BY <1>0, <2>1, BridgeAssumption, LenProperties DEF Range
  <2>3. SubSeq(spool, 2, n) \in Seq(Range(spool))
    BY <2>2, SubSeqProperties
  <2>4. drainList' \in Seq(Range(spool))
    BY <1>3, <2>1, <2>3 DEF DrainStarts
  <2>5. QED BY <2>4, RangeOfSeq
<1>4. CASE DrainGoesOn
  BY <1>0, <1>4, RangeTail DEF DrainGoesOn
<1>5. CASE ProcessEnds
  BY <1>1, <1>5 DEF ProcessEnds
<1>6. QED
  BY <1>1, <1>2, <1>3, <1>4, <1>5
  DEF BridgeNext, Handle, Publish, Drain, Kafka, Process, MessageArrives, StartHandler,
      HandlerDone, AttemptFails, Retry, ProducerStarts, RecordWritten, ReplyLost,
      RecordExpires, KafkaChanges, MqttDisconnects, MqttConnects, ProcessStarts, vars,
      publishVars

\* What comes new to someone who may send it was the next to be started.
LEMMA NextOutside ==
    ASSUME BridgeTypeInv, [BridgeNext]_vars, NEW f \in Event, Outside(f)', ~Outside(f)
    PROVE  scheduled # <<>> /\ f = Head(scheduled)
<1>0. /\ scheduled \in Seq(Event) /\ spool \in Seq(Event) /\ f # NoEvent
      /\ f \notin Range(spool) /\ f \notin Range(drainList) /\ \A p \in Publishers : job[p].msg # f
  BY BridgeAssumption DEF BridgeTypeInv, TypeOK, Outside, InSpool
<1>1. ASSUME NEW p \in Publishers, job'[p].msg = f PROVE scheduled # <<>> /\ f = Head(scheduled)
  <2>1. Idle.msg = NoEvent
    BY DEF Idle
  <2>2. QED BY <1>0, <1>1, <2>1, NextJobMove DEF JobMove
\* A message given up is one of those.
<1>2. ASSUME NEW p \in Publishers, NEW m \in Event, GiveUp(p, m), f \in Range(spool')
      PROVE  f = m
  <2>1. spool' = spool \/ spool' = Spooled(m)
    BY <1>2, GivenUp
  <2>2. PICK s : s = Spooled(m)
    OBVIOUS
  <2>3. Range(s) = Range(spool) \cup {m}
    BY <1>0, <2>2, SpooledProperties
  <2>4. QED BY <1>0, <1>2, <2>1, <2>2, <2>3
<1>3. ASSUME f \in Range(spool') PROVE scheduled # <<>> /\ f = Head(scheduled)
  <2>1. spool' # spool
    BY <1>0, <1>3
  <2>2. ASSUME NEW h \in Handlers, StartHandler(h) PROVE scheduled # <<>> /\ f = Head(scheduled)
    <3>1. PICK m : m = Head(scheduled)
      OBVIOUS
    <3>2. m \in Event /\ scheduled # <<>> /\ h \in Publishers
      BY <1>0, <2>2, <3>1, RangeTail DEF StartHandler, Publishers
    <3>3. GiveUp(h, m)
      BY <2>1, <2>2, <3>1 DEF StartHandler
    <3>4. QED BY <1>2, <1>3, <3>1, <3>2, <3>3
  <2>3. ASSUME NEW p \in Publishers, AttemptFails(p) PROVE FALSE
    <3>1. PICK m : m = job[p].msg
      OBVIOUS
    <3>2. m \in Event
      BY <2>3, <3>1 DEF AttemptFails, BridgeTypeInv, TypeOK, QueuesInv, JobsOK, Job
    <3>3. GiveUp(p, m)
      BY <2>1, <2>3, <3>1 DEF AttemptFails
    <3>4. QED BY <1>0, <1>2, <1>3, <3>1, <3>2, <3>3
  <2>4. CASE DrainGoesOn
    <3>1. Range(spool') \subseteq Range(spool)
      BY <1>0, <2>4, RemovedProperties DEF DrainGoesOn
    <3>2. QED BY <1>0, <1>3, <3>1
  <2>5. QED
    BY <2>1, <2>2, <2>3, <2>4
    DEF BridgeNext, Handle, Publish, Drain, Kafka, Process, MessageArrives, HandlerDone,
        Retry, DrainStarts, ProducerStarts, RecordWritten, ReplyLost, RecordExpires,
        KafkaChanges, MqttDisconnects, MqttConnects, ProcessEnds, ProcessStarts, vars,
        publishVars
<1>4. QED BY <1>0, <1>1, <1>3, NextDrainList DEF Outside, InSpool

\* What the spool or the topic has, one of them keeps.
LEMMA NextKept ==
    ASSUME DeliveryInv, [BridgeNext]_vars, NEW e, InSpool(e) \/ InLog(e)
    PROVE  InSpool(e)' \/ InLog(e)'
<1>1. ASSUME InLog(e) PROVE InLog(e)'
  <2>1. "telemetry" \in Topics
    BY DEF Topics
  <2>2. QED BY <1>1, <2>1, LogGrows DEF InLog, DeliveryInv
<1>2. ASSUME InSpool(e), ~InSpool(e)' PROVE InLog(e)
  <2>1. e \in Range(spool) /\ e \notin Range(spool')
    BY <1>2 DEF InSpool
  <2>2. e \notin Malformed /\ Written(e)
    BY <2>1, SpoolLoses DEF DeliveryInv, SpoolOK
  <2>3. QED BY <2>2 DEF Written, TopicOf, InLog
<1>3. QED BY <1>1, <1>2

LEMMA NextDrain == ASSUME DeliveryInv, DrainOK, [BridgeNext]_vars PROVE DrainOK'
<1> SUFFICES ASSUME NEW e \in Range(drainList') \cup {job'[Drainer].msg}, e # NoEvent
             PROVE  InSpool(e)' \/ InLog(e)'
  BY DEF DrainOK, InSpool, InLog
<1>1. BridgeTypeInv /\ Drainer \in Publishers /\ Drainer \notin Handlers
  BY BridgeAssumption DEF DeliveryInv, Publishers
<1>2. e \in Range(drainList) \cup Range(spool) \cup {job[Drainer].msg}
  <2>1. CASE e \in Range(drainList')
    BY <1>1, <2>1, NextDrainList
  <2>2. CASE e = job'[Drainer].msg
    <3>1. Idle.msg = NoEvent
      BY DEF Idle
    <3>2. JobMove(Drainer)
      BY <1>1, NextJobMove
    <3>3. QED BY <1>1, <2>2, <3>1, <3>2 DEF JobMove
  <2>3. QED BY <2>1, <2>2
<1>3. InSpool(e) \/ InLog(e)
  BY <1>2 DEF DrainOK, InSpool
<1>4. QED BY <1>3, NextKept

LEMMA FailedIsTroubled ==
    ASSUME DeliveryInv, DrainOK, [BridgeNext]_vars, NEW p \in Publishers, AttemptFails(p),
           NEW e \in Event \ Malformed, job[p].msg = e
    PROVE  Troubled(e)' \/ InLog(e)'
<1>1. CASE job[p].tries < MaxTries
  <2>1. job' = [job EXCEPT ![p].pc = "backoff"] /\ job \in [Publishers -> Job]
    BY <1>1 DEF AttemptFails, DeliveryInv, BridgeTypeInv, TypeOK
  <2>2. job'[p].pc = "backoff" /\ job'[p].msg = e
    BY <2>1 DEF Job
  <2>3. QED BY <2>2 DEF Troubled
<1>2. CASE ~(job[p].tries < MaxTries)
  <2>1. GiveUp(p, e)
    BY <1>2 DEF AttemptFails
  <2>2. p = Drainer \/ e \in Range(spool')
    BY <2>1, GivenUp DEF DeliveryInv
  <2>3. CASE p = Drainer
    <3>1. e # NoEvent
      BY BridgeAssumption
    <3>2. InSpool(e) \/ InLog(e)
      BY <2>3, <3>1 DEF DrainOK
    <3>3. QED BY <3>2, NextKept DEF Troubled
  <2>4. QED BY <2>2, <2>3 DEF Troubled, InSpool
<1>3. QED BY <1>1, <1>2

\* Trouble lasts until the event is in the topic.
LEMMA NextTroubled ==
    ASSUME PlacesInv, [BridgeNext]_vars, NEW e \in Event \ Malformed, Troubled(e) \/ InLog(e)
    PROVE  Troubled(e)' \/ InLog(e)' \/ e \in excused'
<1> USE DEF PlacesInv, DeliveryInv
<1>1. CASE InSpool(e) \/ InLog(e)
  BY <1>1, NextKept DEF Troubled
<1>2. ASSUME NEW p \in Publishers, job[p].msg = e, job[p].tries > 1 \/ job[p].pc = "backoff"
      PROVE  Troubled(e)' \/ InLog(e)' \/ e \in excused'
  <2>0. e # NoEvent /\ job[p].pc # "idle" /\ job[p].tries \in Nat /\ job[p].tries >= 1
    BY <1>2, BridgeAssumption DEF BridgeTypeInv, QueuesInv, JobsOK, TriesOK, TypeOK, Job
  <2>1. CASE p = Drainer
    <3>1. InSpool(e) \/ InLog(e)
      BY <1>2, <2>0, <2>1 DEF DrainOK
    <3>2. QED BY <1>1, <3>1
  <2>2. CASE job[p].pc = "sent"
    <3>1. InLog(e)
      BY <1>2, <2>2 DEF SentOK, Written, TopicOf, InLog
    <3>2. QED BY <1>1, <3>1
  <2>3. CASE p # Drainer /\ job[p].pc # "sent" /\ job'[p] = Idle
    <3>1. JobStep(p) /\ job'[p].msg # e /\ job'[p].pc # "sent"
      BY <2>0, <2>3, NextJob DEF Idle
    <3>2. e \in Range(spool') \cup excused'
      BY <1>2, <2>0, <2>3, <3>1 DEF JobStep
    <3>3. QED BY <3>2 DEF Troubled, InSpool
  <2>4. CASE job[p].pc # "sent" /\ job'[p] # Idle
    <3>1. JobMove(p)
      BY NextJobMove
    <3>2. /\ job'[p].msg = e /\ job'[p].tries \in Nat
          /\ job'[p].tries > 1 \/ job'[p].pc = "backoff"
      BY <1>2, <2>0, <2>4, <3>1 DEF JobMove
    <3>3. QED BY <3>2 DEF Troubled
  <2>5. QED BY <2>1, <2>2, <2>3, <2>4
<1>3. QED BY <1>1, <1>2 DEF Troubled

\* A record leaves the queue, or loses its owner, only when it had none, is written or
\* its message is in trouble.
QueueMove ==
    \/ Queue' = Queue
    \/ \E p \in Publishers, m \in Event :
          /\ Queue' = Append(Queue, [msg |-> m, owner |-> p])
          /\ Outside(m) \/ (scheduled # <<>> /\ m = Head(scheduled))
    \/ \E i \in DOMAIN Queue, m \in Event :
          /\ m = Queue[i].msg
          /\ Queue[i].owner = NoEvent \/ Troubled(m)' \/ InLog(m)'
          /\ \/ Queue' = Without(Queue, i)
             \/ Queue' = Disowned(Queue, i)

LEMMA NextQueue ==
    ASSUME PlacesInv, [BridgeNext]_vars, ~ProcessEnds
    PROVE  QueueMove
<1> USE DEF PlacesInv, DeliveryInv
<1>0. /\ scheduled \in Seq(Event) /\ drainList \in Seq(Event) /\ spool \in Seq(Event)
      /\ accumulator \in [Topics -> Seq(Record)] /\ "telemetry" \in Topics
      /\ Handlers \subseteq Publishers /\ Drainer \in Publishers
  BY DEF BridgeTypeInv, TypeOK, Publishers, Topics
<1>1. CASE accumulator' = accumulator
  BY <1>1 DEF QueueMove, Queue
<1>2. ASSUME NEW p \in Publishers, NEW m \in Event, NEW try, Sending(p, m, try),
             Outside(m) \/ (scheduled # <<>> /\ m = Head(scheduled))
      PROVE  QueueMove
  <2>1. Queue' = Queue \/ Queue' = Append(Queue, [msg |-> m, owner |-> p])
    BY <1>2, SendingQueue
  <2>2. QED BY <1>2, <2>1 DEF QueueMove
<1>3. ASSUME NEW h \in Handlers, StartHandler(h) PROVE QueueMove
  <2>1. PICK m : m = Head(scheduled)
    OBVIOUS
  <2>2. m \in Event /\ scheduled # <<>>
    BY <1>0, <1>3, <2>1, RangeTail DEF StartHandler
  <2>3. CASE producerReady
    <3>1. Sending(h, m, 1)
      BY <1>3, <2>1, <2>3 DEF StartHandler
    <3>2. QED BY <1>0, <1>2, <2>1, <2>2, <3>1
  <2>4. CASE ~producerReady
    BY <1>1, <1>3, <2>4 DEF StartHandler
  <2>5. QED BY <2>3, <2>4
<1>4. ASSUME NEW p \in Publishers, AttemptFails(p) PROVE QueueMove
  <2>1. PICK m, t, i : /\ m = job[p].msg /\ t = TopicOf(m)
                       /\ i = CHOOSE k \in DOMAIN accumulator[t] : accumulator[t][k].owner = p
    OBVIOUS
  <2>2. job[p].pc = "waiting" /\ m \in Event /\ t \in Topics
    BY <1>4, <2>1, TopicOfType
    DEF AttemptFails, BridgeTypeInv, TypeOK, QueuesInv, JobsOK, Job
  <2>3. i \in DOMAIN accumulator[t] /\ accumulator[t][i].owner = p
    BY <2>1, <2>2 DEF BridgeTypeInv, QueuesInv, WaitingOK
  <2>4. accumulator[t][i].msg = m
    <3>1. p # NoEvent
      BY BridgeAssumption
    <3>2. RecordsOK
      BY DEF BridgeTypeInv, QueuesInv
    <3>3. job[p].msg = accumulator[t][i].msg
      BY <2>2, <2>3, <3>1, <3>2 DEF RecordsOK
    <3>4. QED BY <2>1, <3>3
  <2>5. \/ accumulator' = [accumulator EXCEPT ![t] = [accumulator[t] EXCEPT ![i].owner = NoEvent]]
        \/ accumulator' = [accumulator EXCEPT ![t] = Without(accumulator[t], i)]
    BY <1>4, <2>1 DEF AttemptFails, Abandoned
  <2>6. CASE t # "telemetry"
    <3>1. Queue' = Queue
      BY <1>0, <2>2, <2>5, <2>6 DEF Queue
    <3>2. QED BY <3>1 DEF QueueMove
  <2>7. CASE t = "telemetry"
    <3>1. m \notin Malformed
      BY <2>1, <2>7 DEF TopicOf
    <3>2. Troubled(m)' \/ InLog(m)'
      BY <1>4, <2>1, <2>2, <3>1, FailedIsTroubled
    <3>3. i \in DOMAIN Queue /\ Queue[i].msg = m
      BY <2>3, <2>4, <2>7 DEF Queue
    <3>4. Queue' = Without(Queue, i) \/ Queue' = Disowned(Queue, i)
      BY <1>0, <2>5, <2>7 DEF Queue, Disowned
    <3>5. QED BY <2>2, <3>2, <3>3, <3>4 DEF QueueMove
  <2>8. QED BY <2>6, <2>7
<1>5. ASSUME NEW p \in Publishers, Retry(p) PROVE QueueMove
  <2>1. PICK m, try : m = job[p].msg /\ try = job[p].tries + 1
    OBVIOUS
  <2>2. Sending(p, m, try) /\ m \in Event
    BY <1>5, <2>1 DEF Retry, BridgeTypeInv, TypeOK, QueuesInv, JobsOK, Job
  <2>3. QED BY <1>2, <2>1, <2>2 DEF Outside
<1>6. CASE DrainStarts
  <2>1. PICK m : m = Head(spool)
    OBVIOUS
  <2>2. Sending(Drainer, m, 1) /\ m \in Range(spool) /\ m \in Event
    BY <1>0, <1>6, <2>1, RangeTail DEF DrainStarts
  <2>3. QED BY <1>0, <1>2, <2>2 DEF Outside, InSpool
<1>7. CASE DrainGoesOn
  <2>1. CASE drainList = <<>>
    BY <1>1, <1>7, <2>1 DEF DrainGoesOn
  <2>2. CASE drainList # <<>>
    <3>1. PICK m : m = Head(drainList)
      OBVIOUS
    <3>2. Sending(Drainer, m, 1) /\ m \in Range(drainList) /\ m \in Event
      BY <1>0, <1>7, <2>2, <3>1, RangeTail DEF DrainGoesOn
    <3>3. QED BY <1>0, <1>2, <3>2 DEF Outside
  <2>3. QED BY <2>1, <2>2
<1>8. ASSUME NEW t \in Topics, RecordWritten(t) \/ RecordExpires(t) PROVE QueueMove
  <2>1. /\ 1 \in DOMAIN accumulator[t]
        /\ Head(accumulator[t]) = accumulator[t][1]
        /\ accumulator' = [accumulator EXCEPT ![t] = Without(accumulator[t], 1)]
    BY <1>8, FirstRecord DEF RecordWritten, RecordExpires, BridgeTypeInv, QueuesInv
  <2>2. CASE t # "telemetry"
    <3>1. Queue' = Queue
      BY <1>0, <2>1, <2>2 DEF Queue
    <3>2. QED BY <3>1 DEF QueueMove
  <2>3. CASE t = "telemetry"
    <3>1. 1 \in DOMAIN Queue /\ Queue' = Without(Queue, 1)
      BY <1>0, <2>1, <2>3 DEF Queue
    <3>2. CASE RecordExpires(t)
      <4>1. Queue[1].owner = NoEvent /\ Queue[1].msg \in Event
        BY <2>1, <2>3, <3>1, <3>2, QueueType DEF RecordExpires, Queue
      <4>2. QED BY <3>1, <4>1 DEF QueueMove
    <3>3. CASE RecordWritten(t)
      <4>1. PICK m : m = Queue[1].msg
        OBVIOUS
      <4>2. log' = [log EXCEPT ![t] = Append(log[t], m)]
        BY <2>1, <2>3, <3>3, <4>1 DEF RecordWritten, Queue
      <4>3. log \in [Topics -> Seq(Event)] /\ log[t] \in Seq(Event) /\ m \in Event
        BY <3>1, <4>1, QueueType DEF BridgeTypeInv, TypeOK
      <4>4. Range(log'[t]) = Range(log[t]) \cup {m}
        BY <4>2, <4>3, RangeAppend
      <4>5. InLog(m)'
        BY <2>3, <4>4 DEF InLog
      <4>6. QED BY <3>1, <4>1, <4>3, <4>5 DEF QueueMove
    <3>4. QED BY <1>8, <3>2, <3>3
  <2>4. QED BY <2>2, <2>3
<1>9. QED
  BY <1>1, <1>3, <1>4, <1>5, <1>6, <1>7, <1>8
  DEF BridgeNext, Handle, Publish, Drain, Kafka, Process, MessageArrives, HandlerDone,
      ProducerStarts, ReplyLost, KafkaChanges, MqttDisconnects, MqttConnects,
      ProcessStarts, vars, publishVars

\* A message is scheduled behind the others; the first of them is sent or spooled.
ScheduleMove ==
    \/ scheduled' = scheduled
    \/ \E g \in Event : g \in puback' /\ scheduled' = Append(scheduled, g)
    \/ /\ scheduled # <<>> /\ scheduled' = Tail(scheduled)
       /\ \A e \in Event \ Malformed : e = Head(scheduled) => Queued(e)' \/ InSpool(e)'

LEMMA NextSchedule ==
    ASSUME BridgeTypeInv, [BridgeNext]_vars, ~ProcessEnds
    PROVE  ScheduleMove
<1>1. CASE scheduled' = scheduled
  BY <1>1 DEF ScheduleMove
<1>2. ASSUME NEW g \in Event, MessageArrives(g) PROVE ScheduleMove
  BY <1>2 DEF MessageArrives, ScheduleMove
<1>3. ASSUME NEW h \in Handlers, StartHandler(h) PROVE ScheduleMove
  <2>1. scheduled # <<>> /\ scheduled' = Tail(scheduled) /\ h \in Publishers /\ h # Drainer
    BY <1>3, BridgeAssumption DEF StartHandler, Publishers
  <2>2. ASSUME NEW e \in Event \ Malformed, e = Head(scheduled) PROVE Queued(e)' \/ InSpool(e)'
    <3>1. CASE producerReady
      <4>1. PICK r : r = [msg |-> e, owner |-> h]
        OBVIOUS
      <4>2. r \in Record /\ r.msg = e /\ Queue \in Seq(Record)
        BY <2>1, <4>1, QueueType DEF Record
      <4>3. Sending(h, e, 1)
        BY <1>3, <2>2, <3>1 DEF StartHandler
      <4>4. Queue' = Append(Queue, r)
        BY <2>1, <4>1, <4>3, SendingQueue
      <4>5. Has(Append(Queue, r), e)
        BY <4>2, AppendOrder
      <4>6. Has(Queue', e)
        BY <4>4, <4>5
      <4>7. QED BY <4>6 DEF Queued, Has
    <3>2. CASE ~producerReady
      <4>1. GiveUp(h, e)
        BY <1>3, <2>2, <3>2 DEF StartHandler
      <4>2. QED BY <2>1, <4>1, GivenUp DEF InSpool
    <3>3. QED BY <3>1, <3>2
  <2>3. QED BY <2>1, <2>2 DEF ScheduleMove
<1>4. QED
  BY <1>1, <1>2, <1>3
  DEF BridgeNext, Handle, Publish, Drain, Kafka, Process, HandlerDone, AttemptFails, Retry,
      DrainStarts, DrainGoesOn, ProducerStarts, RecordWritten, ReplyLost, RecordExpires,
      KafkaChanges, MqttDisconnects, MqttConnects, ProcessStarts, vars, publishVars

LEMMA NextAccepted ==
    ASSUME PlacesInv, [BridgeNext]_vars
    PROVE  AcceptedOK'
<1> USE DEF PlacesInv, DeliveryInv
<1>0. /\ scheduled \in Seq(Event) /\ excused \subseteq excused' /\ puback \subseteq puback'
      /\ BridgeTypeInv' /\ puback' \subseteq accepted' /\ accepted \subseteq accepted'
  <2>1. scheduled \in Seq(Event) /\ excused \subseteq excused' /\ BridgeTypeInv'
    BY NextAcknowledged, NextBridgeType DEF BridgeTypeInv, TypeOK
  <2>2. puback \subseteq puback' /\ accepted \subseteq accepted'
    BY DEF BridgeNext, Handle, Publish, Drain, Kafka, Process, MessageArrives, StartHandler,
        HandlerDone, AttemptFails, Retry, DrainStarts, DrainGoesOn, ProducerStarts,
        RecordWritten, ReplyLost, RecordExpires, KafkaChanges, MqttDisconnects,
        MqttConnects, ProcessEnds, ProcessStarts, vars, brokerVars
  <2>3. QED BY <2>1, <2>2 DEF BridgeTypeInv, TypeOK
<1>1. accepted' \subseteq puback' \cup excused'
  <2>1. UNCHANGED accepted \/ \E e \in Event : MessageArrives(e)
    BY DEF BridgeNext, Handle, Publish, Drain, Kafka, Process, StartHandler,
        HandlerDone, AttemptFails, Retry, DrainStarts, DrainGoesOn, ProducerStarts,
        RecordWritten, ReplyLost, RecordExpires, KafkaChanges, MqttDisconnects,
        MqttConnects, ProcessEnds, ProcessStarts, vars, brokerVars
  <2>2. CASE UNCHANGED accepted
    BY <1>0, <2>2 DEF AcceptedOK
  <2>3. ASSUME NEW e \in Event, MessageArrives(e) PROVE accepted' \subseteq puback' \cup excused'
    <3>1. accepted' = accepted \cup {e} /\ e \in puback' \cup excused'
      BY <2>3 DEF MessageArrives
    <3>2. QED BY <1>0, <3>1 DEF AcceptedOK
  <2>4. QED BY <2>1, <2>2, <2>3
<1>2. ASSUME NEW f \in Event \ Malformed, Placed(f)' PROVE f \in accepted'
  <2>1. CASE Placed(f)
    BY <1>0, <2>1 DEF AcceptedOK
  <2>2. CASE ~Placed(f)
    <3>1. ~InLog(f)'
      BY <2>2, NextLog DEF Placed, Queued, Has
    <3>2. f # Head(scheduled) \/ scheduled = <<>>
      BY <1>0, <2>2, RangeTail DEF Placed
    <3>3. ~Outside(f)'
      BY <2>2, <3>2, NextOutside DEF Placed
    <3>4. CASE ProcessEnds
      <4>1. scheduled' = <<>> /\ Queue' = <<>>
        BY <3>4 DEF ProcessEnds, Queue, Topics
      <4>2. ~Queued(f)' /\ f \notin Range(scheduled')
        BY <4>1 DEF Queued, Has, Range
      <4>3. QED BY <1>2, <3>1, <3>3, <4>2 DEF Placed
    <3>5. CASE ~ProcessEnds
      <4>1. ~Has(Queue, f) /\ Queue \in Seq(Record) /\ ~Outside(f)
        BY <2>2, QueueType DEF Placed, Queued
      <4>2. ~Has(Queue', f)
        <5>1. CASE Queue' = Queue
          BY <4>1, <5>1
        <5>2. ASSUME NEW p \in Publishers, NEW m \in Event, NEW r, r = [msg |-> m, owner |-> p],
                     Queue' = Append(Queue, r), Outside(m) \/ (scheduled # <<>> /\ m = Head(scheduled))
              PROVE  ~Has(Queue', f)
          <6>1. r \in Record /\ r.msg = m /\ m # f
            BY <3>2, <4>1, <5>2 DEF Record
          <6>2. QED BY <4>1, <5>2, <6>1, AppendOrder
        <5>3. ASSUME NEW i \in DOMAIN Queue,
                     Queue' = Without(Queue, i) \/ Queue' = Disowned(Queue, i)
              PROVE  ~Has(Queue', f)
          <6>1. Queue[i].msg # f
            BY <4>1 DEF Has
          <6>2. ~Has(Without(Queue, i), f)
            BY <4>1, <6>1, WithoutOrder
          <6>3. ~Has(Disowned(Queue, i), f)
            BY <4>1, DisownedOrder
          <6>4. QED BY <5>3, <6>2, <6>3
        <5>4. QED BY <3>5, <5>1, <5>2, <5>3, NextQueue DEF QueueMove
      <4>3. f \in Range(scheduled')
        BY <1>2, <3>1, <3>3, <4>2 DEF Placed, Queued, Has
      <4>4. CASE scheduled' = scheduled
        BY <2>2, <4>3, <4>4 DEF Placed
      <4>5. ASSUME NEW g \in Event, g \in puback', scheduled' = Append(scheduled, g)
            PROVE  f \in accepted'
        <5>1. Range(scheduled') = Range(scheduled) \cup {g}
          BY <1>0, <4>5, RangeAppend
        <5>2. QED BY <1>0, <2>2, <4>3, <4>5, <5>1 DEF Placed
      <4>6. CASE scheduled # <<>> /\ scheduled' = Tail(scheduled)
        <5>1. Range(scheduled') \subseteq Range(scheduled)
          BY <1>0, <4>6, RangeTail
        <5>2. QED BY <2>2, <4>3, <5>1 DEF Placed
      <4>7. QED BY <3>5, <4>4, <4>5, <4>6, NextSchedule DEF ScheduleMove
    <3>6. QED BY <3>4, <3>5
  <2>3. QED BY <2>1, <2>2
<1>3. QED BY <1>1, <1>2 DEF AcceptedOK

LEMMA NextPlaces == ASSUME PlacesInv, [BridgeNext]_vars PROVE PlacesInv'
BY NextDelivery, NextHeldInv, NextTries, NextDrain, NextAccepted DEF PlacesInv, DeliveryInv

\* An event on its way without trouble waits for its coroutine, or a first attempt at it
\* is in the queue.
LEMMA SteadyIsPlaced ==
    ASSUME PlacesInv, NEW e \in Event \ Malformed, Steady(e)
    PROVE  e \in Range(scheduled) \/ Queued(e)
<1> USE DEF PlacesInv, DeliveryInv
<1>1. Held(e)
  BY DEF Steady, HeldInv
<1>2. InProcess(e)
  BY <1>1 DEF Held, Steady, Troubled
<1>3. ASSUME NEW h \in Handlers, job[h].msg = e PROVE Queued(e)
  <2>1. h \in Publishers /\ e # NoEvent
    BY BridgeAssumption DEF Publishers
  <2>2. job[h].pc \in {"idle", "waiting", "backoff", "sent"}
    BY <2>1 DEF BridgeTypeInv, TypeOK, Job
  <2>3. job[h].pc # "idle"
    BY <1>3, <2>1 DEF BridgeTypeInv, QueuesInv, JobsOK
  <2>4. job[h].pc # "sent"
    BY <1>3, <2>1 DEF SentOK, Written, TopicOf, Steady, InLog
  <2>5. job[h].pc # "backoff"
    BY <1>3, <2>1 DEF Steady, Troubled
  <2>6. TopicOf(e) = "telemetry" /\ "telemetry" \in Topics
    BY DEF TopicOf, Topics
  <2>7. PICK i \in DOMAIN Queue : Queue[i].owner = h
    BY <1>3, <2>1, <2>2, <2>3, <2>4, <2>5, <2>6
    DEF BridgeTypeInv, QueuesInv, WaitingOK, Queue
  <2>8. h # NoEvent /\ RecordsOK
    BY <2>1, BridgeAssumption DEF BridgeTypeInv, QueuesInv
  <2>9. job[h].msg = Queue[i].msg
    BY <2>6, <2>7, <2>8 DEF RecordsOK, Queue
  <2>10. QED BY <1>3, <2>7, <2>9 DEF Queued, Has
<1>4. QED BY <1>2, <1>3 DEF InProcess

\* An event that is acknowledged for the first time is the last of its sensor so far.
LEMMA NewIsAhead ==
    ASSUME PlacesInv, [BridgeNext]_vars, NEW e \in Event \ Malformed, e \notin puback,
           Steady(e)'
    PROVE  Owned(e)' /\ \A f \in Event \ Malformed : Later(e, f) => Ahead(e, f)'
<1> USE DEF PlacesInv, DeliveryInv
<1>0. scheduled \in Seq(Event) /\ e \in puback' /\ e \notin excused' /\ excused \subseteq excused'
  BY NextAcknowledged DEF BridgeTypeInv, TypeOK, Steady
<1>1. MessageArrives(e)
  <2>1. PICK g \in Event : MessageArrives(g)
    BY <1>0
    DEF BridgeNext, Handle, Publish, Drain, Kafka, Process, StartHandler,
        HandlerDone, AttemptFails, Retry, DrainStarts, DrainGoesOn, ProducerStarts,
        RecordWritten, ReplyLost, RecordExpires, KafkaChanges, MqttDisconnects,
        MqttConnects, ProcessEnds, ProcessStarts, vars, brokerVars
  <2>2. puback' \subseteq puback \cup {g}
    BY <2>1 DEF MessageArrives
  <2>3. QED BY <1>0, <2>1, <2>2
<1>2. subscribed
  BY <1>0, <1>1 DEF MessageArrives
<1>3. /\ scheduled' = Append(scheduled, e)
      /\ UNCHANGED <<job, drainList, accumulator, spool, log>>
      /\ e \in accepted \/ \A f \in accepted : ~Later(e, f)
  BY <1>1, <1>2 DEF MessageArrives, kafkaVars
<1>4. e \notin accepted /\ ~Placed(e)
  BY <1>0 DEF AcceptedOK
<1>5. Owned(e)'
  BY <1>3, <1>4 DEF Owned, Placed, Queued, Has, Queue
<1>6. ASSUME NEW f \in Event \ Malformed, Later(e, f) PROVE Ahead(e, f)'
  <2>1. f \notin accepted
    BY <1>3, <1>4, <1>6
  <2>2. ~Placed(f)
    BY <2>1 DEF AcceptedOK
  <2>3. e[2] \in Int
    BY DEF Event
  <2>4. f # e
    BY <1>6, <2>3 DEF Later
  <2>5. Range(scheduled') = Range(scheduled) \cup {e}
    BY <1>0, <1>3, RangeAppend
  <2>6. f \notin Range(scheduled')
    BY <2>2, <2>4, <2>5 DEF Placed
  <2>7. ~InLog(f)' /\ ~Outside(f)' /\ ~Queued(f)'
    BY <1>3, <2>2 DEF Placed, InLog, Outside, InSpool, Queued, Queue, Has
  <2>8. Precedes(Queue, e, f)'
    BY <2>7 DEF Precedes, Queued, Has
  <2>9. InSchedule(e, f)'
    BY <2>6 DEF InSchedule, Range
  <2>10. QED BY <2>7, <2>8, <2>9 DEF Ahead
<1>7. QED BY <1>5, <1>6

\* The records of a steady event that leave the queue or are disowned: none.
LEMMA QueueKeeps ==
    ASSUME PlacesInv, [BridgeNext]_vars, NEW e \in Event \ Malformed, Steady(e)', Owned(e),
           QueueMove, NEW f
    PROVE  /\ Owned(e)'
           /\ Queued(e) => Queued(e)'
           /\ /\ scheduled # <<>> /\ f = Head(scheduled) => Queued(e)
              /\ Outside(f) => Queued(e)
              /\ Precedes(Queue, e, f)
              => Precedes(Queue', e, f)
<1> DEFINE Goes == (scheduled # <<>> /\ f = Head(scheduled)) \/ Outside(f) => Queued(e)
<1>0. Queue \in Seq(Record) /\ DOMAIN Queue = 1 .. Len(Queue) /\ Len(Queue) \in Nat
  BY QueueType DEF PlacesInv, DeliveryInv
<1>1. CASE Queue' = Queue
  BY <1>1 DEF Owned, Queued, Has
<1>2. ASSUME NEW p \in Publishers, NEW m \in Event, NEW r, r = [msg |-> m, owner |-> p],
             Queue' = Append(Queue, r), Outside(m) \/ (scheduled # <<>> /\ m = Head(scheduled))
      PROVE  /\ Owned(e)'
             /\ Queued(e) => Queued(e)'
             /\ Goes /\ Precedes(Queue, e, f) => Precedes(Queue', e, f)
  <2>1. r \in Record /\ r.msg = m /\ r.owner # NoEvent
    BY <1>2, BridgeAssumption DEF Record
  <2>2. PICK s : s = Append(Queue, r)
    OBVIOUS
  <2>3. /\ Has(s, e) <=> Has(Queue, e) \/ r.msg = e
        /\ Precedes(Queue, e, f) /\ (r.msg = f => Has(Queue, e)) => Precedes(s, e, f)
    BY <1>0, <2>1, <2>2, AppendOrder
  <2>4. \A k \in DOMAIN s : s[k] = r \/ (k \in DOMAIN Queue /\ s[k] = Queue[k])
    <3>1. /\ DOMAIN s = 1 .. Len(Queue) + 1
          /\ \A i \in 1 .. Len(Queue) : s[i] = Queue[i]
          /\ s[Len(Queue) + 1] = r
      BY <1>0, <2>1, <2>2, AppendProperties, LenProperties
    <3>2. QED BY <1>0, <3>1
  <2>5. \A k \in DOMAIN s : s[k].msg = e => s[k].owner # NoEvent
    BY <2>1, <2>4 DEF Owned
  <2>6. QED BY <1>2, <2>1, <2>2, <2>3, <2>5 DEF Owned, Queued, Has
<1>3. ASSUME NEW i \in DOMAIN Queue, NEW m \in Event, m = Queue[i].msg,
             Queue[i].owner = NoEvent \/ Troubled(m)' \/ InLog(m)',
             Queue' = Without(Queue, i) \/ Queue' = Disowned(Queue, i)
      PROVE  /\ Owned(e)'
             /\ Queued(e) => Queued(e)'
             /\ Goes /\ Precedes(Queue, e, f) => Precedes(Queue', e, f)
  <2>1. Queue[i].msg # e
    <3>1. ASSUME m = e PROVE FALSE
      BY <1>3, <3>1 DEF Owned, Steady, Troubled, InLog, InSpool
    <3>2. QED BY <1>3, <3>1
  <2>2. CASE Queue' = Without(Queue, i)
    <3>1. PICK s : s = Without(Queue, i)
      OBVIOUS
    <3>2. /\ Has(s, e) <=> Has(Queue, e)
          /\ Precedes(Queue, e, f) => Precedes(s, e, f)
      BY <1>0, <2>1, <3>1, WithoutOrder
    <3>3. i \in 1 .. Len(Queue)
      BY <1>0
    <3>4. PICK g : LeavesOut(s, Queue, i, g)
      BY <1>0, <3>1, <3>3, WithoutFrom
    <3>5. \A k \in DOMAIN s : s[k].msg = e => s[k].owner # NoEvent
      BY <3>4 DEF LeavesOut, Owned
    <3>6. QED BY <2>2, <3>1, <3>2, <3>5 DEF Owned, Queued, Has
  <2>3. CASE Queue' = Disowned(Queue, i)
    <3>1. PICK s : s = Disowned(Queue, i)
      OBVIOUS
    <3>2. /\ Has(s, e) <=> Has(Queue, e)
          /\ Precedes(Queue, e, f) => Precedes(s, e, f)
      BY <1>0, <3>1, DisownedOrder
    <3>3. Queue[i] \in Record
      BY <1>0, ElementOfSeq
    <3>4. /\ DOMAIN s = DOMAIN Queue /\ \A k \in DOMAIN Queue \ {i} : s[k] = Queue[k]
          /\ s[i].msg = Queue[i].msg
      BY <3>1, <3>3 DEF Disowned, Record
    <3>5. \A k \in DOMAIN s : s[k].msg = e => s[k].owner # NoEvent
      BY <2>1, <3>4 DEF Owned
    <3>6. QED BY <2>3, <3>1, <3>2, <3>5 DEF Owned, Queued, Has
  <2>4. QED BY <1>3, <2>2, <2>3
<1>4. QED BY <1>1, <1>2, <1>3 DEF QueueMove

\* An event that was acknowledged and is steady was so before.
LEMMA OldWasSteady ==
    ASSUME PlacesInv, [BridgeNext]_vars, NEW e \in Event \ Malformed, e \in puback, Steady(e)'
    PROVE  Steady(e) /\ QueueMove /\ ScheduleMove
<1> USE DEF PlacesInv, DeliveryInv
<1>1. Steady(e)
  <2>1. e \notin excused' /\ e \notin excused /\ ~InLog(e)' /\ ~Troubled(e)'
    BY NextAcknowledged DEF Steady
  <2>2. QED BY <2>1, NextTroubled DEF Steady
<1>2. ~ProcessEnds
  <2> SUFFICES ASSUME ProcessEnds PROVE FALSE
    OBVIOUS
  <2>1. InProcess(e)
    BY <1>1 DEF HeldInv, Held, Steady, Troubled
  <2>2. \A h \in Handlers : job[h].msg = e => job[h].pc # "idle"
    BY BridgeAssumption DEF BridgeTypeInv, QueuesInv, JobsOK, Publishers
  <2>3. e \in excused'
    BY <2>1, <2>2 DEF InProcess, ProcessEnds
  <2>4. QED BY <2>3 DEF Steady
<1>3. QED BY <1>1, <1>2, NextQueue, NextSchedule

\* It stays before the later events of its sensor.
LEMMA OldStaysAhead ==
    ASSUME PlacesInv, [BridgeNext]_vars, NEW e \in Event \ Malformed, Steady(e), Steady(e)',
           Owned(e), QueueMove, ScheduleMove, NEW f \in Event \ Malformed, Ahead(e, f)
    PROVE  Ahead(e, f)'
<1> USE DEF PlacesInv, DeliveryInv
<1>0. /\ scheduled \in Seq(Event) /\ Queue \in Seq(Record) /\ Len(Queue) \in Nat
      /\ DOMAIN Queue = 1 .. Len(Queue)
  BY QueueType DEF BridgeTypeInv, TypeOK
<1>1. scheduled # <<>> /\ f = Head(scheduled) => Queued(e)
  <2> SUFFICES ASSUME scheduled # <<>>, f = Head(scheduled) PROVE Queued(e)
    OBVIOUS
  <2>1. 1 \in DOMAIN scheduled /\ scheduled[1] = f /\ \A j \in DOMAIN scheduled : ~(j < 1)
    BY <1>0, EmptySeq, LenProperties
  <2>2. QED BY <2>1 DEF Ahead, InSchedule
<1>2. Outside(f) => Queued(e)
  BY DEF Ahead
<1>3. /\ Owned(e)'
      /\ Queued(e) => Queued(e)'
      /\ Precedes(Queue', e, f)
  BY <1>1, <1>2, QueueKeeps DEF Ahead
<1>4. Outside(f)' => Queued(e)'
  BY <1>1, <1>2, <1>3, NextOutside
<1>5. ~InLog(f)'
  <2> SUFFICES ASSUME InLog(f)' PROVE FALSE
    OBVIOUS
  <2>1. 1 \in DOMAIN Queue /\ Queue[1].msg = f
    BY NextLog DEF Ahead
  <2>2. PICK j \in DOMAIN Queue : j < 1
    BY <2>1 DEF Ahead, Precedes
  <2>3. QED BY <1>0, <2>2
<1>6. InSchedule(e, f)'
  <2>1. CASE Queued(e)
    BY <1>3, <2>1 DEF InSchedule, Queued
  <2>2. CASE ~Queued(e)
    <3>1. e \in Range(scheduled)
      BY <2>2, SteadyIsPlaced
    <3>2. \A i \in DOMAIN scheduled : scheduled[i] = f =>
             \E j \in DOMAIN scheduled : j < i /\ scheduled[j] = e
      BY <2>2 DEF Ahead, InSchedule
    <3>3. CASE scheduled' = scheduled
      BY <3>2, <3>3 DEF InSchedule
    <3>4. ASSUME NEW g \in Event, scheduled' = Append(scheduled, g) PROVE InSchedule(e, f)'
      <4>1. PICK n \in Nat : /\ DOMAIN scheduled = 1 .. n /\ DOMAIN scheduled' = 1 .. n + 1
                             /\ \A i \in 1 .. n : scheduled'[i] = scheduled[i]
        BY <1>0, <3>4, AppendProperties, LenProperties
      <4>2. PICK k \in 1 .. n : scheduled[k] = e
        BY <3>1, <4>1 DEF Range
      <4>3. /\ \A i \in 1 .. n + 1 : i \in 1 .. n \/ k < i
            /\ \A i \in 1 .. n : i \in 1 .. n + 1
        OBVIOUS
      <4>4. QED BY <3>2, <4>1, <4>2, <4>3 DEF InSchedule
    <3>5. CASE /\ scheduled # <<>> /\ scheduled' = Tail(scheduled)
               /\ \A o \in Event \ Malformed : o = Head(scheduled) => Queued(o)' \/ InSpool(o)'
      <4>1. PICK n \in Nat : /\ DOMAIN scheduled = 1 .. n /\ DOMAIN scheduled' = 1 .. n - 1
                             /\ Head(scheduled) = scheduled[1]
                             /\ \A i \in 1 .. n - 1 : scheduled'[i] = scheduled[i + 1]
        BY <1>0, <3>5, HeadTailProperties, LenProperties, EmptySeq
      <4>2. CASE scheduled[1] = e
        BY <3>5, <4>1, <4>2 DEF InSchedule, Steady, Troubled
      <4>3. CASE scheduled[1] # e
        <5> SUFFICES ASSUME NEW i \in 1 .. n - 1, scheduled'[i] = f
                     PROVE  \E j \in 1 .. n - 1 : j < i /\ scheduled'[j] = e
          BY <4>1 DEF InSchedule
        <5>1. i + 1 \in 1 .. n /\ scheduled[i + 1] = f
          BY <4>1
        <5>2. PICK j \in 1 .. n : j < i + 1 /\ scheduled[j] = e
          BY <3>2, <4>1, <5>1
        <5>3. j - 1 \in 1 .. n - 1 /\ j - 1 < i /\ (j - 1) + 1 = j
          BY <4>3, <5>2
        <5>4. scheduled'[j - 1] = e
          BY <4>1, <5>2, <5>3
        <5>5. QED BY <5>3, <5>4
      <4>4. QED BY <4>2, <4>3
    <3>6. QED BY <3>3, <3>4, <3>5 DEF ScheduleMove
  <2>3. QED BY <2>1, <2>2
<1>7. QED BY <1>3, <1>4, <1>5, <1>6 DEF Ahead

LEMMA NextOrder == ASSUME PlacesInv, OrderInv, [BridgeNext]_vars PROVE OrderInv'
<1> SUFFICES ASSUME NEW e \in Event \ Malformed, Steady(e)'
             PROVE  Owned(e)' /\ \A f \in Event \ Malformed : Later(e, f) => Ahead(e, f)'
  BY DEF OrderInv, Later
<1>1. CASE e \notin puback
  BY <1>1, NewIsAhead
<1>2. CASE e \in puback
  <2>1. Steady(e) /\ QueueMove /\ ScheduleMove
    BY <1>2, OldWasSteady
  <2>2. Owned(e) /\ \A f \in Event \ Malformed : Later(e, f) => Ahead(e, f)
    BY <2>1 DEF OrderInv
  <2>3. Owned(e)'
    BY <2>1, <2>2, QueueKeeps
  <2>4. QED BY <2>1, <2>2, <2>3, OldStaysAhead
<1>3. QED BY <1>1, <1>2

LEMMA InitPlaces == Init => PlacesInv /\ OrderInv
<1> SUFFICES ASSUME Init PROVE PlacesInv /\ OrderInv
  OBVIOUS
<1>1. DeliveryInv
  BY InitDelivery
<1>2. puback = {} /\ accepted = {} /\ drainList = <<>> /\ scheduled = <<>> /\ spool = <<>>
  BY DEF Init
<1>3. \A p \in Publishers : job[p] = Idle
  BY DEF Init
<1>4. Queue = <<>> /\ log["telemetry"] = <<>>
  BY DEF Init, Queue, Topics
<1>5. Range(<<>>) = {} /\ Drainer \in Publishers /\ Idle.msg = NoEvent /\ Idle.pc = "idle"
  BY DEF Range, Publishers, Idle
<1>6. \A f \in Event : ~Placed(f)
  BY <1>2, <1>3, <1>4, <1>5, BridgeAssumption
  DEF Placed, Outside, InSpool, Queued, Has, InLog
<1>7. AcceptedOK
  BY <1>2, <1>6 DEF AcceptedOK
<1>8. TriesOK /\ DrainOK
  BY <1>2, <1>3, <1>5 DEF TriesOK, DrainOK
<1>9. HeldInv /\ OrderInv
  BY <1>2 DEF HeldInv, OrderInv, Steady
<1>10. QED BY <1>1, <1>7, <1>8, <1>9 DEF PlacesInv

\* An event is overtaken in the topic by a later one of its sensor only after an attempt
\* at it failed: it is being retried or in the spool, however many coroutines, retries,
\* outages, late writes and deliveries there are.
THEOREM OvertakingNeedsTrouble == Spec => []OvertakenOnlyInTrouble
<1>1. Init => PlacesInv /\ OrderInv
  BY InitPlaces
<1>2. OrderInv => OvertakenOnlyInTrouble
  BY DEF OrderInv, OvertakenOnlyInTrouble, Steady, Troubled, Ahead
<1>3. QED BY <1>1, <1>2, NextPlaces, NextOrder, PTL DEF Spec

-----------------------------------------------------------------------------
(* The consumer.                                                            *)

PositionsOK ==
    \A t \in Topics : /\ committed[t] <= position[t]
                      /\ start[t] <= position[t]
                      /\ position[t] <= Len(log[t])

\* What a loop need not store again: all before its batch and, once the transaction has
\* been seen to commit, the batch.
Settled(t) == IF phase[t] = "persisting" THEN start[t] ELSE position[t]

StoredUpTo(t, n) == \A i \in 1 .. n : Consumer!Stored(log[t][i])

LoopsOK == \A t \in Topics : StoredUpTo(t, committed[t]) /\ StoredUpTo(t, Settled(t))

ConsumerInv == Consumer!TypeOK /\ PositionsOK /\ LoopsOK

PipelineInv == BridgeTypeInv /\ ConsumerInv

LEMMA SameSets == Consumer!Event = Event /\ Consumer!Topics = Topics
BY DEF Consumer!Event, Event, Consumer!Topics, Topics

\* The consumer only reads the topics, and of the bridge it sees nothing else.
LEMMA PipelineStepOfBridge == ASSUME [PipelineNext]_pipelineVars PROVE [BridgeNext]_vars
<1>1. CASE BridgeDoes(BridgeNext)
  BY <1>1 DEF BridgeDoes
<1>2. CASE ConsumerDoes(Consumer!ConsumerNext)
  <2>1. UNCHANGED log
    BY <1>2
    DEF ConsumerDoes, Consumer!ConsumerNext, Consumer!Loop, Consumer!Faulty, Consumer!Fetch,
        Consumer!Persist, Consumer!PersistUnseen, Consumer!CommitOffsets,
        Consumer!CommitFails, Consumer!Restart
  <2>2. UNCHANGED vars
    BY <1>2, <2>1 DEF ConsumerDoes, bridgeVars, vars, kafkaVars
  <2>3. QED BY <2>2
<1>3. CASE UNCHANGED pipelineVars
  BY <1>3 DEF pipelineVars
<1>4. QED BY <1>1, <1>2, <1>3 DEF PipelineNext

\* The bridge writes behind what the topics hold.
LEMMA LogExtends ==
    ASSUME BridgeTypeInv, [BridgeNext]_vars, NEW t \in Topics
    PROVE  /\ Len(log[t]) \in Nat /\ Len(log'[t]) \in Nat /\ Len(log[t]) <= Len(log'[t])
           /\ \A i \in 1 .. Len(log[t]) : log'[t][i] = log[t][i] /\ log[t][i] \in Event
<1>0. log[t] \in Seq(Event) /\ log \in [Topics -> Seq(Event)]
  BY DEF BridgeTypeInv, TypeOK
<1>1. Len(log[t]) \in Nat /\ \A i \in 1 .. Len(log[t]) : log[t][i] \in Event
  BY <1>0, LenProperties, ElementOfSeq
<1>2. CASE log' = log
  BY <1>1, <1>2
<1>3. ASSUME NEW u \in Topics, RecordWritten(u) \/ ReplyLost(u)
      PROVE  /\ Len(log'[t]) \in Nat /\ Len(log[t]) <= Len(log'[t])
             /\ \A i \in 1 .. Len(log[t]) : log'[t][i] = log[t][i]
  <2>1. PICK m : m = Head(accumulator[u]).msg
    OBVIOUS
  <2>2. log' = [log EXCEPT ![u] = Append(log[u], m)]
    BY <1>3, <2>1 DEF RecordWritten, ReplyLost
  <2>3. m \in Event
    BY <1>3, <2>1, FirstRecord
    DEF RecordWritten, ReplyLost, Record, BridgeTypeInv, QueuesInv
  <2>4. CASE t = u
    <3>1. log'[t] = Append(log[t], m)
      BY <1>0, <2>2, <2>4
    <3>2. /\ Len(Append(log[t], m)) = Len(log[t]) + 1
          /\ \A i \in 1 .. Len(log[t]) : Append(log[t], m)[i] = log[t][i]
      BY <1>0, <2>3, AppendProperties
    <3>3. QED BY <1>1, <3>1, <3>2
  <2>5. CASE t # u
    BY <1>0, <1>1, <2>2, <2>5
  <2>6. QED BY <2>4, <2>5
<1>4. UNCHANGED log \/ \E u \in Topics : RecordWritten(u) \/ ReplyLost(u)
  BY DEF BridgeNext, Handle, Publish, Drain, Kafka, Process, MessageArrives, StartHandler,
      HandlerDone, AttemptFails, Retry, DrainStarts, DrainGoesOn, ProducerStarts,
      RecordExpires, KafkaChanges, MqttDisconnects, MqttConnects, ProcessEnds,
      ProcessStarts, vars, kafkaVars
<1>5. QED BY <1>1, <1>2, <1>3, <1>4

LEMMA InitPipelineInv == PipelineInit => PipelineInv
<1> SUFFICES ASSUME PipelineInit PROVE PipelineInv
  OBVIOUS
<1> USE DEF PipelineInit, Consumer!ConsumerInit
<1>1. BridgeTypeInv
  BY InitBridgeType
<1>2. log \in [Topics -> Seq(Event)]
  BY <1>1 DEF BridgeTypeInv, TypeOK
<1>3. /\ committed \in [Topics -> Nat] /\ {position, start} \subseteq [Topics -> Nat]
      /\ phase \in [Topics -> {"fetching", "persisting", "committing"}]
      /\ faults \in 0 .. MaxFaults
  BY SameSets, PipelineAssumption
<1>4. Consumer!TypeOK
  BY <1>2, <1>3, SameSets DEF Consumer!TypeOK
<1>5. \A t \in Topics : Len(log[t]) \in Nat
  BY <1>2, LenProperties
<1>6. \A t \in Topics : committed[t] = 0 /\ start[t] = 0 /\ position[t] = 0
  BY SameSets
<1>7. PositionsOK
  BY <1>5, <1>6 DEF PositionsOK
<1>8. LoopsOK
  BY <1>6 DEF LoopsOK, StoredUpTo, Settled
<1>9. QED BY <1>1, <1>4, <1>7, <1>8 DEF PipelineInv, ConsumerInv

\* A step of the bridge, or none
LEMMA NextConsumerOfBridge ==
    ASSUME PipelineInv, [BridgeNext]_vars, BridgeTypeInv', UNCHANGED consumerVars
    PROVE  ConsumerInv'
<1> USE DEF consumerVars
<1>1. log' \in [Topics -> Seq(Event)]
  BY DEF BridgeTypeInv, TypeOK
<1>2. Consumer!TypeOK'
  BY <1>1, SameSets DEF PipelineInv, ConsumerInv, Consumer!TypeOK
<1>3. ASSUME NEW t \in Topics
      PROVE  /\ committed[t] \in Nat /\ position[t] \in Nat /\ start[t] \in Nat
             /\ committed[t] <= position[t] /\ start[t] <= position[t]
             /\ position[t] <= Len(log[t])
             /\ Settled(t) \in Nat /\ Settled(t) <= Len(log[t]) /\ committed[t] <= Len(log[t])
  <2>1. /\ committed[t] \in Nat /\ position[t] \in Nat /\ start[t] \in Nat
        /\ Len(log[t]) \in Nat
    BY SameSets, LogExtends DEF PipelineInv, ConsumerInv, Consumer!TypeOK
  <2>2. QED BY <2>1 DEF PipelineInv, ConsumerInv, PositionsOK, Settled
<1>4. PositionsOK'
  BY <1>3, LogExtends DEF PositionsOK, PipelineInv
<1>5. ASSUME NEW t \in Topics, NEW n \in Nat, n <= Len(log[t]), StoredUpTo(t, n)
      PROVE  StoredUpTo(t, n)'
  <2> SUFFICES ASSUME NEW i \in 1 .. n PROVE Consumer!Stored(log[t][i])'
    BY DEF StoredUpTo
  <2>1. log'[t][i] = log[t][i]
    BY <1>5, LogExtends DEF PipelineInv
  <2>2. QED BY <1>5, <2>1 DEF StoredUpTo, Consumer!Stored
<1>6. ASSUME NEW t \in Topics
      PROVE  StoredUpTo(t, committed[t])' /\ StoredUpTo(t, Settled(t))'
  <2>1. committed'[t] = committed[t] /\ Settled(t)' = Settled(t)
    BY DEF Settled
  <2>2. StoredUpTo(t, committed[t]) /\ StoredUpTo(t, Settled(t))
    BY DEF PipelineInv, ConsumerInv, LoopsOK
  <2>3. QED BY <1>3, <1>5, <2>1, <2>2 DEF StoredUpTo
<1>7. QED BY <1>2, <1>4, <1>6 DEF ConsumerInv, LoopsOK

\* A transaction stores the batch and takes nothing away.
LEMMA TransactionStores ==
    ASSUME ConsumerInv, BridgeTypeInv, NEW t \in Topics, Consumer!Transaction(t)
    PROVE  /\ telemetry' \subseteq Event /\ quarantine' \subseteq Event
           /\ telemetry \subseteq telemetry' /\ quarantine \subseteq quarantine'
           /\ \A i \in start[t] + 1 .. position[t] : log[t][i] \in telemetry' \cup quarantine'
<1>1. log[t] \in Seq(Event)
  BY DEF BridgeTypeInv, TypeOK
<1>2. /\ position[t] \in Nat /\ start[t] \in Nat /\ position[t] <= Len(log[t])
      /\ Len(log[t]) \in Nat
  BY <1>1, SameSets, LenProperties DEF ConsumerInv, PositionsOK, Consumer!TypeOK
<1>3. \A i \in start[t] + 1 .. position[t] : log[t][i] \in Event
  BY <1>1, <1>2, ElementOfSeq
<1>4. Consumer!Batch(t) \subseteq Event
  BY <1>3 DEF Consumer!Batch
<1>5. telemetry \subseteq Event /\ quarantine \subseteq Event
  BY SameSets DEF ConsumerInv, Consumer!TypeOK
<1>6. PICK insertable \in SUBSET Consumer!Batch(t) :
         /\ telemetry' = telemetry \cup insertable
         /\ quarantine' = quarantine \cup (Consumer!Batch(t) \ insertable)
  BY DEF Consumer!Transaction, Consumer!Insertable
<1>7. \A i \in start[t] + 1 .. position[t] : log[t][i] \in Consumer!Batch(t)
  BY DEF Consumer!Batch
<1>8. QED BY <1>4, <1>5, <1>6, <1>7

LEMMA NextConsumer ==
    ASSUME PipelineInv, Consumer!ConsumerNext, UNCHANGED log
    PROVE  ConsumerInv'
<1> USE SameSets
<1>0. /\ log \in [Topics -> Seq(Event)]
      /\ committed \in [Topics -> Nat] /\ position \in [Topics -> Nat]
      /\ start \in [Topics -> Nat]
      /\ phase \in [Topics -> {"fetching", "persisting", "committing"}]
      /\ telemetry \subseteq Event /\ quarantine \subseteq Event /\ faults \in 0 .. MaxFaults
      /\ BridgeTypeInv /\ ConsumerInv /\ PositionsOK /\ LoopsOK
  BY DEF PipelineInv, ConsumerInv, Consumer!TypeOK
<1>1. \A u \in Topics : /\ Len(log[u]) \in Nat /\ committed[u] \in Nat
                        /\ position[u] \in Nat /\ start[u] \in Nat
  BY <1>0, LenProperties
<1>2. ASSUME Consumer!Fault PROVE faults' \in 0 .. MaxFaults
  BY <1>0, <1>2, PipelineAssumption DEF Consumer!Fault
<1> DEFINE Rows == telemetry' \cup quarantine'
           Stay == telemetry \subseteq telemetry' /\ quarantine \subseteq quarantine'
\* The rows stay.
<1>3. ASSUME Stay, NEW u \in Topics, NEW n \in Nat, NEW k \in Nat, k <= n, StoredUpTo(u, n)
      PROVE  \A i \in 1 .. k : log[u][i] \in Rows
  BY <1>3 DEF StoredUpTo, Consumer!Stored
<1>4. ASSUME Stay, NEW u \in Topics
      PROVE  /\ \A i \in 1 .. committed[u] : log[u][i] \in Rows
             /\ \A i \in 1 .. Settled(u) : log[u][i] \in Rows
             /\ \A i \in 1 .. start[u] : log[u][i] \in Rows
  <2>1. start[u] <= position[u] /\ Settled(u) \in {start[u], position[u]}
    BY <1>0 DEF PositionsOK, Settled
  <2>2. StoredUpTo(u, committed[u]) /\ StoredUpTo(u, Settled(u))
    BY <1>0 DEF LoopsOK
  <2>3. committed[u] <= committed[u] /\ Settled(u) \in Nat /\ Settled(u) <= Settled(u)
        /\ start[u] <= Settled(u)
    BY <1>1, <2>1
  <2>4. QED BY <1>1, <1>3, <1>4, <2>2, <2>3
<1> DEFINE Types == /\ committed' \in [Topics -> Nat] /\ position' \in [Topics -> Nat]
                    /\ start' \in [Topics -> Nat]
                    /\ phase' \in [Topics -> {"fetching", "persisting", "committing"}]
                    /\ telemetry' \subseteq Event /\ quarantine' \subseteq Event
                    /\ faults' \in 0 .. MaxFaults
<1>5. ASSUME Types,
             \A u \in Topics : /\ committed'[u] <= position'[u] /\ start'[u] <= position'[u]
                               /\ position'[u] <= Len(log[u])
                               /\ \A i \in 1 .. committed'[u] : log[u][i] \in Rows
                               /\ \A i \in 1 .. Settled(u)' : log[u][i] \in Rows
      PROVE  ConsumerInv'
  <2>1. Consumer!TypeOK'
    BY <1>0, <1>5 DEF Consumer!TypeOK
  <2>2. PositionsOK'
    BY <1>5 DEF PositionsOK
  <2>3. LoopsOK'
    BY <1>5 DEF LoopsOK, StoredUpTo, Consumer!Stored
  <2>4. QED BY <2>1, <2>2, <2>3 DEF ConsumerInv
<1> HIDE DEF Rows, Stay, Types
<1>6. ASSUME NEW t \in Topics, Consumer!Fetch(t) PROVE ConsumerInv'
  <2>1. PICK n \in position[t] + 1 .. Len(log[t]) : position' = [position EXCEPT ![t] = n]
    BY <1>6 DEF Consumer!Fetch
  <2>2. /\ start' = [start EXCEPT ![t] = position[t]]
        /\ phase' = [phase EXCEPT ![t] = "persisting"] /\ phase[t] = "fetching"
        /\ UNCHANGED <<committed, telemetry, quarantine, faults>>
    BY <1>6 DEF Consumer!Fetch, Consumer!databaseVars
  <2>3. Stay /\ Types
    BY <1>0, <1>1, <2>1, <2>2 DEF Stay, Types
  <2>4. \A u \in Topics : Settled(u)' = Settled(u)
    BY <1>0, <2>1, <2>2 DEF Settled
  <2>5. \A u \in Topics : /\ committed'[u] <= position'[u] /\ start'[u] <= position'[u]
                          /\ position'[u] <= Len(log[u])
    BY <1>0, <1>1, <2>1, <2>2 DEF PositionsOK
  <2>6. QED BY <1>4, <1>5, <2>2, <2>3, <2>4, <2>5
<1>7. ASSUME NEW t \in Topics, Consumer!Persist(t) \/ Consumer!PersistUnseen(t)
      PROVE  ConsumerInv'
  <2>1. /\ phase[t] = "persisting" /\ Consumer!Transaction(t)
        /\ UNCHANGED <<committed, position, start>>
        /\ phase' \in {phase, [phase EXCEPT ![t] = "committing"]}
    BY <1>7 DEF Consumer!Persist, Consumer!PersistUnseen, Consumer!loopVars
  <2>2. faults' \in 0 .. MaxFaults
    BY <1>0, <1>2, <1>7 DEF Consumer!Persist, Consumer!PersistUnseen
  <2>3. /\ telemetry' \subseteq Event /\ quarantine' \subseteq Event /\ Stay
        /\ \A i \in start[t] + 1 .. position[t] : log[t][i] \in Rows
    BY <1>0, <2>1, TransactionStores DEF Stay, Rows
  <2>4. Types
    BY <1>0, <2>1, <2>2, <2>3 DEF Types
  <2>5. ASSUME NEW u \in Topics PROVE \A i \in 1 .. Settled(u)' : log[u][i] \in Rows
    <3>1. CASE u = t
      <4>1. Settled(u)' \in {start[u], position[u]}
        BY <2>1 DEF Settled
      <4>2. \A i \in 1 .. start[u] : log[u][i] \in Rows
        BY <1>4, <2>3
      <4>3. \A i \in 1 .. position[u] : i \in 1 .. start[u] \/ i \in start[u] + 1 .. position[u]
        BY <1>1
      <4>4. QED BY <2>3, <3>1, <4>1, <4>2, <4>3
    <3>2. CASE u # t
      <4>1. Settled(u)' = Settled(u)
        BY <1>0, <2>1, <3>2 DEF Settled
      <4>2. QED BY <1>4, <2>3, <4>1
    <3>3. QED BY <3>1, <3>2
  <2>6. \A u \in Topics : /\ committed'[u] <= position'[u] /\ start'[u] <= position'[u]
                          /\ position'[u] <= Len(log[u])
                          /\ \A i \in 1 .. committed'[u] : log[u][i] \in Rows
    BY <1>0, <1>4, <2>1, <2>3 DEF PositionsOK
  <2>7. QED BY <1>5, <2>4, <2>5, <2>6
<1>8. ASSUME NEW t \in Topics, Consumer!CommitOffsets(t) \/ Consumer!CommitFails(t)
      PROVE  ConsumerInv'
  <2>1. /\ phase[t] = "committing"
        /\ committed' \in {committed, [committed EXCEPT ![t] = position[t]]}
        /\ phase' \in {[phase EXCEPT ![t] = "fetching"], [phase EXCEPT ![t] = "persisting"]}
        /\ UNCHANGED <<position, start, telemetry, quarantine>>
    BY <1>8 DEF Consumer!CommitOffsets, Consumer!CommitFails, Consumer!databaseVars
  <2>2. faults' \in 0 .. MaxFaults
    BY <1>0, <1>2, <1>8 DEF Consumer!CommitOffsets, Consumer!CommitFails
  <2>3. Stay /\ Types
    BY <1>0, <1>1, <2>1, <2>2 DEF Stay, Types
  <2>4. ASSUME NEW u \in Topics
        PROVE  /\ Settled(u)' \in {Settled(u), start[u]}
               /\ committed'[u] \in {committed[u], Settled(u)}
               /\ committed'[u] <= position[u]
    BY <1>0, <1>1, <2>1 DEF Settled, PositionsOK
  <2>5. \A u \in Topics : /\ \A i \in 1 .. committed'[u] : log[u][i] \in Rows
                          /\ \A i \in 1 .. Settled(u)' : log[u][i] \in Rows
    BY <1>4, <2>3, <2>4
  <2>6. \A u \in Topics : /\ committed'[u] <= position'[u] /\ start'[u] <= position'[u]
                          /\ position'[u] <= Len(log[u])
    BY <1>0, <2>1, <2>4 DEF PositionsOK
  <2>7. QED BY <1>5, <2>3, <2>5, <2>6
<1>9. CASE Consumer!Restart
  <2>1. /\ position' = committed /\ start' = committed
        /\ phase' = [t \in Topics |-> "fetching"]
        /\ UNCHANGED <<committed, telemetry, quarantine>>
    BY <1>9 DEF Consumer!Restart, Consumer!databaseVars
  <2>2. faults' \in 0 .. MaxFaults
    BY <1>2, <1>9 DEF Consumer!Restart
  <2>3. Stay /\ Types
    BY <1>0, <2>1, <2>2 DEF Stay, Types
  <2>4. \A u \in Topics : Settled(u)' = committed[u]
    BY <2>1 DEF Settled
  <2>5. \A u \in Topics : committed[u] <= committed[u] /\ committed[u] <= Len(log[u])
    BY <1>0, <1>1 DEF PositionsOK
  <2>6. QED BY <1>4, <1>5, <2>1, <2>3, <2>4, <2>5
<1>10. QED
  BY <1>6, <1>7, <1>8, <1>9
  DEF Consumer!ConsumerNext, Consumer!Loop, Consumer!Faulty

LEMMA NextPipelineInv == ASSUME PipelineInv, [PipelineNext]_pipelineVars PROVE PipelineInv'
<1>1. [BridgeNext]_vars
  BY PipelineStepOfBridge
<1>2. BridgeTypeInv'
  BY <1>1, NextBridgeType DEF PipelineInv
<1>3. CASE UNCHANGED consumerVars
  BY <1>1, <1>2, <1>3, NextConsumerOfBridge DEF PipelineInv
<1>4. CASE ConsumerDoes(Consumer!ConsumerNext)
  <2>1. UNCHANGED log
    BY <1>4
    DEF ConsumerDoes, Consumer!ConsumerNext, Consumer!Loop, Consumer!Faulty, Consumer!Fetch,
        Consumer!Persist, Consumer!PersistUnseen, Consumer!CommitOffsets,
        Consumer!CommitFails, Consumer!Restart
  <2>2. QED BY <1>2, <1>4, <2>1, NextConsumer DEF ConsumerDoes, PipelineInv
<1>5. QED BY <1>3, <1>4 DEF PipelineNext, BridgeDoes, pipelineVars

\* The ingestion path is a bridge in good order: what is proved of Spec holds of it.
THEOREM PipelineImplementsBridge == PipelineSpec => Spec
<1>1. PipelineInit => Init
  BY DEF PipelineInit
<1>2. QED BY <1>1, PipelineStepOfBridge, PTL DEF PipelineSpec, Spec

\* The ingestion path keeps the types of its state.
THEOREM PipelineTypeCorrect == PipelineSpec => []PipelineTypeOK
<1>1. PipelineInv => PipelineTypeOK
  BY DEF PipelineInv, ConsumerInv, BridgeTypeInv, PipelineTypeOK
<1>2. QED BY <1>1, InitPipelineInv, NextPipelineInv, PTL DEF PipelineSpec

\* The offsets never pass a record that is in neither table, whatever fails between the
\* transaction and the commit of the offsets, and whatever the bridge does meanwhile.
THEOREM OffsetsFollowTables == PipelineSpec => []CommittedIsStored
<1>1. PipelineInv => CommittedIsStored
  <2> SUFFICES ASSUME PipelineInv PROVE Consumer!CommittedIsStored
    BY DEF CommittedIsStored
  <2>1. \A t \in Topics : StoredUpTo(t, committed[t])
    BY DEF PipelineInv, ConsumerInv, LoopsOK
  <2>2. QED BY <2>1, SameSets DEF StoredUpTo, Consumer!CommittedIsStored
<1>2. QED BY <1>1, InitPipelineInv, NextPipelineInv, PTL DEF PipelineSpec
-----------------------------------------------------------------------------
(* The path from the broker to the tables.                                  *)

\* What is queued for the topic is held elsewhere as well, and the DLQ has no valid event.
QueuedIsHeld == \A e \in Event \ Malformed : Queued(e) => Held(e)
DlqOK == Range(log["dlq"]) \subseteq Malformed

PathInv == PipelineInv /\ PlacesInv /\ QueuedIsHeld /\ DlqOK

Kept(e) == InSpool(e) \/ InLog(e)

\* Wherever a valid event is, it is held.
LEMMA PlacedIsHeld ==
    ASSUME DrainOK, QueuedIsHeld, NEW e \in Event \ Malformed, Placed(e)
    PROVE  Held(e)
<1>1. e # NoEvent
  BY BridgeAssumption
<1>2. CASE e \in Range(scheduled) \/ InLog(e)
  BY <1>2 DEF Held, InProcess
<1>3. CASE Queued(e)
  BY <1>3 DEF QueuedIsHeld
<1>4. CASE Outside(e)
  BY <1>1, <1>4 DEF Outside, Publishers, DrainOK, Held, InProcess
<1> QED BY <1>2, <1>3, <1>4 DEF Placed

LEMMA NextQueuedIsHeld ==
    ASSUME PlacesInv, QueuedIsHeld, [BridgeNext]_vars
    PROVE  QueuedIsHeld'
<1> USE DEF PlacesInv, DeliveryInv
<1> SUFFICES ASSUME NEW e \in Event \ Malformed, Queued(e)' PROVE Held(e)'
  BY DEF QueuedIsHeld
<1>0. Queue \in Seq(Record) /\ scheduled \in Seq(Event)
  BY QueueType DEF BridgeTypeInv, TypeOK
<1>1. ~ProcessEnds
  <2>1. ProcessEnds => Queue' = <<>>
    BY DEF ProcessEnds, Queue, Topics
  <2> QED BY <2>1 DEF Queued, Has
<1>2. Placed(e) => Held(e)'
  BY <1>1, PlacedIsHeld, NextHeld
<1>3. CASE Queue' = Queue
  BY <1>2, <1>3 DEF Queued, Placed
<1>4. ASSUME NEW p \in Publishers, NEW m \in Event,
             Queue' = Append(Queue, [msg |-> m, owner |-> p]),
             Outside(m) \/ (scheduled # <<>> /\ m = Head(scheduled))
      PROVE  Placed(e)
  <2>1. Queued(e) \/ m = e
    <3>1. PICK r : r = [msg |-> m, owner |-> p]
      OBVIOUS
    <3>2. r \in Record /\ r.msg = m
      BY <3>1 DEF Record
    <3> QED BY <1>0, <1>4, <3>1, <3>2, AppendOrder DEF Queued
  <2>2. scheduled # <<>> => Head(scheduled) \in Range(scheduled)
    BY <1>0, RangeTail
  <2> QED BY <1>4, <2>1, <2>2 DEF Placed
<1>5. ASSUME NEW i \in DOMAIN Queue,
             Queue' = Without(Queue, i) \/ Queue' = Disowned(Queue, i)
      PROVE  Queued(e)
  <2>1. Queue' = Disowned(Queue, i) => Queued(e)
    BY <1>0, DisownedOrder DEF Queued
  <2>2. CASE Queue' = Without(Queue, i) /\ Queue[i].msg # e
    BY <1>0, <2>2, WithoutOrder DEF Queued
  <2>3. CASE Queue[i].msg = e
    BY <2>3 DEF Queued, Has
  <2> QED BY <1>5, <2>1, <2>2, <2>3
<1>6. QueueMove
  BY <1>1, NextQueue
<1> QED BY <1>2, <1>3, <1>4, <1>5, <1>6 DEF QueueMove, Placed

LEMMA NextDlq ==
    ASSUME BridgeTypeInv, DlqOK, [BridgeNext]_vars
    PROVE  DlqOK'
<1>1. CASE log' = log
  BY <1>1 DEF DlqOK
<1>2. ASSUME NEW t \in Topics, RecordWritten(t) \/ ReplyLost(t) PROVE DlqOK'
  <2>1. PICK m : m = Head(accumulator[t]).msg
    OBVIOUS
  <2>2. log' = [log EXCEPT ![t] = Append(log[t], m)]
    BY <1>2, <2>1 DEF RecordWritten, ReplyLost
  <2>3. m \in Event /\ TopicOf(m) = t
    BY <1>2, <2>1, FirstRecord
    DEF RecordWritten, ReplyLost, Record, BridgeTypeInv, QueuesInv, RecordsOK
  <2>4. log[t] \in Seq(Event) /\ log \in [Topics -> Seq(Event)] /\ "dlq" \in Topics
    BY DEF BridgeTypeInv, TypeOK, Topics
  <2>5. Range(Append(log[t], m)) = Range(log[t]) \cup {m}
    BY <2>3, <2>4, RangeAppend
  <2>6. CASE t = "dlq"
    BY <2>2, <2>3, <2>4, <2>5, <2>6 DEF DlqOK, TopicOf
  <2>7. CASE t # "dlq"
    BY <2>2, <2>4, <2>7 DEF DlqOK
  <2> QED BY <2>6, <2>7
<1> QED
  BY <1>1, <1>2
  DEF BridgeNext, Handle, Publish, Drain, Kafka, Process, MessageArrives, StartHandler,
      HandlerDone, AttemptFails, Retry, DrainStarts, DrainGoesOn, ProducerStarts,
      RecordExpires, KafkaChanges, MqttDisconnects, MqttConnects, ProcessEnds,
      ProcessStarts, vars, kafkaVars

\* A step brings one event at most into the spool or the topic.
LEMMA OneIsKept ==
    ASSUME BridgeTypeInv, [BridgeNext]_vars
    PROVE  \E m : \A e \in Event \ {m} : Kept(e)' => Kept(e)
<1>1. CASE log' = log
  <2>1. spool \in Seq(Event)
    BY DEF BridgeTypeInv, TypeOK
  <2>2. PICK s : s = spool'
    OBVIOUS
  <2>3. ASSUME NEW m \in Event, s = Spooled(m) PROVE Range(s) = Range(spool) \cup {m}
    BY <2>1, <2>3, SpooledProperties
  <2>4. ASSUME s = Removed PROVE Range(s) \subseteq Range(spool)
    <3>1. PICK m : m = job[Drainer].msg
      OBVIOUS
    <3> QED BY <2>1, <2>4, <3>1, RemovedProperties
  <2>5. \E m : Range(s) \subseteq Range(spool) \cup {m}
    BY <2>2, <2>3, <2>4, NextSpoolStep DEF SpoolStep
  <2> QED BY <1>1, <2>2, <2>5 DEF Kept, InSpool, InLog
<1>2. CASE log' # log
  <2>1. spool' = spool
    BY <1>2
    DEF BridgeNext, Handle, Publish, Drain, Kafka, Process, MessageArrives, StartHandler,
        HandlerDone, AttemptFails, Retry, DrainStarts, DrainGoesOn, ProducerStarts,
        RecordWritten, ReplyLost, RecordExpires, KafkaChanges, MqttDisconnects,
        MqttConnects, ProcessEnds, ProcessStarts, vars, kafkaVars
  <2>2. \A e : InLog(e)' /\ ~InLog(e) => e = Queue[1].msg
    BY NextLog
  <2> QED BY <2>1, <2>2 DEF Kept, InSpool
<1> QED BY <1>1, <1>2

\* An event that is nowhere comes only from the broker.
LEMMA NotHeldStays ==
    ASSUME PlacesInv, QueuedIsHeld, [BridgeNext]_vars, NEW e \in Event \ Malformed, ~Held(e),
           \A m \in Event : ~MessageArrives(m)
    PROVE  ~Held(e)'
<1> USE DEF PlacesInv, DeliveryInv
<1>0. scheduled \in Seq(Event)
  BY DEF BridgeTypeInv, TypeOK
<1>1. ~Placed(e)
  BY PlacedIsHeld
<1>2. ~(scheduled # <<>> /\ e = Head(scheduled))
  BY <1>0, <1>1, RangeTail DEF Placed
<1>3. ~InLog(e)'
  BY <1>1, NextLog DEF Placed, Queued, Has
<1>4. ~Outside(e)'
  BY <1>1, <1>2, NextOutside DEF Placed
<1>5. e \notin Range(scheduled')
  <2>1. Range(scheduled') \subseteq Range(scheduled)
    <3>1. CASE scheduled' = scheduled
      BY <3>1
    <3>2. CASE scheduled # <<>> /\ scheduled' = Tail(scheduled)
      BY <1>0, <3>2, RangeTail
    <3>3. CASE scheduled' = <<>>
      BY <3>3 DEF Range
    <3> QED BY <3>1, <3>2, <3>3
        DEF BridgeNext, Handle, Publish, Drain, Kafka, Process, MessageArrives, StartHandler,
            HandlerDone, AttemptFails, Retry, DrainStarts, DrainGoesOn, ProducerStarts,
            RecordWritten, ReplyLost, RecordExpires, KafkaChanges, MqttDisconnects,
            MqttConnects, ProcessEnds, ProcessStarts, vars, publishVars
  <2> QED BY <1>1, <2>1 DEF Placed
<1> QED BY <1>3, <1>4, <1>5 DEF Held, InProcess, Outside, Publishers

LEMMA InitPath == PipelineInit => PathInv /\ Path!Init
<1> SUFFICES ASSUME PipelineInit PROVE PathInv /\ Path!Init
  OBVIOUS
<1>1. Init /\ telemetry = {} /\ quarantine = {}
  BY DEF PipelineInit, Consumer!ConsumerInit
<1>2. PipelineInv /\ PlacesInv
  BY <1>1, InitPipelineInv, InitPlaces
<1>3. /\ accepted = {} /\ scheduled = <<>> /\ spool = <<>>
      /\ log["telemetry"] = <<>> /\ log["dlq"] = <<>> /\ Queue = <<>>
  BY <1>1 DEF Init, Topics, Queue
<1>4. Range(<<>>) = {}
  BY DEF Range
<1>5. \A e \in Event : ~InProcess(e) /\ ~InSpool(e) /\ ~InLog(e) /\ ~Queued(e)
  <2>1. \A h \in Handlers : job[h].msg = NoEvent
    BY <1>1 DEF Init, Idle, Publishers
  <2> QED BY <1>3, <1>4, <2>1, BridgeAssumption DEF InProcess, InSpool, InLog, Queued, Has
<1>6. \A e \in Event \ Malformed : PlaceOf(e) = "none"
  BY <1>1, <1>3, <1>5 DEF PlaceOf, Consumer!Stored
<1> QED BY <1>2, <1>3, <1>4, <1>5, <1>6
    DEF PathInv, QueuedIsHeld, DlqOK, Path!Init, places

LEMMA NextPath == ASSUME PathInv, [PipelineNext]_pipelineVars PROVE PathInv'
<1>1. [BridgeNext]_vars
  BY PipelineStepOfBridge
<1>2. PipelineInv' /\ PlacesInv' /\ QueuedIsHeld'
  BY <1>1, NextPipelineInv, NextPlaces, NextQueuedIsHeld DEF PathInv
<1>3. DlqOK'
  BY <1>1, NextDlq DEF PathInv, PipelineInv
<1> QED BY <1>2, <1>3 DEF PathInv

\* What a transaction of the consumer adds to the tables is in the topic.
LEMMA StoredWasKept ==
    ASSUME PathInv, NEW t \in Topics, Consumer!Transaction(t),
           NEW e \in Event \ Malformed, Consumer!Stored(e)', ~Consumer!Stored(e)
    PROVE  InLog(e)
<1>1. e \in Consumer!Batch(t)
  BY DEF Consumer!Transaction, Consumer!Insertable, Consumer!Stored
<1>2. PICK i \in start[t] + 1 .. position[t] : e = log[t][i]
  BY <1>1 DEF Consumer!Batch
<1>3. /\ log[t] \in Seq(Event) /\ start[t] \in Nat /\ position[t] \in Nat
      /\ position[t] <= Len(log[t])
  BY SameSets
  DEF PathInv, PipelineInv, ConsumerInv, Consumer!TypeOK, PositionsOK, BridgeTypeInv, TypeOK
<1>4. i \in DOMAIN log[t]
  BY <1>2, <1>3
<1>5. e \in Range(log[t])
  BY <1>2, <1>4 DEF Range
<1> QED BY <1>5 DEF PathInv, DlqOK, Topics, InLog

LEMMA ConsumerStep ==
    ASSUME PathInv, ConsumerDoes(Consumer!ConsumerNext)
    PROVE  [Path!Next]_places
<1>1. log' = log /\ spool' = spool /\ scheduled' = scheduled /\ job' = job /\ accepted' = accepted
  BY DEF ConsumerDoes, bridgeVars, processVars, publishVars, brokerVars,
     Consumer!ConsumerNext, Consumer!Loop, Consumer!Faulty, Consumer!Fetch,
     Consumer!Persist, Consumer!PersistUnseen, Consumer!CommitOffsets,
     Consumer!CommitFails, Consumer!Restart
<1> DEFINE D == {e \in Event \ Malformed : Consumer!Stored(e)' /\ ~Consumer!Stored(e)}
<1>2. \/ UNCHANGED <<telemetry, quarantine>>
      \/ \E t \in Topics : Consumer!Transaction(t)
  BY SameSets
  DEF ConsumerDoes, Consumer!ConsumerNext, Consumer!Loop, Consumer!Faulty, Consumer!Fetch,
      Consumer!Persist, Consumer!PersistUnseen, Consumer!CommitOffsets,
      Consumer!CommitFails, Consumer!Restart, Consumer!databaseVars
<1>3. \A e : Consumer!Stored(e) => Consumer!Stored(e)'
  BY <1>2 DEF Consumer!Stored, Consumer!Transaction
<1>4. \A e \in D : InLog(e)
  BY <1>2, StoredWasKept DEF Consumer!Stored
<1>5. \A e \in D : PlaceOf(e) = "kept"
  BY <1>4 DEF PlaceOf
<1>6. \A e \in Event \ Malformed :
         PlaceOf(e)' = IF e \in D THEN "stored" ELSE PlaceOf(e)
  BY <1>1, <1>3 DEF PlaceOf, InSpool, InLog, InProcess
<1>7. Path!Store(D)
  BY <1>5, <1>6 DEF Path!Store, places
<1> QED BY <1>7 DEF Path!Next

\* A stop of the bridge takes what is in its memory only.
LEMMA StopStep ==
    ASSUME PathInv, ProcessEnds, UNCHANGED consumerVars
    PROVE  Path!Stop
<1>1. /\ log' = log /\ spool' = spool /\ accepted' = accepted /\ scheduled' = <<>>
      /\ telemetry' = telemetry /\ quarantine' = quarantine
  BY DEF ProcessEnds, kafkaVars, consumerVars
<1>2. \A h \in Handlers : job'[h].msg = NoEvent
  BY DEF ProcessEnds, Publishers, Idle
<1>3. \A e \in Event : ~InProcess(e)'
  BY <1>1, <1>2, BridgeAssumption DEF InProcess, Range
<1>4. \A e \in Event \ Malformed : InProcess(e) => e \in accepted
  BY BridgeAssumption
  DEF PathInv, PlacesInv, AcceptedOK, Placed, Outside, Publishers, InProcess
<1>5. \A e \in Event \ Malformed :
         PlaceOf(e)' = IF PlaceOf(e) = "memory" THEN "gone" ELSE PlaceOf(e)
  BY <1>1, <1>3, <1>4 DEF PlaceOf, InSpool, InLog, Consumer!Stored
<1> QED BY <1>5 DEF Path!Stop, places

LEMMA ArrivalStep ==
    ASSUME PathInv, NEW m \in Event, MessageArrives(m), UNCHANGED consumerVars
    PROVE  [Path!Next]_places
<1>1. /\ log' = log /\ spool' = spool /\ job' = job /\ accepted' = accepted \cup {m}
      /\ telemetry' = telemetry /\ quarantine' = quarantine
  BY DEF MessageArrives, kafkaVars, consumerVars
<1>2. Range(scheduled') = IF subscribed THEN Range(scheduled) \cup {m} ELSE Range(scheduled)
  <2>1. scheduled \in Seq(Event)
    BY DEF PathInv, PipelineInv, BridgeTypeInv, TypeOK
  <2>2. scheduled' = IF subscribed THEN Append(scheduled, m) ELSE scheduled
    BY DEF MessageArrives
  <2>3. Range(Append(scheduled, m)) = Range(scheduled) \cup {m}
    BY <2>1, RangeAppend
  <2> QED BY <2>2, <2>3
<1>3. \A e \in Event \ Malformed : e # m => PlaceOf(e)' = PlaceOf(e)
  BY <1>1, <1>2 DEF PlaceOf, InSpool, InLog, InProcess, Consumer!Stored
<1>4. PlaceOf(m)' = IF PlaceOf(m) = "gone" THEN IF subscribed THEN "memory" ELSE "gone"
                    ELSE IF PlaceOf(m) = "none" THEN IF subscribed THEN "memory" ELSE "gone"
                    ELSE PlaceOf(m)
  BY <1>1, <1>2 DEF PlaceOf, InSpool, InLog, InProcess, Consumer!Stored
<1>5. CASE m \in Malformed \/ PlaceOf(m)' = PlaceOf(m)
  BY <1>3, <1>5 DEF places
<1>6. CASE m \notin Malformed /\ PlaceOf(m) \in {"none", "gone"} /\ PlaceOf(m)' = "memory"
  <2>1. Path!Acknowledge(m)
    BY <1>3, <1>6 DEF Path!Acknowledge, places
  <2> QED BY <1>6, <2>1 DEF Path!Next
<1>7. CASE m \notin Malformed /\ PlaceOf(m) = "none" /\ PlaceOf(m)' = "gone"
  <2>1. Path!PassBy(m)
    BY <1>3, <1>7 DEF Path!PassBy, places
  <2> QED BY <1>7, <2>1 DEF Path!Next
<1> QED BY <1>4, <1>5, <1>6, <1>7

\* Any other step of the bridge secures one event at most.
LEMMA InsideStep ==
    ASSUME PathInv, BridgeNext, UNCHANGED consumerVars, ~ProcessEnds,
           \A m \in Event : ~MessageArrives(m)
    PROVE  [Path!Next]_places
<1> USE DEF PathInv, PipelineInv, PlacesInv, DeliveryInv
<1>1. \A e : Consumer!Stored(e)' <=> Consumer!Stored(e)
  BY DEF consumerVars, Consumer!Stored
<1>2. ASSUME NEW e \in Event \ Malformed
      PROVE  \/ PlaceOf(e)' = PlaceOf(e)
             \/ PlaceOf(e) = "memory" /\ PlaceOf(e)' = "kept" /\ ~Kept(e) /\ Kept(e)'
  <2>1. Kept(e) => Kept(e)'
    BY NextKept DEF Kept
  <2>2. Held(e) => Held(e)'
    BY NextHeld
  <2>3. ~Held(e) => ~Held(e)'
    BY NotHeldStays
  <2>4. accepted' = accepted
    BY DEF BridgeNext, Handle, Publish, Drain, Kafka, Process, StartHandler,
       HandlerDone, AttemptFails, Retry, DrainStarts, DrainGoesOn, ProducerStarts,
       RecordWritten, ReplyLost, RecordExpires, KafkaChanges, MqttDisconnects,
       MqttConnects, ProcessStarts, brokerVars
  <2> QED BY <1>1, <2>1, <2>2, <2>3, <2>4 DEF PlaceOf, Kept, Held
<1>3. PICK m : \A e \in Event \ {m} : Kept(e)' => Kept(e)
  BY OneIsKept
<1>4. \A e \in Event \ Malformed : e # m => PlaceOf(e)' = PlaceOf(e)
  BY <1>2, <1>3
<1>5. CASE m \notin Event \ Malformed \/ PlaceOf(m)' = PlaceOf(m)
  BY <1>4, <1>5 DEF places
<1>6. CASE m \in Event \ Malformed /\ PlaceOf(m) = "memory" /\ PlaceOf(m)' = "kept"
  <2>1. Path!Keep(m)
    BY <1>4, <1>6 DEF Path!Keep, places
  <2> QED BY <1>6, <2>1 DEF Path!Next
<1> QED BY <1>2, <1>5, <1>6

LEMMA BridgeStep ==
    ASSUME PathInv, BridgeDoes(BridgeNext)
    PROVE  [Path!Next]_places
<1>1. CASE ProcessEnds
  BY <1>1, StopStep DEF BridgeDoes, Path!Next
<1>2. CASE \E m \in Event : MessageArrives(m)
  BY <1>2, ArrivalStep DEF BridgeDoes
<1>3. CASE ~ProcessEnds /\ ~\E m \in Event : MessageArrives(m)
  BY <1>3, InsideStep DEF BridgeDoes
<1> QED BY <1>1, <1>2, <1>3

\* Bridge and consumer together keep the promise of the path: only a stop of the bridge
\* takes a valid event away that was acknowledged, and then from its memory alone; what
\* is in the spool or the topic stays until it is in a table, and what is stored stays.
THEOREM PathPromiseKept == PipelineSpec => IngestionPromise
<1>1. PipelineInit => PathInv /\ Path!Init
  BY InitPath
<1>2. PathInv /\ [PipelineNext]_pipelineVars => PathInv'
  BY NextPath
<1>3. PathInv /\ [PipelineNext]_pipelineVars => [Path!Next]_places
  <2> SUFFICES ASSUME PathInv, [PipelineNext]_pipelineVars PROVE [Path!Next]_places
    OBVIOUS
  <2>1. CASE UNCHANGED pipelineVars
    <3>1. \A e \in Event \ Malformed : PlaceOf(e)' = PlaceOf(e)
      BY <2>1
      DEF pipelineVars, vars, kafkaVars, publishVars, brokerVars, consumerVars, PlaceOf,
          InSpool, InLog, InProcess, Consumer!Stored
    <3> QED BY <3>1 DEF places
  <2> QED BY <2>1, BridgeStep, ConsumerStep DEF PipelineNext
<1> QED BY <1>1, <1>2, <1>3, PTL DEF PipelineSpec, IngestionPromise, Path!Spec
=============================================================================
