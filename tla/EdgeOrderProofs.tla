--------------------------- MODULE EdgeOrderProofs ---------------------------
(***************************************************************************)
(* What holds while the running gateway is the only process on its file:   *)
(* order of first deliveries, finality of acknowledgements, and the        *)
(* custody promise of StoreAndForward.                                     *)
(***************************************************************************)
EXTENDS EdgeGatewayProofs, FunctionTheorems

OnlyRunner == Procs = {Runner}

OrderInv == LockInv /\ BatchInv /\ PrecedenceInv

Base == TypeInv /\ FreshInv /\ DeliveryInv

\* The elements of a sequence
Elements(q) == {q[i] : i \in DOMAIN q}

LEMMA ElementsOfAppend ==
    ASSUME NEW S, NEW q \in Seq(S), NEW e \in S
    PROVE  Elements(Append(q, e)) = Elements(q) \cup {e}
<1>1. /\ Len(q) \in Nat /\ DOMAIN q = 1 .. Len(q)
      /\ DOMAIN Append(q, e) = 1 .. Len(q) + 1
      /\ \A i \in 1 .. Len(q) : Append(q, e)[i] = q[i]
      /\ Append(q, e)[Len(q) + 1] = e
  BY AppendProperties, LenProperties
<1>2. \A i \in 1 .. Len(q) + 1 : i \in 1 .. Len(q) \/ i = Len(q) + 1
  BY <1>1
<1>3. QED BY <1>1, <1>2 DEF Elements

LEMMA ElementsOfTail ==
    ASSUME NEW S, NEW q \in Seq(S), q # <<>>
    PROVE  /\ Head(q) \in Elements(q)
           /\ Elements(Tail(q)) \subseteq Elements(q)
<1>1. /\ Len(q) \in Nat \ {0} /\ DOMAIN q = 1 .. Len(q)
      /\ Tail(q) \in Seq(S) /\ DOMAIN Tail(q) = 1 .. Len(q) - 1
      /\ \A i \in 1 .. Len(q) - 1 : Tail(q)[i] = q[i + 1]
  BY HeadTailProperties, LenProperties, EmptySeq
<1>2. Head(q) = q[1] /\ 1 \in DOMAIN q
  BY <1>1
<1>3. \A i \in 1 .. Len(q) - 1 : i + 1 \in 1 .. Len(q)
  BY <1>1
<1>4. QED BY <1>1, <1>2, <1>3 DEF Elements

LEMMA ElementsOfEmpty == Elements(<<>>) = {}
BY DEF Elements

LEMMA OutgoingElements == Outgoing = Elements(outbox[Runner])
BY DEF Outgoing, Elements

-----------------------------------------------------------------------------
(* get_replayable returns an initial segment of what can be replayed: an    *)
(* older row of the sensor of a returned row is returned too.               *)

LEMMA FiniteEvents == ASSUME IsFiniteSet(EdgeSensors) PROVE IsFiniteSet(EdgeEvent)
<1>1. MaxAcquired \in Int /\ 1 \in Int
  BY GatewayAssumption
<1>2. IsFiniteSet(1 .. MaxAcquired)
  BY <1>1, FS_Interval
<1>3. QED BY <1>2, FS_Product DEF EdgeEvent

LEMMA SegmentOfSensor ==
    ASSUME IsFiniteSet(EdgeSensors), GatewayTypeOK,
           NEW f \in GetReplayable, NEW e \in Replayable, LaterReading(e, f)
    PROVE  e \in GetReplayable
<1> DEFINE Ahead(g) == {h \in Replayable : Before(h, g)}
<1>1. IsFiniteSet(EdgeEvent)
  BY FiniteEvents
<1>2. IsFiniteSet(Replayable)
  BY <1>1, FS_Subset DEF Replayable
<1>3. Ahead(e) \subseteq Ahead(f)
  <2>1. \A h \in Replayable : h[2] \in Int
    BY GatewayAssumption DEF Replayable, EdgeEvent
  <2>2. e[2] < f[2] /\ e[2] \in Int /\ f[2] \in Int
    BY <2>1 DEF LaterReading, GetReplayable
  <2>3. QED BY <2>1, <2>2 DEF Before
<1>4. Cardinality(Ahead(e)) <= Cardinality(Ahead(f))
  BY <1>2, <1>3, FS_Subset
<1>5. Cardinality(Ahead(e)) \in Nat /\ Cardinality(Ahead(f)) \in Nat
  BY <1>2, FS_Subset, FS_CardinalityType
<1>6. Cardinality(Ahead(f)) < SnapshotLimit
  BY DEF GetReplayable
<1>7. Cardinality(Ahead(e)) < SnapshotLimit
  BY <1>4, <1>5, <1>6, GatewayAssumption
<1>8. QED BY <1>7 DEF GetReplayable

-----------------------------------------------------------------------------
(* The order invariant is inductive                                         *)

LEMMA InitOrderInv == GatewayInit => OrderInv
<1> SUFFICES ASSUME GatewayInit PROVE OrderInv
  OBVIOUS
<1>1. /\ pc[Runner] = "idle" /\ acqPc = "idle" /\ doomed = {} /\ delivered = {}
      /\ batch[Runner] = {} /\ outbox[Runner] = <<>>
      /\ \A e \in EdgeEvent : status[e] = "ABSENT"
  BY GatewayAssumption DEF GatewayInit
<1>2. Outgoing = {}
  BY <1>1, OutgoingElements, ElementsOfEmpty
<1>3. QED
  BY <1>1, <1>2
  DEF OrderInv, LockInv, BatchInv, PrecedenceInv, InHand, Busy, Attempted, Pending

\* Steps that leave the rows, the counters and everything in hand alone.
LEMMA OrderFrame ==
    ASSUME OrderInv,
           UNCHANGED <<lastSequence, status, batch>>,
           acqPc' = acqPc /\ acqEvent' = acqEvent /\ doomed' = doomed,
           Busy' = Busy /\ current'[Runner] = current[Runner],
           pc'[Runner] = "marking" <=> pc[Runner] = "marking",
           pc'[Runner] \in {"off", "idle"} => batch[Runner] = {},
           pc'[Runner] = "off" => Outgoing' = {},
           Outgoing' \subseteq Outgoing,
           delivered' \subseteq delivered \cup Outgoing
    PROVE  OrderInv'
<1>1. InHand' = InHand
  BY DEF InHand
<1>2. \A e \in EdgeEvent : /\ Over(e) <=> Over(e)'
                           /\ Attempted(e)' => Attempted(e)
  BY <1>1 DEF Over, Gone, Attempted
<1>3. LockInv'
  BY DEF OrderInv, LockInv, Pending
<1>4. BatchInv'
  BY <1>1 DEF OrderInv, BatchInv
<1>5. PrecedenceInv'
  BY <1>2 DEF OrderInv, PrecedenceInv
<1>6. QED BY <1>3, <1>4, <1>5 DEF OrderInv

LEMMA AcquireOrderInv ==
    ASSUME Base, OrderInv, Acquire
    PROVE  OrderInv'
<1> USE DEF Base, TypeInv, GatewayTypeOK, ControlOK, senderVars, netVars, bufferVars
<1>1. ASSUME NEW s \in EdgeSensors, Mint(s) PROVE OrderInv'
  <2>1. /\ UNCHANGED <<status, doomed, senderVars, netVars>>
        /\ lastSequence' = [lastSequence EXCEPT ![s] = @ + 1]
        /\ acqPc = "idle" /\ acqPc' = "minted"
        /\ acqEvent' = <<s, lastSequence[s] + 1>>
        /\ pc[Runner] # "marking"
    BY <1>1 DEF Mint, AcquisitionHasLock
  <2>2. UNCHANGED <<InHand, Outgoing, Busy, Pending>>
    BY <2>1 DEF InHand, Outgoing, Busy, Pending
  <2>3. ASSUME NEW e \in EdgeEvent, Over(e) PROVE Over(e)'
    <3>1. CASE status[e] \in {"SENT", "ACKNOWLEDGED"}
      BY <2>1, <3>1 DEF Over
    <3>2. CASE Gone(e)
      <4>1. e[1] \in EdgeSensors /\ e[2] \in Int
        BY DEF EdgeEvent
      <4>2. e[2] <= lastSequence'[e[1]]
        BY <2>1, <3>2, <4>1 DEF Gone
      <4>3. e # acqEvent'
        BY <2>1, <3>2, <4>1 DEF Gone
      <4>4. QED BY <2>1, <2>2, <3>2, <4>2, <4>3 DEF Over, Gone
    <3>3. QED BY <2>3, <3>1, <3>2 DEF Over
  <2>4. \A e \in EdgeEvent : Attempted(e)' => Attempted(e)
    BY <2>1, <2>2 DEF Attempted
  <2>5. PrecedenceInv'
    BY <2>1, <2>2, <2>3, <2>4 DEF PrecedenceInv, OrderInv
  <2>6. LockInv' /\ BatchInv'
    BY <2>1, <2>2 DEF LockInv, BatchInv, OrderInv
  <2>7. QED BY <2>5, <2>6 DEF OrderInv
<1>2. CASE InsertPending
  <2>1. /\ UNCHANGED <<lastSequence, acqEvent, doomed, senderVars, netVars>>
        /\ acqPc = "minted" /\ acqPc' = "inserted"
        /\ status[acqEvent] = "ABSENT" /\ acqEvent \in EdgeEvent
    BY <1>2 DEF InsertPending, FreshInv, MintedIsFresh
  <2>2. status' = [status EXCEPT ![acqEvent] = "PENDING"]
    BY <1>2, <2>1 DEF InsertPending
  <2>3. UNCHANGED <<InHand, Outgoing, Busy>>
    BY <2>1 DEF InHand, Outgoing, Busy
  <2>4. \A e \in EdgeEvent : Over(e) => Over(e)'
    BY <2>1, <2>2, <2>3 DEF Over, Gone
  <2>5. \A e \in EdgeEvent : Attempted(e)' => Attempted(e)
    BY <2>1, <2>2, <2>3 DEF Attempted
  <2>6. PrecedenceInv'
    BY <2>1, <2>3, <2>4, <2>5 DEF PrecedenceInv, OrderInv
  <2>7. LockInv'
    BY <2>1, <2>2 DEF LockInv, OrderInv, Pending
  <2>8. BatchInv'
    <3>1. \A e \in EdgeEvent : status[e] # "ABSENT" => status'[e] = status[e]
      BY <2>1, <2>2
    <3>2. InHand \subseteq EdgeEvent /\ Outgoing \subseteq EdgeEvent
      <4>1. outbox[Runner] \in Seq(EdgeEvent)
        BY GatewayAssumption
      <4>2. QED BY <4>1, GatewayAssumption, LenProperties DEF InHand, Outgoing
    <3>3. pc[Runner] = "marking" => current[Runner] \in EdgeEvent
      BY GatewayAssumption
    <3>4. QED BY <2>1, <2>3, <3>1, <3>2, <3>3 DEF BatchInv, OrderInv
  <2>9. QED BY <2>6, <2>7, <2>8 DEF OrderInv
<1>3. CASE SelectOverflow \/ SelectStale
  <2>1. /\ UNCHANGED <<bufferVars, senderVars, netVars>>
        /\ doomed' \subseteq Pending
        /\ acqPc \notin {"idle", "minted"} /\ acqPc' # "minted"
        /\ acqPc' = "idle" => doomed' = {}
    BY <1>3 DEF SelectOverflow, SelectStale, Overflow, Stale
  <2>2. UNCHANGED <<InHand, Outgoing, Busy, Pending>>
    BY <2>1 DEF InHand, Outgoing, Busy, Pending
  <2>3. \A e \in EdgeEvent : /\ Over(e) => Over(e)'
                             /\ Attempted(e)' => Attempted(e)
    BY <2>1, <2>2 DEF Over, Gone, Attempted
  <2>4. PrecedenceInv'
    BY <2>1, <2>2, <2>3 DEF PrecedenceInv, OrderInv
  <2>5. LockInv' /\ BatchInv'
    BY <2>1, <2>2 DEF LockInv, BatchInv, OrderInv
  <2>6. QED BY <2>4, <2>5 DEF OrderInv
<1>4. CASE DeadLetter
  <2>1. /\ UNCHANGED <<lastSequence, senderVars, netVars>>
        /\ status' = [e \in EdgeEvent |-> IF e \in doomed THEN "DEAD_LETTER" ELSE status[e]]
        /\ doomed' = {} /\ acqPc # "idle" /\ acqPc # "minted" /\ acqPc' # "minted"
    BY <1>4 DEF DeadLetter
  <2>2. UNCHANGED <<InHand, Outgoing, Busy>>
    BY <2>1 DEF InHand, Outgoing, Busy
  <2>3. \A e \in doomed : status[e] = "PENDING"
    BY DEF OrderInv, LockInv, Pending
  <2>4. \A e \in EdgeEvent : /\ Over(e) => Over(e)'
                             /\ Attempted(e)' => Attempted(e)
    BY <2>1, <2>2, <2>3 DEF Over, Gone, Attempted
  <2>5. PrecedenceInv'
    BY <2>1, <2>2, <2>4 DEF PrecedenceInv, OrderInv
  <2>6. LockInv'
    BY <2>1 DEF LockInv, OrderInv
  <2>7. BatchInv'
    <3>1. InHand \subseteq EdgeEvent /\ Outgoing \subseteq EdgeEvent
      <4>1. outbox[Runner] \in Seq(EdgeEvent)
        BY GatewayAssumption
      <4>2. QED BY <4>1, GatewayAssumption, LenProperties DEF InHand, Outgoing
    <3>2. pc[Runner] # "marking"
      BY <2>1 DEF OrderInv, LockInv
    <3>3. QED BY <2>1, <2>2, <2>3, <3>1, <3>2 DEF BatchInv, OrderInv
  <2>8. QED BY <2>5, <2>6, <2>7 DEF OrderInv
<1>5. QED BY <1>1, <1>2, <1>3, <1>4 DEF Acquire, Retention

LEMMA TakeBatchOrderInv ==
    ASSUME IsFiniteSet(EdgeSensors), Base, OrderInv, TakeBatch(Runner)
    PROVE  OrderInv'
<1> USE GatewayAssumption DEF Base, TypeInv, GatewayTypeOK, bufferVars, acqVars, netVars
<1>1. /\ UNCHANGED <<current, bufferVars, acqVars, netVars>>
      /\ batch'[Runner] = GetReplayable
      /\ pc[Runner] = "idle" /\ pc'[Runner] = "loop" /\ acqPc = "idle"
  BY DEF TakeBatch, SenderHasLock
<1>2. batch[Runner] = {} /\ InHand = {} /\ InHand' = GetReplayable
  BY <1>1 DEF OrderInv, BatchInv, InHand, Busy
<1>3. Outgoing' = Outgoing /\ ~Busy /\ ~Busy'
  BY <1>1 DEF Outgoing, Busy
<1>4. GetReplayable \subseteq Replayable
  BY DEF GetReplayable
<1>5. \A e \in EdgeEvent : /\ Over(e) => Over(e)'
                           /\ Attempted(e)' => Attempted(e)
  BY <1>1, <1>2, <1>3, <1>4 DEF Over, Gone, Attempted, Replayable
<1>6. ASSUME NEW e \in EdgeEvent, NEW f \in GetReplayable, LaterReading(e, f)
      PROVE  e \in GetReplayable \/ Over(e)'
  <2>1. CASE e \in Replayable
    BY <1>6, <2>1, SegmentOfSensor
  <2>2. CASE e \notin Replayable
    <3>1. status[f] # "ABSENT" /\ f \in EdgeEvent
      BY <1>4 DEF Replayable
    <3>2. f[2] <= lastSequence[f[1]]
      BY <3>1 DEF FreshInv, MintedIsFresh
    <3>3. e[2] \in Int /\ f[2] \in Int /\ lastSequence[f[1]] \in Int
      BY <3>1 DEF EdgeEvent
    <3>4. e[2] <= lastSequence[e[1]]
      BY <1>6, <3>2, <3>3 DEF LaterReading
    <3>5. status[e] \in {"SENT", "ACKNOWLEDGED", "ABSENT", "DEAD_LETTER"}
      BY <2>2 DEF Replayable, Status
    <3>6. QED BY <1>1, <1>2, <1>4, <2>2, <3>4, <3>5 DEF Over, Gone
  <2>3. QED BY <2>1, <2>2
<1>7. PrecedenceInv'
  BY <1>1, <1>3, <1>5, <1>6 DEF PrecedenceInv, OrderInv
<1>8. LockInv'
  BY <1>1 DEF LockInv, OrderInv, Pending
<1>9. BatchInv'
  BY <1>1, <1>2, <1>3, <1>4 DEF BatchInv, OrderInv, Replayable
<1>10. QED BY <1>7, <1>8, <1>9 DEF OrderInv

\* Both ways a send begins: e moves from the batch to the sender's hands.
LEMMA AttemptOrderInv ==
    ASSUME Base, OrderInv, NEW e \in batch[Runner], NextInBatch(Runner, e),
           UNCHANGED <<bufferVars, acqVars, delivered>>,
           pc[Runner] = "loop", pc'[Runner] \in {"waiting", "failed"},
           current'[Runner] = e, batch'[Runner] = batch[Runner] \ {e},
           Outgoing' \subseteq Outgoing \cup {e}
    PROVE  OrderInv'
<1> USE GatewayAssumption DEF Base, TypeInv, GatewayTypeOK, bufferVars, acqVars
<1>1. e \in EdgeEvent
  OBVIOUS
<1>2. ~Busy /\ Busy' /\ InHand = batch[Runner] /\ InHand' = InHand
  BY <1>1 DEF Busy, InHand
<1>3. \A g \in EdgeEvent : Over(g) <=> Over(g)'
  BY <1>2 DEF Over, Gone
<1>4. \A g \in EdgeEvent : Attempted(g)' => Attempted(g) \/ g = e
  BY <1>2 DEF Attempted
<1>5. ASSUME NEW g \in EdgeEvent, LaterReading(g, e) PROVE Over(g)
  <2>1. g \notin batch[Runner]
    <3>1. g[2] \in Int /\ e[2] \in Int
      BY <1>1 DEF EdgeEvent
    <3>2. ~Before(e, g) /\ g # e
      BY <1>5, <3>1 DEF LaterReading, Before
    <3>3. QED BY <3>2 DEF NextInBatch
  <2>2. QED BY <1>2, <1>5, <2>1 DEF OrderInv, PrecedenceInv
<1>6. PrecedenceInv'
  <2>1. ASSUME NEW g \in EdgeEvent, NEW f \in EdgeEvent, LaterReading(g, f), Attempted(f)'
        PROVE  Over(g)'
    BY <2>1, <1>3, <1>4, <1>5 DEF OrderInv, PrecedenceInv
  <2>2. ASSUME NEW g \in EdgeEvent, NEW f \in batch'[Runner], LaterReading(g, f)
        PROVE  g \in batch'[Runner] \/ Over(g)' \/ (Busy' /\ g = current'[Runner])
    BY <2>2, <1>2, <1>3 DEF OrderInv, PrecedenceInv
  <2>3. QED BY <2>1, <2>2 DEF PrecedenceInv, LaterReading
<1>7. LockInv'
  BY DEF LockInv, OrderInv, Pending
<1>8. BatchInv'
  BY <1>2 DEF BatchInv, OrderInv
<1>9. QED BY <1>6, <1>7, <1>8 DEF OrderInv

LEMMA SendOrderInv ==
    ASSUME Base, OrderInv, Send(Runner)
    PROVE  OrderInv'
<1> USE GatewayAssumption DEF Base, TypeInv, GatewayTypeOK, bufferVars, acqVars, netVars
<1>1. CASE PublishRow(Runner)
  <2>1. PICK e \in batch[Runner] :
           /\ NextInBatch(Runner, e)
           /\ current' = [current EXCEPT ![Runner] = e]
           /\ batch' = [batch EXCEPT ![Runner] = @ \ {e}]
           /\ outbox' = [outbox EXCEPT ![Runner] = Append(@, e)]
    BY <1>1 DEF PublishRow
  <2>2. pc[Runner] = "loop" /\ pc'[Runner] = "waiting" /\ UNCHANGED <<bufferVars, acqVars, delivered>>
    BY <1>1 DEF PublishRow
  <2>3. Outgoing' = Outgoing \cup {e}
    <3>1. outbox[Runner] \in Seq(EdgeEvent) /\ e \in EdgeEvent
      OBVIOUS
    <3>2. outbox'[Runner] = Append(outbox[Runner], e)
      BY <2>1
    <3>3. Outgoing' = Elements(outbox'[Runner])
      BY DEF Outgoing, Elements
    <3>4. QED BY <3>1, <3>2, <3>3, ElementsOfAppend, OutgoingElements
  <2>4. current'[Runner] = e /\ batch'[Runner] = batch[Runner] \ {e}
    BY <2>1
  <2>5. QED BY <2>1, <2>2, <2>3, <2>4, AttemptOrderInv
<1>2. CASE ConnectFails(Runner)
  <2>1. PICK e \in batch[Runner] :
           /\ NextInBatch(Runner, e)
           /\ current' = [current EXCEPT ![Runner] = e]
           /\ batch' = [batch EXCEPT ![Runner] = @ \ {e}]
    BY <1>2 DEF ConnectFails
  <2>2. pc[Runner] = "loop" /\ pc'[Runner] = "failed"
        /\ UNCHANGED <<bufferVars, acqVars, delivered, outbox>>
    BY <1>2 DEF ConnectFails
  <2>3. Outgoing' = Outgoing
    BY <2>2 DEF Outgoing
  <2>4. current'[Runner] = e /\ batch'[Runner] = batch[Runner] \ {e}
    BY <2>1
  <2>5. QED BY <2>1, <2>2, <2>3, <2>4, AttemptOrderInv
<1>3. CASE PublishConfirmed(Runner) \/ PublishTimesOut(Runner)
  <2>1. /\ pc[Runner] = "waiting" /\ pc'[Runner] \in {"sent", "failed"}
        /\ UNCHANGED <<batch, current, bufferVars, acqVars, netVars>>
    BY <1>3 DEF PublishConfirmed, PublishTimesOut
  <2>2. Busy' = Busy
    BY <2>1 DEF Busy
  <2>3. Outgoing' = Outgoing
    BY <2>1 DEF Outgoing
  <2>4. QED BY <2>1, <2>2, <2>3, OrderFrame
<1>4. QED BY <1>1, <1>2, <1>3 DEF Send

LEMMA MarkOrderInv ==
    ASSUME Base, OrderInv, Mark(Runner)
    PROVE  OrderInv'
<1> USE GatewayAssumption DEF Base, TypeInv, GatewayTypeOK, ControlOK, acqVars, netVars
<1> DEFINE c == current[Runner]
<1>1. CASE MarkFailed(Runner)
  <2>1. /\ pc[Runner] = "failed" /\ pc'[Runner] = "loop" /\ acqPc = "idle"
        /\ status' = [status EXCEPT ![c] = "FAILED"]
        /\ batch'[Runner] = {} /\ c \in EdgeEvent
        /\ UNCHANGED <<lastSequence, acqVars, netVars>>
    BY <1>1 DEF MarkFailed, SenderHasLock
  <2>2. Busy /\ ~Busy' /\ c \in InHand /\ InHand' = {} /\ Outgoing' = Outgoing
    BY <2>1 DEF Busy, InHand, Outgoing
  <2>3. status[c] \in {"PENDING", "FAILED", "DEAD_LETTER"}
    BY <2>2 DEF OrderInv, BatchInv
  <2>4. \A e \in EdgeEvent : /\ Over(e) => Over(e)'
                             /\ Attempted(e)' => Attempted(e)
    BY <2>1, <2>2, <2>3 DEF Over, Gone, Attempted
  <2>5. PrecedenceInv'
    BY <2>1, <2>4 DEF PrecedenceInv, OrderInv
  <2>6. LockInv'
    BY <2>1 DEF LockInv, OrderInv
  <2>7. BatchInv'
    BY <2>1, <2>2, <2>3 DEF BatchInv, OrderInv
  <2>8. QED BY <2>5, <2>6, <2>7 DEF OrderInv
<1>2. CASE MarkSent(Runner)
  <2>1. /\ pc[Runner] = "sent" /\ pc'[Runner] = "marking" /\ acqPc = "idle"
        /\ status' = [status EXCEPT ![c] = "SENT"] /\ c \in EdgeEvent
        /\ UNCHANGED <<lastSequence, acqVars, netVars, batch, current>>
    BY <1>2 DEF MarkSent, SenderHasLock
  <2>2. Busy /\ Busy' /\ InHand = batch[Runner] \cup {c} /\ InHand' = batch[Runner]
        /\ Outgoing' = Outgoing
    BY <2>1 DEF Busy, InHand, Outgoing
  <2>3. status[c] \in {"PENDING", "FAILED", "DEAD_LETTER"} /\ c \notin batch[Runner]
    BY <2>2 DEF OrderInv, BatchInv
  <2>4. \A e \in EdgeEvent : /\ Over(e) => Over(e)'
                             /\ Attempted(e)' => Attempted(e)
    BY <2>1, <2>2, <2>3 DEF Over, Gone, Attempted
  <2>5. PrecedenceInv'
    BY <2>1, <2>2, <2>4 DEF PrecedenceInv, OrderInv
  <2>6. LockInv'
    BY <2>1 DEF LockInv, OrderInv
  <2>7. BatchInv'
    BY <2>1, <2>2, <2>3 DEF BatchInv, OrderInv
  <2>8. QED BY <2>5, <2>6, <2>7 DEF OrderInv
<1>3. CASE MarkAcknowledged(Runner)
  <2>1. /\ pc[Runner] = "marking" /\ pc'[Runner] = "loop"
        /\ status' = [status EXCEPT ![c] = "ACKNOWLEDGED"] /\ c \in EdgeEvent
        /\ UNCHANGED <<lastSequence, acqVars, netVars, batch>>
    BY <1>3 DEF MarkAcknowledged
  <2>2. Busy /\ ~Busy' /\ InHand = batch[Runner] /\ InHand' = batch[Runner]
        /\ Outgoing' = Outgoing
    BY <2>1 DEF Busy, InHand, Outgoing
  <2>3. status[c] = "SENT" /\ c \notin batch[Runner] /\ acqPc = "idle"
    BY <2>1, <2>2 DEF OrderInv, BatchInv, LockInv
  <2>a. \A e \in EdgeEvent : status'[e] = IF e = c THEN "ACKNOWLEDGED" ELSE status[e]
    BY <2>1
  <2>4. ASSUME NEW e \in EdgeEvent
        PROVE  (Over(e) => Over(e)') /\ (Attempted(e)' => Attempted(e))
    <3>1. CASE e = c
      BY <2>2, <2>a, <3>1 DEF Over, Attempted
    <3>2. CASE e # c
      <4>1. status'[e] = status[e]
        BY <2>a, <3>2
      <4>2. Over(e) => Over(e)'
        BY <2>1, <2>2, <4>1 DEF Over, Gone
      <4>3. Attempted(e)' => Attempted(e)
        BY <2>1, <2>2, <4>1 DEF Attempted
      <4>4. QED BY <4>2, <4>3
    <3>3. QED BY <3>1, <3>2
  <2>5. \A e \in EdgeEvent : e = c => Over(e)'
    BY <2>a DEF Over
  <2>6. PrecedenceInv'
    <3>1. ASSUME NEW e \in EdgeEvent, NEW f \in EdgeEvent, LaterReading(e, f), Attempted(f)'
          PROVE  Over(e)'
      BY <2>4, <3>1 DEF OrderInv, PrecedenceInv
    <3>2. ASSUME NEW e \in EdgeEvent, NEW f \in batch'[Runner], LaterReading(e, f)
          PROVE  e \in batch'[Runner] \/ Over(e)'
      <4>1. f \in batch[Runner]
        BY <2>1, <3>2
      <4>2. e \in batch[Runner] \/ Over(e) \/ e = c
        BY <3>2, <4>1 DEF OrderInv, PrecedenceInv
      <4>3. QED BY <2>1, <2>4, <2>5, <4>2
    <3>3. QED BY <3>1, <3>2 DEF PrecedenceInv, LaterReading
  <2>7. LockInv'
    BY <2>1, <2>3 DEF LockInv, OrderInv
  <2>8. BatchInv'
    BY <2>1, <2>2, <2>3 DEF BatchInv, OrderInv
  <2>9. QED BY <2>6, <2>7, <2>8 DEF OrderInv
<1>4. QED BY <1>1, <1>2, <1>3 DEF Mark

LEMMA ProcessOrderInv ==
    ASSUME Base, OrderInv,
           \/ EndPass(Runner) \/ NetDeliver(Runner) \/ SenderEnds(Runner)
           \/ SenderStarts(Runner) \/ LinkChanges
    PROVE  OrderInv'
<1> USE GatewayAssumption DEF Base, TypeInv, GatewayTypeOK, ControlOK,
                              bufferVars, acqVars, senderVars, netVars
<1>1. CASE EndPass(Runner)
  <2>1. /\ pc[Runner] = "loop" /\ pc'[Runner] = "idle" /\ batch[Runner] = {}
        /\ UNCHANGED <<outbox, delivered, batch, current, bufferVars, acqVars>>
    BY <1>1 DEF EndPass
  <2>2. Busy' = Busy /\ Outgoing' = Outgoing
    BY <2>1 DEF Busy, Outgoing
  <2>3. QED BY <2>1, <2>2, OrderFrame
<1>2. CASE NetDeliver(Runner)
  <2>1. /\ outbox[Runner] # <<>> /\ outbox'[Runner] = Tail(outbox[Runner])
        /\ delivered' = delivered \cup {Head(outbox[Runner])}
        /\ UNCHANGED <<bufferVars, acqVars, senderVars>> /\ pc[Runner] # "off"
    BY <1>2 DEF NetDeliver
  <2>2. Head(outbox[Runner]) \in Outgoing /\ Outgoing' \subseteq Outgoing
    <3>1. outbox[Runner] \in Seq(EdgeEvent)
      OBVIOUS
    <3>2. Outgoing' = Elements(outbox'[Runner])
      BY DEF Outgoing, Elements
    <3>3. QED BY <2>1, <3>1, <3>2, ElementsOfTail, OutgoingElements
  <2>3. Busy' = Busy
    BY <2>1 DEF Busy
  <2>4. pc[Runner] = "idle" => batch[Runner] = {}
    BY DEF OrderInv, BatchInv
  <2>5. QED BY <2>1, <2>2, <2>3, <2>4, OrderFrame
<1>3. CASE SenderEnds(Runner)
  <2>1. /\ pc'[Runner] = "off" /\ batch'[Runner] = {} /\ outbox'[Runner] = <<>>
        /\ acqPc' = "idle" /\ doomed' = {}
        /\ UNCHANGED <<bufferVars, delivered>>
    BY <1>3 DEF SenderEnds
  <2>2. ~Busy' /\ InHand' = {}
    BY <2>1 DEF Busy, InHand
  <2>3. Outgoing' = {}
    BY <2>1 DEF Outgoing
  <2>4. \A e \in EdgeEvent : /\ Over(e) => Over(e)'
                             /\ Attempted(e)' => Attempted(e)
    BY <2>1, <2>2, <2>3 DEF Over, Gone, Attempted
  <2>5. PrecedenceInv'
    BY <2>1, <2>4 DEF PrecedenceInv, OrderInv
  <2>6. LockInv'
    BY <2>1 DEF LockInv
  <2>7. BatchInv'
    BY <2>1, <2>2, <2>3 DEF BatchInv
  <2>8. QED BY <2>5, <2>6, <2>7 DEF OrderInv
<1>4. CASE SenderStarts(Runner)
  <2>1. /\ pc[Runner] = "off" /\ pc'[Runner] = "idle"
        /\ UNCHANGED <<batch, current, bufferVars, acqVars, netVars>>
    BY <1>4 DEF SenderStarts
  <2>2. Busy' = Busy /\ Outgoing' = Outgoing
    BY <2>1 DEF Busy, Outgoing
  <2>3. batch[Runner] = {}
    BY <2>1 DEF OrderInv, BatchInv
  <2>4. QED BY <2>1, <2>2, <2>3, OrderFrame
<1>5. CASE LinkChanges
  <2>1. UNCHANGED <<outbox, delivered, bufferVars, acqVars, senderVars>>
    BY <1>5 DEF LinkChanges
  <2>2. Busy' = Busy /\ Outgoing' = Outgoing
    BY <2>1 DEF Busy, Outgoing
  <2>3. QED BY <2>1, <2>2, OrderFrame DEF OrderInv, BatchInv
<1>6. QED BY <1>1, <1>2, <1>3, <1>4, <1>5

LEMMA NextOrderInv ==
    ASSUME IsFiniteSet(EdgeSensors), OnlyRunner, Base, OrderInv, [GatewayNext]_gatewayVars
    PROVE  OrderInv'
<1>1. CASE Acquire
  BY <1>1, AcquireOrderInv
<1>2. CASE DrainPass(Runner)
  BY <1>2, TakeBatchOrderInv, SendOrderInv, MarkOrderInv, ProcessOrderInv DEF DrainPass
<1>3. CASE NetDeliver(Runner) \/ SenderEnds(Runner) \/ SenderStarts(Runner) \/ LinkChanges
  BY <1>3, ProcessOrderInv
<1>4. CASE UNCHANGED gatewayVars
  <2>1. UNCHANGED <<lastSequence, status, acqPc, acqEvent, doomed, pc, batch, current,
                    outbox, delivered>>
    BY <1>4 DEF gatewayVars, bufferVars, acqVars, senderVars, netVars
  <2>2. Busy' = Busy /\ Outgoing' = Outgoing
    BY <2>1 DEF Busy, Outgoing
  <2>3. QED BY <2>1, <2>2, OrderFrame DEF OrderInv, BatchInv
<1>5. QED BY <1>1, <1>2, <1>3, <1>4 DEF GatewayNext, OnlyRunner

Inductive == Base /\ OrderInv

LEMMA InductiveHolds ==
    ASSUME IsFiniteSet(EdgeSensors), OnlyRunner
    PROVE  GatewaySpec => []Inductive
<1>1. GatewayInit => Inductive
  <2>1. GatewayInit => DeliveryInv
    BY DEF GatewayInit, DeliveryInv, SettledMeansDelivered, SendInProgress
  <2>2. GatewayInit => FreshInv
    BY GatewayAssumption DEF GatewayInit, FreshInv, MintedIsFresh, RowsExist
  <2>3. QED BY <2>1, <2>2, InitTypeInv, InitOrderInv DEF Inductive, Base
<1>2. Inductive /\ [GatewayNext]_gatewayVars => Inductive'
  BY NextTypeInv, NextFreshInv, NextDeliveryInv, NextOrderInv DEF Inductive, Base
<1>3. QED BY <1>1, <1>2, PTL DEF GatewaySpec

-----------------------------------------------------------------------------
(* Theorems                                                                 *)

\* With one process on the file, a pass that stops at a failure leaves no
\* older row of that sensor to retry.
THEOREM HeadOfLine ==
    ASSUME IsFiniteSet(EdgeSensors), OnlyRunner
    PROVE  GatewaySpec => []FailedIsHeadOfLine
<1>1. Inductive => FailedIsHeadOfLine
  <2>1. SUFFICES ASSUME Inductive, NEW e \in EdgeEvent, NEW f \in EdgeEvent,
                        LaterReading(e, f), status[f] = "FAILED"
                 PROVE  e \notin Replayable
    BY DEF FailedIsHeadOfLine
  <2>2. Over(e)
    BY <2>1 DEF Inductive, OrderInv, PrecedenceInv, Attempted
  <2>3. QED BY <2>2 DEF Over, Gone, Replayable
<1>2. QED BY <1>1, InductiveHolds, PTL

\* What the client still has to send may go out now: it is a row of the
\* buffer, and no younger event of its sensor went before it.
LEMMA NextDelivery ==
    ASSUME Inductive, NEW e \in Outgoing, e \in EdgeEvent
    PROVE  /\ status[e] # "ABSENT"
           /\ e \in delivered \/ \A f \in delivered : ~LaterReading(e, f)
<1> USE GatewayAssumption DEF Inductive, Base, TypeInv, GatewayTypeOK, OrderInv
<1>1. status[e] \in {"SENT", "ACKNOWLEDGED", "FAILED"} \/ (e \in InHand /\ status[e] # "ABSENT")
  <2>1. Busy /\ e = current[Runner] => e \in InHand \/ status[e] = "SENT"
    BY DEF BatchInv, InHand
  <2>2. QED BY <2>1 DEF BatchInv
<1>2. ~Gone(e)
  BY <1>1 DEF Gone
<1>3. ASSUME NEW f \in delivered, LaterReading(e, f) PROVE e \in delivered
  <2>1. Over(e)
    BY <1>3 DEF PrecedenceInv, Attempted
  <2>2. status[e] \in {"SENT", "ACKNOWLEDGED"}
    BY <1>2, <2>1 DEF Over
  <2>3. QED BY <2>2 DEF DeliveryInv, SettledMeansDelivered
<1>4. QED BY <1>1, <1>3

LEMMA HeadIsOutgoing ==
    ASSUME GatewayTypeOK, NetDeliver(Runner)
    PROVE  Head(outbox[Runner]) \in Outgoing /\ Head(outbox[Runner]) \in EdgeEvent
<1>1. outbox[Runner] \in Seq(EdgeEvent) /\ outbox[Runner] # <<>>
  BY GatewayAssumption DEF GatewayTypeOK, NetDeliver
<1>2. QED BY <1>1, ElementsOfTail, OutgoingElements, HeadTailProperties

\* With one process on the file, the broker first sees the events of each
\* sensor in sequence order, whatever outages, timeouts, retries, retention
\* and restarts do to them.
THEOREM OrderOfDelivery ==
    ASSUME IsFiniteSet(EdgeSensors), OnlyRunner
    PROVE  GatewaySpec => FirstDeliveryInOrder
<1> DEFINE InOrder == \A e \in delivered' \ delivered, f \in delivered : ~LaterReading(e, f)
<1>1. Inductive /\ [GatewayNext]_gatewayVars => [InOrder]_delivered
  <2>1. SUFFICES ASSUME Inductive, [GatewayNext]_gatewayVars, delivered' # delivered PROVE InOrder
    OBVIOUS
  <2>2. NetDeliver(Runner)
    BY <2>1
    DEF GatewayNext, Acquire, Retention, DrainPass, Send, Mark, OnlyRunner, gatewayVars, netVars,
        Mint, InsertPending, SelectOverflow, SelectStale, DeadLetter, TakeBatch,
        PublishRow, ConnectFails, PublishConfirmed, PublishTimesOut, MarkFailed, MarkSent,
        MarkAcknowledged, EndPass, SenderEnds, SenderStarts, LinkChanges
  <2>3. delivered' = delivered \cup {Head(outbox[Runner])}
    BY <2>2 DEF NetDeliver
  <2>4. GatewayTypeOK
    BY <2>1 DEF Inductive, Base, TypeInv
  <2>5. QED BY <2>1, <2>2, <2>3, <2>4, HeadIsOutgoing, NextDelivery
<1>2. QED BY <1>1, InductiveHolds, PTL DEF GatewaySpec, FirstDeliveryInOrder

-----------------------------------------------------------------------------
(* What each kind of step does to the rows, in terms of custody.            *)

NoChange == status' = status
Taken    == \E e \in EdgeEvent : /\ status[e] = "ABSENT"
                                 /\ status' = [status EXCEPT ![e] = "PENDING"]
Shedding == /\ doomed \subseteq Pending
            /\ status' = [e \in EdgeEvent |-> IF e \in doomed THEN "DEAD_LETTER" ELSE status[e]]
Failing  == \E e \in EdgeEvent : /\ status[e] \in {"PENDING", "FAILED", "DEAD_LETTER"}
                                 /\ status' = [status EXCEPT ![e] = "FAILED"]
Settling == \E e \in EdgeEvent : /\ status[e] \in {"PENDING", "FAILED", "DEAD_LETTER"}
                                 /\ e \in delivered
                                 /\ status' = [status EXCEPT ![e] = "SENT"]
Closing  == \E e \in EdgeEvent : /\ status[e] = "SENT"
                                 /\ status' = [status EXCEPT ![e] = "ACKNOWLEDGED"]
RowStep  == Taken \/ Shedding \/ Failing \/ Settling \/ Closing

LEMMA RowSteps ==
    ASSUME Inductive, OnlyRunner, GatewayNext
    PROVE  \/ UNCHANGED <<status, delivered>>
           \/ RowStep /\ UNCHANGED delivered
           \/ NoChange /\ NetDeliver(Runner)
<1> USE GatewayAssumption DEF Inductive, Base, TypeInv, GatewayTypeOK, ControlOK, OrderInv
<1>1. CASE InsertPending
  <2>1. acqEvent \in EdgeEvent /\ status[acqEvent] = "ABSENT" /\ UNCHANGED delivered
    BY <1>1 DEF InsertPending, netVars, FreshInv, MintedIsFresh
  <2>2. status' = [status EXCEPT ![acqEvent] = "PENDING"]
    BY <1>1, <2>1 DEF InsertPending
  <2>3. QED BY <2>1, <2>2 DEF RowStep, Taken
<1>2. CASE DeadLetter
  BY <1>2 DEF DeadLetter, netVars, LockInv, RowStep, Shedding
<1>3. ASSUME Mark(Runner) PROVE RowStep /\ UNCHANGED delivered
  <2>1. current[Runner] \in EdgeEvent
    BY <1>3 DEF Mark, MarkFailed, MarkSent, MarkAcknowledged
  <2>2. current[Runner] \in InHand \/ pc[Runner] = "marking"
    BY <1>3, <2>1 DEF Mark, MarkFailed, MarkSent, MarkAcknowledged, InHand, Busy
  <2>3. CASE MarkFailed(Runner)
    <3>1. status[current[Runner]] \in {"PENDING", "FAILED", "DEAD_LETTER"}
      BY <2>2, <2>3 DEF MarkFailed, BatchInv
    <3>2. status' = [status EXCEPT ![current[Runner]] = "FAILED"] /\ UNCHANGED delivered
      BY <2>3 DEF MarkFailed, netVars
    <3>3. QED BY <2>1, <3>1, <3>2 DEF RowStep, Failing
  <2>4. CASE MarkSent(Runner)
    <3>1. status[current[Runner]] \in {"PENDING", "FAILED", "DEAD_LETTER"}
      BY <2>2, <2>4 DEF MarkSent, BatchInv
    <3>2. current[Runner] \in delivered
      BY <2>4 DEF MarkSent, DeliveryInv
    <3>3. status' = [status EXCEPT ![current[Runner]] = "SENT"] /\ UNCHANGED delivered
      BY <2>4 DEF MarkSent, netVars
    <3>4. QED BY <2>1, <3>1, <3>2, <3>3 DEF RowStep, Settling
  <2>5. CASE MarkAcknowledged(Runner)
    <3>1. status[current[Runner]] = "SENT"
      BY <2>5 DEF MarkAcknowledged, BatchInv
    <3>2. status' = [status EXCEPT ![current[Runner]] = "ACKNOWLEDGED"] /\ UNCHANGED delivered
      BY <2>5 DEF MarkAcknowledged, netVars
    <3>3. QED BY <2>1, <3>1, <3>2 DEF RowStep, Closing
  <2>6. QED BY <1>3, <2>3, <2>4, <2>5 DEF Mark
<1>4. CASE NetDeliver(Runner)
  BY <1>4 DEF NetDeliver, bufferVars, NoChange
<1>5. CASE \/ \E s \in EdgeSensors : Mint(s)
           \/ SelectOverflow \/ SelectStale \/ TakeBatch(Runner) \/ Send(Runner)
           \/ EndPass(Runner) \/ SenderEnds(Runner) \/ SenderStarts(Runner) \/ LinkChanges
  BY <1>5
  DEF Mint, SelectOverflow, SelectStale, TakeBatch, Send, PublishRow, ConnectFails,
      PublishConfirmed, PublishTimesOut, EndPass, SenderEnds, SenderStarts, LinkChanges,
      bufferVars, netVars
<1>6. QED BY <1>1, <1>2, <1>3, <1>4, <1>5 DEF GatewayNext, Acquire, Retention, DrainPass, OnlyRunner

\* With one process on the file, nothing that happens later - retention, a
\* late mark, a retry - touches a row once it is ACKNOWLEDGED.
THEOREM Finality ==
    ASSUME IsFiniteSet(EdgeSensors), OnlyRunner
    PROVE  GatewaySpec => AcknowledgedIsFinal
<1> DEFINE Final == \A e \in EdgeEvent : status[e] = "ACKNOWLEDGED" => status'[e] = "ACKNOWLEDGED"
<1>1. Inductive /\ [GatewayNext]_gatewayVars => [Final]_status
  <2>1. SUFFICES ASSUME Inductive, [GatewayNext]_gatewayVars, status' # status PROVE Final
    OBVIOUS
  <2>2. RowStep
    BY <2>1, RowSteps DEF gatewayVars, bufferVars, NoChange
  <2>3. status \in [EdgeEvent -> Status]
    BY <2>1 DEF Inductive, Base, TypeInv, GatewayTypeOK
  <2>4. QED BY <2>2, <2>3 DEF RowStep, Taken, Shedding, Failing, Settling, Closing, Pending
<1>2. QED BY <1>1, InductiveHolds, PTL DEF GatewaySpec, AcknowledgedIsFinal

LEMMA CustodyOfEach ==
    /\ CustodyOf("ABSENT") = "none"
    /\ CustodyOf("PENDING") = "held" /\ CustodyOf("FAILED") = "held"
    /\ CustodyOf("DEAD_LETTER") = "shed"
    /\ CustodyOf("SENT") = "done" /\ CustodyOf("ACKNOWLEDGED") = "done"
BY DEF CustodyOf

LEMMA CustodyOfUpdate ==
    ASSUME NEW st \in [EdgeEvent -> Status], NEW e \in EdgeEvent, NEW v
    PROVE  [g \in EdgeEvent |-> CustodyOf([st EXCEPT ![e] = v][g])]
             = [[g \in EdgeEvent |-> CustodyOf(st[g])] EXCEPT ![e] = CustodyOf(v)]
OBVIOUS

\* With one process on the file, the gateway keeps custody as StoreAndForward
\* promises: nothing let go that the broker does not have, nothing forgotten,
\* and every event first delivered in its sensor's order.
THEOREM CustodyKept ==
    ASSUME IsFiniteSet(EdgeSensors), OnlyRunner
    PROVE  GatewaySpec => CustodyPromise
<1>1. GatewayInit => Promise!Init
  BY DEF GatewayInit, Promise!Init, EdgeEvent, Promise!Event, CustodyOf
<1>2. Inductive /\ [GatewayNext]_gatewayVars => [Promise!Next]_Promise!vars
  <2> SUFFICES ASSUME Inductive, [GatewayNext]_gatewayVars PROVE [Promise!Next]_Promise!vars
    OBVIOUS
  <2> DEFINE custody == [e \in EdgeEvent |-> CustodyOf(status[e])]
  <2>1. status \in [EdgeEvent -> Status] /\ GatewayTypeOK /\ EdgeEvent = Promise!Event
    BY DEF Inductive, Base, TypeInv, GatewayTypeOK, EdgeEvent, Promise!Event
  <2>2. CASE UNCHANGED <<status, delivered>>
    BY <2>2 DEF Promise!vars
  <2>3. CASE NoChange /\ NetDeliver(Runner)
    <3>1. PICK h \in EdgeEvent : /\ delivered' = delivered \cup {h}
                                 /\ h \in Outgoing
      BY <2>1, <2>3, HeadIsOutgoing DEF NetDeliver
    <3>2. /\ status[h] # "ABSENT"
          /\ h \in delivered \/ \A f \in delivered : ~LaterReading(h, f)
      BY <3>1, NextDelivery
    <3>3. custody' = custody
      BY <2>3 DEF NoChange
    <3>4. custody[h] # "none"
      BY <2>1, <3>2 DEF CustodyOf, Status
    <3>5. Promise!Deliver(h)
      BY <3>1, <3>2, <3>3, <3>4 DEF Promise!Deliver, Promise!Later, LaterReading
    <3>6. QED BY <2>1, <3>5 DEF Promise!Next
  <2>4. CASE UNCHANGED delivered /\ Taken
    <3>1. PICK e \in EdgeEvent : /\ status[e] = "ABSENT"
                                 /\ status' = [status EXCEPT ![e] = "PENDING"]
      BY <2>4 DEF Taken
    <3>2. custody[e] = "none" /\ custody' = [custody EXCEPT ![e] = "held"]
      BY <2>1, <3>1, CustodyOfUpdate, CustodyOfEach
    <3>3. Promise!Take(e)
      BY <2>4, <3>2 DEF Promise!Take
    <3>4. QED BY <2>1, <3>3 DEF Promise!Next
  <2>5. CASE UNCHANGED delivered /\ Shedding
    <3>1. \A e \in doomed : e \in EdgeEvent /\ custody[e] = "held"
      BY <2>5 DEF Shedding, Pending, CustodyOf
    <3>2. custody' = [e \in EdgeEvent |-> IF e \in doomed THEN "shed" ELSE custody[e]]
      <4>1. \A e \in EdgeEvent : status'[e] = IF e \in doomed THEN "DEAD_LETTER" ELSE status[e]
        BY <2>5 DEF Shedding
      <4>2. \A e \in EdgeEvent : CustodyOf(status'[e])
                               = IF e \in doomed THEN "shed" ELSE CustodyOf(status[e])
        BY <4>1, CustodyOfEach
      <4>3. QED BY <4>2
    <3>3. Promise!Shed(doomed)
      BY <2>1, <2>5, <3>1, <3>2 DEF Promise!Shed
    <3>4. QED BY <2>1, <3>1, <3>3 DEF Promise!Next
  <2>6. CASE UNCHANGED delivered /\ Failing
    <3>1. PICK e \in EdgeEvent : /\ status[e] \in {"PENDING", "FAILED", "DEAD_LETTER"}
                                 /\ status' = [status EXCEPT ![e] = "FAILED"]
      BY <2>6 DEF Failing
    <3>2. custody' = [custody EXCEPT ![e] = "held"]
      BY <2>1, <3>1, CustodyOfUpdate, CustodyOfEach
    <3>3. CASE status[e] = "DEAD_LETTER"
      <4>1. custody[e] = "shed"
        BY <3>3 DEF CustodyOf
      <4>2. Promise!Reclaim(e)
        BY <2>6, <3>2, <4>1 DEF Promise!Reclaim
      <4>3. QED BY <2>1, <4>2 DEF Promise!Next
    <3>4. CASE status[e] # "DEAD_LETTER"
      <4>1. custody[e] = "held"
        BY <3>1, <3>4 DEF CustodyOf
      <4>2. custody' = custody
        BY <3>2, <4>1
      <4>3. QED BY <2>6, <4>2 DEF Promise!vars
    <3>5. QED BY <3>3, <3>4
  <2>7. CASE UNCHANGED delivered /\ Settling
    <3>1. PICK e \in EdgeEvent : /\ status[e] \in {"PENDING", "FAILED", "DEAD_LETTER"}
                                 /\ e \in delivered
                                 /\ status' = [status EXCEPT ![e] = "SENT"]
      BY <2>7 DEF Settling
    <3>2. custody[e] \in {"held", "shed"} /\ custody' = [custody EXCEPT ![e] = "done"]
      BY <2>1, <3>1, CustodyOfUpdate, CustodyOfEach
    <3>3. Promise!LetGo(e)
      BY <2>7, <3>1, <3>2 DEF Promise!LetGo
    <3>4. QED BY <2>1, <3>3 DEF Promise!Next
  <2>8. CASE UNCHANGED delivered /\ Closing
    <3>1. PICK e \in EdgeEvent : /\ status[e] = "SENT"
                                 /\ status' = [status EXCEPT ![e] = "ACKNOWLEDGED"]
      BY <2>8 DEF Closing
    <3>2. custody[e] = "done" /\ custody' = [custody EXCEPT ![e] = "done"]
      BY <2>1, <3>1, CustodyOfUpdate, CustodyOfEach
    <3>3. custody' = custody
      BY <3>2
    <3>4. QED BY <2>8, <3>3 DEF Promise!vars
  <2>9. \/ UNCHANGED <<status, delivered>>
        \/ RowStep /\ UNCHANGED delivered
        \/ NoChange /\ NetDeliver(Runner)
    BY RowSteps DEF gatewayVars, bufferVars, netVars
  <2>10. QED BY <2>2, <2>3, <2>4, <2>5, <2>6, <2>7, <2>8, <2>9 DEF RowStep
<1>3. QED BY <1>1, <1>2, InductiveHolds, PTL DEF GatewaySpec, CustodyPromise, Promise!Spec

-----------------------------------------------------------------------------
(* The bound on the backlog.                                                *)

\* The step of retention at which the acquisition thread is allows one row too many.
InTurn == IF acqPc \in {"inserted", "overflow"} THEN 1 ELSE 0

PendingInv ==
    /\ Cardinality(Pending) <= MaxBuffered + crashes + InTurn
    /\ acqPc = "overflow" => Cardinality(Pending \ doomed) <= MaxBuffered

\* What the overflow rule leaves is within the limit.
LEMMA OverflowLeaves ==
    ASSUME IsFiniteSet(Pending), NEW D \in Overflow
    PROVE  Cardinality(Pending \ D) <= MaxBuffered
<1> DEFINE n == Cardinality(Pending)
<1>1. n \in Nat /\ MaxBuffered \in Nat
  BY FS_CardinalityType, GatewayAssumption
<1>2. /\ D \in SUBSET Pending
      /\ Cardinality(D) = IF n - MaxBuffered > 0 THEN n - MaxBuffered ELSE 0
  BY DEF Overflow
<1>3. Pending \cap D = D
  BY <1>2
<1>4. Cardinality(Pending \ D) = n - Cardinality(D)
  BY <1>3, FS_Difference
<1> HIDE DEF n
<1>5. QED BY <1>1, <1>2, <1>4

LEMMA NextPending ==
    ASSUME IsFiniteSet(EdgeSensors), TypeInv, PendingInv, [GatewayNext]_gatewayVars
    PROVE  PendingInv'
<1> DEFINE n == Cardinality(Pending)
           n1 == Cardinality(Pending')
<1>0. /\ IsFiniteSet(EdgeEvent) /\ IsFiniteSet(Pending) /\ n \in Nat
      /\ IsFiniteSet(Pending') /\ n1 \in Nat
      /\ MaxBuffered \in Nat /\ crashes \in Nat /\ status \in [EdgeEvent -> Status]
      /\ n <= MaxBuffered + crashes + InTurn
  BY FiniteEvents, FS_Subset, FS_CardinalityType, GatewayAssumption
  DEF Pending, TypeInv, GatewayTypeOK, PendingInv
<1>1. ASSUME Pending' \subseteq Pending PROVE n1 <= n
  BY <1>0, <1>1, FS_Subset
<1>2. ASSUME Pending' \subseteq Pending, UNCHANGED <<acqPc, doomed>>, crashes' = crashes
      PROVE  PendingInv'
  <2>1. n1 <= MaxBuffered + crashes + InTurn
    BY <1>0, <1>1, <1>2 DEF InTurn
  <2>2. ASSUME acqPc = "overflow" PROVE Cardinality(Pending' \ doomed) <= MaxBuffered
    <3>1. Pending' \ doomed \subseteq Pending \ doomed /\ IsFiniteSet(Pending \ doomed)
      BY <1>0, <1>2, FS_Subset
    <3>2. Cardinality(Pending' \ doomed) <= Cardinality(Pending \ doomed)
      BY <3>1, FS_Subset
    <3>3. Cardinality(Pending' \ doomed) \in Nat /\ Cardinality(Pending \ doomed) \in Nat
      BY <3>1, FS_Subset, FS_CardinalityType
    <3>4. Cardinality(Pending \ doomed) <= MaxBuffered
      BY <2>2 DEF PendingInv
    <3>5. QED BY <1>0, <3>2, <3>3, <3>4
  <2>3. QED BY <1>2, <2>1, <2>2 DEF PendingInv, InTurn
<1>3. ASSUME NEW s \in EdgeSensors, Mint(s) PROVE PendingInv'
  <2>1. /\ acqPc = "idle" /\ acqPc' = "minted"
        /\ Pending' = Pending /\ crashes' = crashes
    BY <1>3 DEF Mint, Pending
  <2>2. QED BY <1>0, <2>1 DEF PendingInv, InTurn
<1>4. CASE InsertPending
  <2>1. /\ acqPc = "minted" /\ acqPc' = "inserted" /\ crashes' = crashes
        /\ Pending' \subseteq Pending \cup {acqEvent}
    BY <1>0, <1>4 DEF InsertPending, Pending
  <2>2. PICK S : S = Pending \cup {acqEvent}
    OBVIOUS
  <2>3. IsFiniteSet(S) /\ Cardinality(S) <= n + 1
    <3>1. PICK T : T = Pending
      OBVIOUS
    <3>2. IsFiniteSet(T \cup {acqEvent})
      BY <1>0, <3>1, FS_AddElement
    <3>3. Cardinality(T \cup {acqEvent}) = IF acqEvent \in T THEN Cardinality(T)
                                                             ELSE Cardinality(T) + 1
      BY <1>0, <3>1, FS_AddElement
    <3>4. QED BY <1>0, <2>2, <3>1, <3>2, <3>3
  <2>4. n1 <= Cardinality(S) /\ Cardinality(S) \in Nat
    BY <2>1, <2>2, <2>3, FS_Subset, FS_CardinalityType
  <2>5. QED BY <1>0, <2>1, <2>3, <2>4 DEF PendingInv, InTurn
<1>5. CASE SelectOverflow
  <2>1. PICK D \in Overflow : /\ doomed' = D
                              /\ acqPc' = IF D = {} THEN "checked" ELSE "overflow"
    BY <1>5 DEF SelectOverflow
  <2>2. Cardinality(Pending \ D) <= MaxBuffered
    BY <1>0, OverflowLeaves
  <2>3. acqPc = "inserted" /\ Pending' = Pending /\ crashes' = crashes
    BY <1>5 DEF SelectOverflow, bufferVars, Pending
  <2>4. CASE D = {}
    <3>1. Pending \ D = Pending
      BY <2>4
    <3>2. n <= MaxBuffered
      BY <2>2, <3>1
    <3>3. QED BY <1>0, <2>1, <2>3, <2>4, <3>2 DEF PendingInv, InTurn
  <2>5. CASE D # {}
    BY <1>0, <2>1, <2>2, <2>3, <2>5 DEF PendingInv, InTurn
  <2>6. QED BY <2>4, <2>5
<1>6. CASE SelectStale
  <2>1. /\ acqPc = "checked" /\ acqPc' \in {"idle", "stale"}
        /\ Pending' = Pending /\ crashes' = crashes
    BY <1>6 DEF SelectStale, bufferVars, Pending
  <2>2. QED BY <1>0, <2>1 DEF PendingInv, InTurn
<1>7. CASE DeadLetter
  <2>1. /\ acqPc \in {"overflow", "stale"} /\ crashes' = crashes
        /\ acqPc' = IF acqPc = "overflow" THEN "checked" ELSE "idle"
        /\ \A e \in EdgeEvent : status'[e] = IF e \in doomed THEN "DEAD_LETTER" ELSE status[e]
    BY <1>7 DEF DeadLetter
  <2>2. Pending' \subseteq Pending \ doomed
    BY <2>1 DEF Pending
  <2>3. CASE acqPc = "overflow"
    <3>1. Cardinality(Pending \ doomed) <= MaxBuffered
      BY <2>3 DEF PendingInv
    <3>2. IsFiniteSet(Pending \ doomed)
      BY <1>0, FS_Subset
    <3>3. n1 <= Cardinality(Pending \ doomed) /\ Cardinality(Pending \ doomed) \in Nat
      BY <2>2, <3>2, FS_Subset, FS_CardinalityType
    <3>4. QED BY <1>0, <2>1, <2>3, <3>1, <3>3 DEF PendingInv, InTurn
  <2>4. CASE acqPc = "stale"
    BY <1>0, <1>1, <2>1, <2>2, <2>4 DEF PendingInv, InTurn
  <2>5. QED BY <2>1, <2>3, <2>4
<1>8. ASSUME NEW w \in Procs, SenderEnds(w) PROVE PendingInv'
  <2>1. crashes' = crashes + 1 /\ Pending' = Pending
    BY <1>8 DEF SenderEnds, bufferVars, Pending
  <2>2. CASE acqPc' = "idle"
    BY <1>0, <2>1, <2>2 DEF PendingInv, InTurn
  <2>3. CASE UNCHANGED <<acqPc, doomed>>
    <3>1. n <= MaxBuffered + (crashes + 1) + InTurn
      BY <1>0 DEF InTurn
    <3>2. QED BY <2>1, <2>3, <3>1 DEF PendingInv, InTurn
  <2>4. QED BY <1>8, <2>2, <2>3 DEF SenderEnds, acqVars
<1>9. ASSUME NEW w \in Procs, MarkFailed(w) \/ MarkSent(w) \/ MarkAcknowledged(w)
      PROVE  PendingInv'
  <2>1. /\ UNCHANGED <<acqPc, doomed>> /\ crashes' = crashes
        /\ \E v \in {"FAILED", "SENT", "ACKNOWLEDGED"} :
              status' = [status EXCEPT ![current[w]] = v]
    BY <1>9 DEF MarkFailed, MarkSent, MarkAcknowledged, acqVars
  <2>2. Pending' \subseteq Pending
    BY <1>0, <2>1 DEF Pending
  <2>3. QED BY <1>2, <2>1, <2>2
<1>10. ASSUME UNCHANGED <<status, acqPc, doomed, crashes>> PROVE PendingInv'
  BY <1>2, <1>10 DEF Pending
<1>11. QED
  BY <1>3, <1>4, <1>5, <1>6, <1>7, <1>8, <1>9, <1>10
  DEF GatewayNext, Acquire, Retention, DrainPass, Send, Mark, TakeBatch, PublishRow, ConnectFails,
      NetDeliver, PublishConfirmed, PublishTimesOut, EndPass, SenderStarts, LinkChanges,
      gatewayVars, bufferVars, acqVars

FailedRows == {e \in EdgeEvent : status[e] = "FAILED"}

\* One FAILED row per sensor.
LEMMA FailedBounded ==
    ASSUME IsFiniteSet(EdgeSensors), FailedIsHeadOfLine
    PROVE  IsFiniteSet(FailedRows) /\ Cardinality(FailedRows) <= Cardinality(EdgeSensors)
<1> DEFINE sensor == [e \in FailedRows |-> e[1]]
<1>1. sensor \in [FailedRows -> EdgeSensors]
  BY DEF FailedRows, EdgeEvent
<1>2. ASSUME NEW e \in FailedRows, NEW f \in FailedRows, e[1] = f[1] PROVE e = f
  <2>1. ~LaterReading(e, f) /\ ~LaterReading(f, e)
    BY DEF FailedIsHeadOfLine, FailedRows, Replayable
  <2>2. e[2] = f[2]
    BY <1>2, <2>1, GatewayAssumption DEF LaterReading, FailedRows, EdgeEvent
  <2>3. QED BY <1>2, <2>2 DEF FailedRows, EdgeEvent
<1>3. \A e, f \in FailedRows : sensor[e] = sensor[f] => e = f
  BY <1>2
<1>4. sensor \in Injection(FailedRows, EdgeSensors)
  BY <1>1, <1>3, Fun_IsInj
<1>5. QED BY <1>4, FS_Injection

\* With one process on the file, what waits is bounded by the cap, the sensors and the
\* crashes, whatever the link does.
THEOREM BacklogIsBounded ==
    ASSUME IsFiniteSet(EdgeSensors), OnlyRunner
    PROVE  GatewaySpec => []BacklogBounded
<1>1. GatewayInit => PendingInv
  <2> SUFFICES ASSUME GatewayInit PROVE PendingInv
    OBVIOUS
  <2>1. Pending = {} /\ acqPc = "idle" /\ crashes = 0
    BY DEF GatewayInit, Pending
  <2>2. QED BY <2>1, FS_EmptySet, GatewayAssumption DEF PendingInv, InTurn
<1>2. GatewaySpec => [](Inductive /\ PendingInv)
  <2>1. Inductive => TypeInv
    BY DEF Inductive, Base
  <2>2. QED BY <1>1, <2>1, InductiveHolds, NextPending, PTL DEF GatewaySpec
<1>3. ASSUME TypeInv, FailedIsHeadOfLine, PendingInv PROVE BacklogBounded
  <2>1. /\ IsFiniteSet(Pending) /\ IsFiniteSet(FailedRows)
        /\ Cardinality(FailedRows) <= Cardinality(EdgeSensors)
    BY <1>3, FiniteEvents, FailedBounded, FS_Subset DEF Pending
  <2>2. Replayable = Pending \cup FailedRows
    BY DEF Replayable, Pending, FailedRows
  <2>3. Cardinality(Replayable) = Cardinality(Pending) + Cardinality(FailedRows)
                                    - Cardinality(Pending \cap FailedRows)
    BY <2>1, <2>2, FS_Union
  <2>4. Pending \cap FailedRows = {}
    BY DEF Pending, FailedRows
  <2>5. Cardinality(Pending \cap FailedRows) = 0
    BY <2>4, FS_EmptySet
  <2>6. /\ Cardinality(Pending) \in Nat /\ Cardinality(FailedRows) \in Nat
        /\ Cardinality(EdgeSensors) \in Nat /\ MaxBuffered \in Nat /\ crashes \in Nat
    BY <1>3, <2>1, FS_CardinalityType, GatewayAssumption DEF TypeInv, GatewayTypeOK
  <2>7. Cardinality(Pending) <= MaxBuffered + crashes + (IF acqPc = "idle" THEN 0 ELSE 1)
    BY <1>3, <2>6 DEF PendingInv, InTurn
  <2>8. QED BY <2>1, <2>3, <2>5, <2>6, <2>7 DEF BacklogBounded
<1>4. Inductive => TypeInv
  BY DEF Inductive, Base
<1>5. QED BY <1>2, <1>3, <1>4, HeadOfLine, PTL
=============================================================================
