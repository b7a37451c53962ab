-------------------------- MODULE EdgeGatewayProofs --------------------------
(***************************************************************************)
(* Theorems about EdgeGateway, for every set of sensors, every bound and   *)
(* every number of crashes.                                                *)
(***************************************************************************)
EXTENDS EdgeGateway, SequenceTheorems, FiniteSetTheorems, TLAPS

LEMMA BumpType ==
    ASSUME NEW limit \in Nat, NEW n \in 0 .. limit
    PROVE  Bump(n, limit) \in 0 .. limit
BY DEF Bump

LEMMA ConnectivityType ==
    ASSUME NEW c \in Connectivity
    PROVE  /\ RecordSuccess(c) \in Connectivity
           /\ RecordFailure(c) \in Connectivity
           /\ InitialConnectivity \in Connectivity
<1>1. Bump(c.successes, RecoveredAfter) \in 0 .. RecoveredAfter
  BY ThresholdsAssumption, BumpType DEF Connectivity
<1>2. Bump(c.failures, OfflineAfter) \in 0 .. OfflineAfter
  BY ThresholdsAssumption, BumpType DEF Connectivity
<1>3. RecordSuccess(c) \in Connectivity
  BY <1>1, ThresholdsAssumption DEF RecordSuccess, Connectivity, ConnectivityState
<1>4. RecordFailure(c) \in Connectivity
  BY <1>2, ThresholdsAssumption DEF RecordFailure, Connectivity, ConnectivityState
<1>5. InitialConnectivity \in Connectivity
  BY ThresholdsAssumption DEF InitialConnectivity, Connectivity, ConnectivityState
<1>6. QED BY <1>3, <1>4, <1>5

\* Where the program counters say an event is at hand, there is one.
ControlOK ==
    /\ acqPc # "idle" => acqEvent \in EdgeEvent /\ pc[Runner] # "off"
    /\ \A w \in Procs : pc[w] \in {"waiting", "failed", "sent", "marking"}
                            => current[w] \in EdgeEvent

TypeInv == GatewayTypeOK /\ ControlOK

LEMMA InitTypeInv == GatewayInit => TypeInv
<1> SUFFICES ASSUME GatewayInit PROVE TypeInv
  OBVIOUS
<1>1. connectivity \in [Procs -> Connectivity]
  BY ThresholdsAssumption DEF GatewayInit, InitialConnectivity, Connectivity, ConnectivityState
<1>2. QED BY <1>1, GatewayAssumption DEF GatewayInit, TypeInv, GatewayTypeOK, ControlOK, Status

LEMMA NextTypeInv == TypeInv /\ [GatewayNext]_gatewayVars => TypeInv'
<1> SUFFICES ASSUME TypeInv, [GatewayNext]_gatewayVars PROVE TypeInv'
  OBVIOUS
<1> USE GatewayAssumption DEF TypeInv, GatewayTypeOK, ControlOK, Status,
        bufferVars, acqVars, senderVars, netVars
<1>1. ASSUME NEW s \in EdgeSensors, Mint(s) PROVE TypeInv'
  <2>1. <<s, lastSequence[s] + 1>> \in EdgeEvent
    BY <1>1 DEF Mint, EdgeEvent
  <2>2. lastSequence' \in [EdgeSensors -> 0 .. MaxAcquired]
    BY <1>1 DEF Mint
  <2>3. QED BY <1>1, <2>1, <2>2 DEF Mint, AcquisitionHasLock
<1>2. CASE InsertPending
  <2>1. acqEvent \in EdgeEvent
    BY <1>2 DEF InsertPending
  <2>2. /\ acqPc' = "inserted"
        /\ UNCHANGED <<lastSequence, acqEvent, doomed, senderVars, netVars, crashes>>
        /\ pc[Runner] # "off"
    BY <1>2 DEF InsertPending
  <2>3. /\ status' \in [EdgeEvent -> Status]
        /\ created' \in [EdgeEvent -> Nat]
        /\ rows' \in Nat
    <3>1. CASE status[acqEvent] = "ABSENT"
      <4>1. /\ status' = [status EXCEPT ![acqEvent] = "PENDING"]
            /\ created' = [created EXCEPT ![acqEvent] = rows + 1]
            /\ rows' = rows + 1
        BY <1>2, <3>1 DEF InsertPending
      <4>2. QED BY <2>1, <4>1
    <3>2. CASE status[acqEvent] # "ABSENT"
      BY <1>2, <3>2 DEF InsertPending
    <3>3. QED BY <3>1, <3>2
  <2>4. QED BY <2>1, <2>2, <2>3
<1>3. CASE SelectOverflow
  BY <1>3 DEF SelectOverflow, Overflow, Pending
<1>4. CASE SelectStale
  BY <1>4 DEF SelectStale, Stale, Pending
<1>5. CASE DeadLetter
  BY <1>5 DEF DeadLetter
<1>6. ASSUME NEW w \in Procs, TakeBatch(w) PROVE TypeInv'
  <2>1. GetReplayable \in SUBSET EdgeEvent
    BY DEF GetReplayable, Replayable
  <2>2. QED BY <1>6, <2>1 DEF TakeBatch
<1>7. ASSUME NEW w \in Procs, PublishRow(w) PROVE TypeInv'
  <2>1. PICK e \in batch[w] : /\ current' = [current EXCEPT ![w] = e]
                              /\ batch' = [batch EXCEPT ![w] = @ \ {e}]
                              /\ outbox' = [outbox EXCEPT ![w] = Append(@, e)]
    BY <1>7 DEF PublishRow
  <2>2. e \in EdgeEvent
    OBVIOUS
  <2>3. Append(outbox[w], e) \in Seq(EdgeEvent)
    BY <2>2
  <2>4. outbox' \in [Procs -> Seq(EdgeEvent)]
    BY <2>1, <2>3
  <2>5. QED BY <1>7, <2>1, <2>2, <2>4 DEF PublishRow
<1>8. ASSUME NEW w \in Procs, ConnectFails(w) PROVE TypeInv'
  BY <1>8 DEF ConnectFails
<1>9. ASSUME NEW w \in Procs, NetDeliver(w) PROVE TypeInv'
  <2>1. Head(outbox[w]) \in EdgeEvent /\ Tail(outbox[w]) \in Seq(EdgeEvent)
    BY <1>9 DEF NetDeliver
  <2>2. outbox' \in [Procs -> Seq(EdgeEvent)]
    BY <1>9, <2>1 DEF NetDeliver
  <2>3. QED BY <1>9, <2>1, <2>2 DEF NetDeliver
<1>10. ASSUME NEW w \in Procs, PublishConfirmed(w) PROVE TypeInv'
  BY <1>10 DEF PublishConfirmed
<1>11. ASSUME NEW w \in Procs, PublishTimesOut(w) PROVE TypeInv'
  BY <1>11 DEF PublishTimesOut
<1>12. ASSUME NEW w \in Procs, MarkFailed(w) PROVE TypeInv'
  <2>1. connectivity' \in [Procs -> Connectivity]
    BY <1>12, ConnectivityType DEF MarkFailed
  <2>2. QED BY <1>12, <2>1 DEF MarkFailed
<1>13. ASSUME NEW w \in Procs, MarkSent(w) PROVE TypeInv'
  BY <1>13 DEF MarkSent
<1>14. ASSUME NEW w \in Procs, MarkAcknowledged(w) PROVE TypeInv'
  <2>1. connectivity' \in [Procs -> Connectivity]
    BY <1>14, ConnectivityType DEF MarkAcknowledged
  <2>2. QED BY <1>14, <2>1 DEF MarkAcknowledged
<1>15. ASSUME NEW w \in Procs, EndPass(w) PROVE TypeInv'
  <2>1. connectivity' \in [Procs -> Connectivity]
    <3>1. CASE w = Runner \/ progress[w]
      BY <1>15, <3>1 DEF EndPass
    <3>2. CASE ~(w = Runner \/ progress[w])
      BY <1>15, <3>2, ConnectivityType DEF EndPass
    <3>3. QED BY <3>1, <3>2
  <2>2. outbox' \in [Procs -> Seq(EdgeEvent)]
    <3>1. CASE w = Runner \/ progress[w]
      BY <1>15, <3>1 DEF EndPass
    <3>2. CASE ~(w = Runner \/ progress[w])
      <4>1. outbox' = [outbox EXCEPT ![w] = <<>>]
        BY <1>15, <3>2 DEF EndPass
      <4>2. <<>> \in Seq(EdgeEvent)
        OBVIOUS
      <4>3. QED BY <4>1, <4>2
    <3>3. QED BY <3>1, <3>2
  <2>3. /\ pc' = [pc EXCEPT ![w] = "idle"] \/ (pc' = [pc EXCEPT ![w] = "off"] /\ w # Runner)
        /\ progress' = [progress EXCEPT ![w] = FALSE]
        /\ UNCHANGED <<batch, current, bufferVars, acqVars, brokerUp, delivered, crashes>>
    BY <1>15 DEF EndPass
  <2>4. pc' \in [Procs -> {"off", "idle", "loop", "waiting", "failed", "sent", "marking"}]
    BY <2>3
  <2>5. ControlOK'
    BY <2>3
  <2>6. GatewayTypeOK'
    BY <2>1, <2>2, <2>3, <2>4
  <2>7. QED BY <2>5, <2>6
<1>16. ASSUME NEW w \in Procs, SenderEnds(w) PROVE TypeInv'
  <2>1. connectivity' \in [Procs -> Connectivity]
    BY <1>16, ConnectivityType DEF SenderEnds
  <2>2. outbox' \in [Procs -> Seq(EdgeEvent)]
    BY <1>16 DEF SenderEnds
  <2>3. ControlOK'
    BY <1>16 DEF SenderEnds
  <2>4. QED BY <1>16, <2>1, <2>2, <2>3 DEF SenderEnds
<1>17. ASSUME NEW w \in Procs, SenderStarts(w) PROVE TypeInv'
  BY <1>17 DEF SenderStarts
<1>18. CASE LinkChanges
  BY <1>18 DEF LinkChanges
<1>19. CASE UNCHANGED gatewayVars
  BY <1>19 DEF gatewayVars
<1>20. QED
  BY <1>1, <1>2, <1>3, <1>4, <1>5, <1>6, <1>7, <1>8, <1>9, <1>10, <1>11, <1>12, <1>13,
     <1>14, <1>15, <1>16, <1>17, <1>18, <1>19
  DEF GatewayNext, Acquire, Retention, DrainPass, Send, Mark

\* Every variable of the gateway keeps its type in every behaviour.
THEOREM TypeCorrect == GatewaySpec => []GatewayTypeOK
<1>1. GatewaySpec => []TypeInv
  BY InitTypeInv, NextTypeInv, PTL DEF GatewaySpec
<1>2. TypeInv => GatewayTypeOK
  BY DEF TypeInv
<1>3. QED BY <1>1, <1>2, PTL

-----------------------------------------------------------------------------
(* Identity: a minted sequence number names a new event.                    *)

\* What a thread has picked up is a row of the table.
RowsExist ==
    \A e \in EdgeEvent :
        e \in doomed \/ (\E w \in Procs : e \in batch[w] \/ e = current[w])
            => status[e] # "ABSENT"

FreshInv ==
    /\ RowsExist
    /\ MintedIsFresh
    /\ acqPc = "minted" => acqEvent[2] = lastSequence[acqEvent[1]]

LEMMA NextFreshInv == TypeInv /\ FreshInv /\ [GatewayNext]_gatewayVars => FreshInv'
<1> SUFFICES ASSUME TypeInv, FreshInv, [GatewayNext]_gatewayVars PROVE FreshInv'
  OBVIOUS
<1> USE DEF TypeInv, GatewayTypeOK, ControlOK, FreshInv, MintedIsFresh, RowsExist,
        bufferVars, acqVars, senderVars, netVars
<1>1. ASSUME NEW s \in EdgeSensors, Mint(s) PROVE FreshInv'
  <2>1. acqEvent' = <<s, lastSequence[s] + 1>> /\ acqEvent' \in EdgeEvent
    BY <1>1, GatewayAssumption DEF Mint, EdgeEvent
  <2>2. /\ lastSequence' = [lastSequence EXCEPT ![s] = @ + 1]
        /\ UNCHANGED <<status, doomed, batch, current>>
    BY <1>1 DEF Mint
  <2>3. \A e \in EdgeEvent : status[e] # "ABSENT" => e[2] <= lastSequence'[e[1]]
    BY <2>2 DEF EdgeEvent
  <2>4. status[acqEvent'] = "ABSENT"
    BY <2>1
  <2>5. acqEvent'[2] = lastSequence'[acqEvent'[1]]
    BY <2>1, <2>2
  <2>6. QED BY <2>2, <2>3, <2>4, <2>5
<1>2. CASE InsertPending
  <2>1. \A e \in EdgeEvent : /\ status'[e] # "ABSENT" => status[e] # "ABSENT" \/ e = acqEvent
                             /\ status[e] # "ABSENT" => status'[e] # "ABSENT"
    <3>1. CASE status[acqEvent] = "ABSENT"
      BY <1>2, <3>1 DEF InsertPending
    <3>2. CASE status[acqEvent] # "ABSENT"
      BY <1>2, <3>2 DEF InsertPending
    <3>3. QED BY <3>1, <3>2
  <2>2. /\ acqPc = "minted" /\ acqPc' = "inserted"
        /\ UNCHANGED <<lastSequence, doomed, batch, current>>
    BY <1>2 DEF InsertPending
  <2>3. \A e \in EdgeEvent : status'[e] # "ABSENT" => e[2] <= lastSequence[e[1]]
    BY <2>1, <2>2 DEF EdgeEvent
  <2>4. QED BY <2>1, <2>2, <2>3
<1>3. CASE SelectOverflow
  BY <1>3 DEF SelectOverflow, Overflow, Pending
<1>4. CASE SelectStale
  BY <1>4 DEF SelectStale, Stale, Pending
<1>5. CASE DeadLetter
  BY <1>5 DEF DeadLetter
<1>6. ASSUME NEW w \in Procs, TakeBatch(w) PROVE FreshInv'
  BY <1>6 DEF TakeBatch, GetReplayable, Replayable
<1>7. ASSUME NEW w \in Procs, PublishRow(w) PROVE FreshInv'
  BY <1>7 DEF PublishRow
<1>8. ASSUME NEW w \in Procs, ConnectFails(w) PROVE FreshInv'
  BY <1>8 DEF ConnectFails
<1>9. ASSUME NEW w \in Procs,
             \/ NetDeliver(w) \/ PublishConfirmed(w) \/ PublishTimesOut(w) \/ SenderStarts(w)
      PROVE FreshInv'
  <2>1. UNCHANGED <<batch, current, bufferVars, acqVars>>
    BY <1>9 DEF NetDeliver, PublishConfirmed, PublishTimesOut, SenderStarts
  <2>2. QED BY <2>1
<1>10. ASSUME NEW w \in Procs, MarkFailed(w) PROVE FreshInv'
  BY <1>10, GatewayAssumption DEF MarkFailed
<1>11. ASSUME NEW w \in Procs, MarkSent(w) PROVE FreshInv'
  BY <1>11 DEF MarkSent
<1>12. ASSUME NEW w \in Procs, MarkAcknowledged(w) PROVE FreshInv'
  BY <1>12, GatewayAssumption DEF MarkAcknowledged
<1>13. ASSUME NEW w \in Procs, EndPass(w) PROVE FreshInv'
  BY <1>13 DEF EndPass
<1>14. ASSUME NEW w \in Procs, SenderEnds(w) PROVE FreshInv'
  <2>1. /\ UNCHANGED <<status, lastSequence>>
        /\ batch' = [batch EXCEPT ![w] = {}]
        /\ current' = [current EXCEPT ![w] = NoEdgeEvent]
    BY <1>14 DEF SenderEnds
  <2>2. \/ acqPc' = "idle" /\ doomed' = {}
        \/ UNCHANGED acqVars
    BY <1>14 DEF SenderEnds
  <2>3. RowsExist'
    BY <2>1, <2>2, GatewayAssumption
  <2>4. QED BY <2>1, <2>2, <2>3
<1>15. CASE LinkChanges
  BY <1>15 DEF LinkChanges
<1>16. CASE UNCHANGED gatewayVars
  BY <1>16 DEF gatewayVars
<1>17. QED
  BY <1>1, <1>2, <1>3, <1>4, <1>5, <1>6, <1>7, <1>8, <1>9, <1>10, <1>11, <1>12, <1>13,
     <1>14, <1>15, <1>16
  DEF GatewayNext, Acquire, Retention, DrainPass, Send, Mark

\* insert_pending never meets an existing row, for any number of processes
\* and crashes.
THEOREM FreshIds == GatewaySpec => []MintedIsFresh
<1>1. GatewayInit => TypeInv /\ FreshInv
  BY InitTypeInv, GatewayAssumption DEF GatewayInit, FreshInv, RowsExist, MintedIsFresh
<1>2. GatewaySpec => [](TypeInv /\ FreshInv)
  BY <1>1, NextTypeInv, NextFreshInv, PTL DEF GatewaySpec
<1>3. FreshInv => MintedIsFresh
  BY DEF FreshInv
<1>4. QED BY <1>2, <1>3, PTL

-----------------------------------------------------------------------------
(* Delivery: what the buffer calls settled is at the broker.                *)

LEMMA LastOfAppend ==
    ASSUME NEW S, NEW q \in Seq(S), NEW e \in S
    PROVE  Append(q, e) # <<>> /\ Append(q, e)[Len(Append(q, e))] = e
BY AppendProperties

LEMMA LastOfTail ==
    ASSUME NEW S, NEW q \in Seq(S), q # <<>>
    PROVE  /\ Tail(q) = <<>> => Head(q) = q[Len(q)]
           /\ Tail(q) # <<>> => Tail(q)[Len(Tail(q))] = q[Len(q)]
<1>1. /\ Len(q) \in Nat \ {0}
      /\ Tail(q) \in Seq(S)
      /\ Len(Tail(q)) = Len(q) - 1
      /\ \A i \in 1 .. Len(Tail(q)) : Tail(q)[i] = q[i + 1]
  BY EmptySeq, HeadTailProperties
<1>2. Tail(q) = <<>> => Len(q) = 1
  BY <1>1, EmptySeq
<1>3. Tail(q) # <<>> => Len(Tail(q)) \in 1 .. Len(Tail(q))
  BY <1>1, EmptySeq
<1>4. Tail(q) # <<>> => Tail(q)[Len(Tail(q))] = q[Len(Tail(q)) + 1]
  BY <1>1, <1>3
<1>5. Head(q) = q[1]
  BY <1>1
<1>6. QED BY <1>1, <1>2, <1>4, <1>5

\* The message of an unfinished send is the last one its client was given;
\* it is at the broker when the client has nothing left.
SendInProgress ==
    \A w \in Procs :
        pc[w] = "waiting" =>
            IF outbox[w] = <<>> THEN current[w] \in delivered
            ELSE outbox[w][Len(outbox[w])] = current[w]

DeliveryInv ==
    /\ SettledMeansDelivered
    /\ SendInProgress
    /\ \A w \in Procs : pc[w] \in {"sent", "marking"} => current[w] \in delivered

LEMMA NextDeliveryInv == TypeInv /\ DeliveryInv /\ [GatewayNext]_gatewayVars => DeliveryInv'
<1> SUFFICES ASSUME TypeInv, DeliveryInv, [GatewayNext]_gatewayVars PROVE DeliveryInv'
  OBVIOUS
<1> USE DEF TypeInv, GatewayTypeOK, ControlOK, DeliveryInv, SettledMeansDelivered, SendInProgress,
        bufferVars, acqVars, senderVars, netVars
<1>1. ASSUME NEW s \in EdgeSensors, Mint(s) PROVE DeliveryInv'
  BY <1>1 DEF Mint
<1>2. CASE InsertPending
  <2>1. \A e \in EdgeEvent : status'[e] \in {"SENT", "ACKNOWLEDGED"} => status'[e] = status[e]
    <3>1. CASE status[acqEvent] = "ABSENT"
      BY <1>2, <3>1 DEF InsertPending
    <3>2. CASE status[acqEvent] # "ABSENT"
      BY <1>2, <3>2 DEF InsertPending
    <3>3. QED BY <3>1, <3>2
  <2>2. UNCHANGED <<pc, current, netVars>>
    BY <1>2 DEF InsertPending
  <2>3. QED BY <2>1, <2>2
<1>3. CASE SelectOverflow \/ SelectStale
  BY <1>3 DEF SelectOverflow, SelectStale
<1>4. CASE DeadLetter
  BY <1>4 DEF DeadLetter
<1>5. ASSUME NEW w \in Procs, TakeBatch(w) \/ ConnectFails(w) PROVE DeliveryInv'
  BY <1>5, ZenonT(60) DEF TakeBatch, ConnectFails
<1>6. ASSUME NEW w \in Procs, PublishRow(w) PROVE DeliveryInv'
  <2>1. PICK e \in batch[w] : /\ current' = [current EXCEPT ![w] = e]
                              /\ outbox' = [outbox EXCEPT ![w] = Append(@, e)]
    BY <1>6 DEF PublishRow
  <2>2. pc' = [pc EXCEPT ![w] = "waiting"] /\ UNCHANGED <<status, delivered>>
    BY <1>6 DEF PublishRow
  <2>3. /\ Append(outbox[w], e) # <<>>
        /\ Append(outbox[w], e)[Len(Append(outbox[w], e))] = e
    <3>1. e \in EdgeEvent /\ outbox[w] \in Seq(EdgeEvent)
      OBVIOUS
    <3>2. QED BY ONLY <3>1, LastOfAppend
  <2>4. SendInProgress'
    BY <2>1, <2>2, <2>3
  <2>5. QED BY <2>1, <2>2, <2>4
<1>7. ASSUME NEW w \in Procs, NetDeliver(w) PROVE DeliveryInv'
  <2>1. /\ outbox[w] # <<>> /\ outbox' = [outbox EXCEPT ![w] = Tail(@)]
        /\ delivered' = delivered \cup {Head(outbox[w])}
        /\ UNCHANGED <<status, pc, current>>
    BY <1>7 DEF NetDeliver
  <2>2. outbox[w] \in Seq(EdgeEvent)
    OBVIOUS
  <2>3. CASE Tail(outbox[w]) = <<>>
    <3>1. Head(outbox[w]) = outbox[w][Len(outbox[w])]
      BY <2>1, <2>2, <2>3, LastOfTail
    <3>2. SendInProgress'
      BY <2>1, <2>3, <3>1
    <3>3. QED BY <2>1, <3>2
  <2>4. CASE Tail(outbox[w]) # <<>>
    <3>1. Tail(outbox[w])[Len(Tail(outbox[w]))] = outbox[w][Len(outbox[w])]
      BY <2>1, <2>2, <2>4, LastOfTail
    <3>2. SendInProgress'
      BY <2>1, <2>4, <3>1
    <3>3. QED BY <2>1, <3>2
  <2>5. QED BY <2>3, <2>4
<1>8. ASSUME NEW w \in Procs,
             PublishConfirmed(w) \/ PublishTimesOut(w) \/ SenderStarts(w)
      PROVE DeliveryInv'
  BY <1>8 DEF PublishConfirmed, PublishTimesOut, SenderStarts
<1>9. ASSUME NEW w \in Procs, MarkFailed(w) PROVE DeliveryInv'
  BY <1>9 DEF MarkFailed
<1>10. ASSUME NEW w \in Procs, MarkSent(w) PROVE DeliveryInv'
  BY <1>10 DEF MarkSent
<1>11. ASSUME NEW w \in Procs, MarkAcknowledged(w) PROVE DeliveryInv'
  BY <1>11 DEF MarkAcknowledged
<1>12. ASSUME NEW w \in Procs, EndPass(w) PROVE DeliveryInv'
  <2>1. /\ UNCHANGED <<status, delivered, current>>
        /\ pc' = [pc EXCEPT ![w] = "idle"] \/ pc' = [pc EXCEPT ![w] = "off"]
        /\ outbox' = outbox \/ outbox' = [outbox EXCEPT ![w] = <<>>]
    BY <1>12 DEF EndPass
  <2>2. \A v \in Procs : pc'[v] \in {"waiting", "sent", "marking"}
                             => pc'[v] = pc[v] /\ outbox'[v] = outbox[v]
    BY <2>1
  <2>3. QED BY <2>1, <2>2
<1>13. ASSUME NEW w \in Procs, SenderEnds(w) PROVE DeliveryInv'
  <2>1. /\ UNCHANGED <<status, delivered>>
        /\ pc' = [pc EXCEPT ![w] = "off"]
        /\ outbox' = [outbox EXCEPT ![w] = <<>>]
        /\ current' = [current EXCEPT ![w] = NoEdgeEvent]
    BY <1>13 DEF SenderEnds
  <2>2. QED BY <2>1
<1>14. CASE LinkChanges
  BY <1>14 DEF LinkChanges
<1>15. CASE UNCHANGED gatewayVars
  BY <1>15 DEF gatewayVars
<1>16. QED
  BY <1>1, <1>2, <1>3, <1>4, <1>5, <1>6, <1>7, <1>8, <1>9, <1>10, <1>11, <1>12, <1>13,
     <1>14, <1>15
  DEF GatewayNext, Acquire, Retention, DrainPass, Send, Mark

\* A row marked SENT or ACKNOWLEDGED is at the broker, for any number of
\* processes draining the same file.
THEOREM SettledIsDelivered == GatewaySpec => []SettledMeansDelivered
<1>1. GatewayInit => TypeInv /\ DeliveryInv
  BY InitTypeInv
  DEF GatewayInit, DeliveryInv, SettledMeansDelivered, SendInProgress
<1>2. GatewaySpec => [](TypeInv /\ DeliveryInv)
  BY <1>1, NextTypeInv, NextDeliveryInv, PTL DEF GatewaySpec
<1>3. DeliveryInv => SettledMeansDelivered
  BY DEF DeliveryInv
<1>4. QED BY <1>2, <1>3, PTL

-----------------------------------------------------------------------------
(* The connectivity shown in the health snapshot.                           *)

\* What ConnectivityTellsTheTruth says of the view of one process.
Truthful(c) ==
    /\ c.state = "OFFLINE" <=> c.failures = OfflineAfter
    /\ c.state = "DEGRADED" <=> c.failures \in 1 .. OfflineAfter - 1
    /\ c.state = "RECOVERING" => c.successes \in 1 .. RecoveredAfter - 1

LEMMA InitialIsTruthful == Truthful(InitialConnectivity)
BY ThresholdsAssumption DEF Truthful, InitialConnectivity

LEMMA SuccessIsTruthful ==
    ASSUME NEW c \in Connectivity
    PROVE  Truthful(RecordSuccess(c))
<1> DEFINE wins == Bump(c.successes, RecoveredAfter)
<1>1. wins \in 1 .. RecoveredAfter
  BY ThresholdsAssumption DEF Bump, Connectivity
<1>2. PICK d : d = RecordSuccess(c)
  OBVIOUS
<1>3. /\ d.failures = 0 /\ d.successes = wins
      /\ d.state \in {"RECOVERING", "ONLINE"}
      /\ d.state = "RECOVERING" => wins < RecoveredAfter
  BY <1>2 DEF RecordSuccess
<1> HIDE DEF wins
<1>4. d.state = "RECOVERING" => d.successes \in 1 .. RecoveredAfter - 1
  BY <1>1, <1>3, ThresholdsAssumption
<1>5. d.state # "OFFLINE" /\ d.state # "DEGRADED"
  BY <1>3
<1>6. d.failures # OfflineAfter /\ d.failures \notin 1 .. OfflineAfter - 1
  BY <1>3, ThresholdsAssumption
<1>7. Truthful(d)
  BY <1>4, <1>5, <1>6 DEF Truthful
<1>8. QED BY <1>2, <1>7

LEMMA FailureIsTruthful ==
    ASSUME NEW c \in Connectivity, Truthful(c)
    PROVE  Truthful(RecordFailure(c))
<1> DEFINE losses == Bump(c.failures, OfflineAfter)
<1>1. c.failures \in 0 .. OfflineAfter
  BY DEF Connectivity
<1>2. losses \in 1 .. OfflineAfter /\ (c.failures = OfflineAfter => losses = OfflineAfter)
  BY <1>1, ThresholdsAssumption DEF Bump
<1>3. c.state = "OFFLINE" => losses = OfflineAfter
  BY <1>2 DEF Truthful
<1>4. PICK d : d = RecordFailure(c)
  OBVIOUS
<1> HIDE DEF losses
<1>5. /\ d.failures = losses
      /\ d.state = IF losses >= OfflineAfter \/ c.state = "OFFLINE"
                   THEN "OFFLINE" ELSE "DEGRADED"
  BY <1>4 DEF RecordFailure, losses
<1>6. CASE losses = OfflineAfter
  <2>1. d.state = "OFFLINE"
    BY <1>2, <1>5, <1>6, ThresholdsAssumption
  <2>2. d.failures \notin 1 .. OfflineAfter - 1
    BY <1>5, <1>6, ThresholdsAssumption
  <2>3. QED BY <1>4, <1>5, <1>6, <2>1, <2>2 DEF Truthful
<1>7. CASE losses # OfflineAfter
  <2>1. losses \in 1 .. OfflineAfter - 1 /\ ~(losses >= OfflineAfter)
    BY <1>2, <1>7, ThresholdsAssumption
  <2>2. d.state = "DEGRADED"
    BY <1>3, <1>5, <1>7, <2>1
  <2>3. QED BY <1>4, <1>5, <1>7, <2>1, <2>2 DEF Truthful
<1>8. QED BY <1>6, <1>7

TruthfulInv == \A w \in Procs : Truthful(connectivity[w])

LEMMA NextTruthful == TypeInv /\ TruthfulInv /\ [GatewayNext]_gatewayVars => TruthfulInv'
<1> SUFFICES ASSUME TypeInv, TruthfulInv, [GatewayNext]_gatewayVars, NEW v \in Procs
             PROVE  Truthful(connectivity'[v])
  BY DEF TruthfulInv, Truthful
<1>0. connectivity \in [Procs -> Connectivity] /\ Truthful(connectivity[v])
  BY DEF TypeInv, GatewayTypeOK, TruthfulInv
<1>1. PICK c \in Connectivity : c = connectivity[v] /\ Truthful(c)
  BY <1>0
<1>2. CASE connectivity' = connectivity
  BY <1>0, <1>2
<1>3. ASSUME NEW w \in Procs,
             connectivity' \in {[connectivity EXCEPT ![w] = RecordFailure(@)],
                                [connectivity EXCEPT ![w] = RecordSuccess(@)],
                                [connectivity EXCEPT ![w] = InitialConnectivity]}
      PROVE  Truthful(connectivity'[v])
  <2>1. connectivity'[v] \in {c, RecordFailure(c), RecordSuccess(c), InitialConnectivity}
    BY <1>0, <1>1, <1>3
  <2>2. QED BY <1>1, <2>1, InitialIsTruthful, SuccessIsTruthful, FailureIsTruthful
<1>4. \/ connectivity' = connectivity
      \/ \E w \in Procs :
            connectivity' \in {[connectivity EXCEPT ![w] = RecordFailure(@)],
                               [connectivity EXCEPT ![w] = RecordSuccess(@)],
                               [connectivity EXCEPT ![w] = InitialConnectivity]}
  BY DEF GatewayNext, Acquire, Retention, DrainPass, Send, Mark, Mint, InsertPending, SelectOverflow,
      SelectStale, DeadLetter, TakeBatch, PublishRow, ConnectFails, NetDeliver,
      PublishConfirmed, PublishTimesOut, MarkFailed, MarkSent, MarkAcknowledged, EndPass,
      SenderEnds, SenderStarts, LinkChanges, gatewayVars, senderVars
<1>5. QED BY <1>2, <1>3, <1>4

\* The state shown in health agrees with the run of outcomes behind it, for every pair
\* of thresholds.
THEOREM ConnectivityIsTruthful == GatewaySpec => []ConnectivityTellsTheTruth
<1>1. GatewayInit => TruthfulInv
  BY InitialIsTruthful DEF GatewayInit, TruthfulInv
<1>2. GatewaySpec => [](TypeInv /\ TruthfulInv)
  BY <1>1, InitTypeInv, NextTypeInv, NextTruthful, PTL DEF GatewaySpec
<1>3. TruthfulInv => ConnectivityTellsTheTruth
  BY DEF TruthfulInv, Truthful, ConnectivityTellsTheTruth
<1>4. QED BY <1>2, <1>3, PTL
=============================================================================
