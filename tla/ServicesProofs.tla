--------------------------- MODULE ServicesProofs ---------------------------
(***************************************************************************)
(* Theorems about the services: the lubrication cycle failure of the edge's *)
(* local rules, the offsets of the data quality worker's topic loop, the   *)
(* files of the model registry and the circuit breaker, and the types of   *)
(* all of them together; for any number of sensors, events, scripts and    *)
(* calls.                                                                  *)
(***************************************************************************)
EXTENDS MCServices, MonitoringProofs, ModelRegistry

-----------------------------------------------------------------------------
(* The local rules. *)

\* What the memory of the cycle check says, besides the types: the time since
\* which the pressure is low is not before the last contradiction, and nothing is
\* remembered or raised before both signals are known.
CycleMemory ==
    /\ now \in Nat
    /\ contradicted \in Int
    /\ contradicted <= now
    /\ lowSince \in {Never} \cup Nat
    /\ latest \in [{"PUMP_CURRENT", "PRESSURE"} -> Values \cup {Missing}]
    /\ lowSince # Never => /\ Known(latest)
                           /\ contradicted <= lowSince
                           /\ lowSince <= now
    /\ CycleFailure \in open => Known(latest)

\* Only the cycle check opens or clears the alert of a cycle failure.
LEMMA OnlyCycleCheck ==
    ASSUME NEW r \in Reading
    PROVE  CycleFailure \in CheckFault(CheckCycle(CheckReservoir(CheckRange(open, r), r), r), r)
           <=> CASE ~Paired(r) \/ ~Known(Latest(r)) -> CycleFailure \in open
                 [] Paired(r) /\ Known(Latest(r)) /\ ~Undelivered(Latest(r)) -> FALSE
                 [] OTHER -> \/ now - LowSince(r) >= FailureSeconds
                             \/ CycleFailure \in open
<1> DEFINE before == CheckReservoir(CheckRange(open, r), r)
           cycle_ == CheckCycle(before, r)
<1>1. /\ CycleFailure # <<"range", r.type>>
      /\ CycleFailure # <<"sensor_fault", r.type>>
      /\ CycleFailure # <<"reservoir_critical">>
  BY DEF CycleFailure
<1>2. CycleFailure \in before <=> CycleFailure \in open
  BY <1>1 DEF CheckReservoir, CheckRange, Opened
<1>3. CycleFailure \in CheckFault(cycle_, r) <=> CycleFailure \in cycle_
  BY <1>1 DEF CheckFault
<1>4. CycleFailure \in cycle_
      <=> CASE ~Paired(r) \/ ~Known(Latest(r)) -> CycleFailure \in before
            [] Paired(r) /\ Known(Latest(r)) /\ ~Undelivered(Latest(r)) -> FALSE
            [] OTHER -> \/ now - LowSince(r) >= FailureSeconds
                        \/ CycleFailure \in before
  BY DEF CheckCycle
<1> QED BY <1>2, <1>3, <1>4

LEMMA CycleMemoryInit == LocalInit => CycleMemory
BY LocalAssumption DEF LocalInit, CycleMemory, Never, Values

\* A reading of one of the two sensors replaces what is known, and loses nothing.
LEMMA LatestKnows ==
    ASSUME CycleMemory, NEW r \in Reading
    PROVE  /\ Latest(r) \in [{"PUMP_CURRENT", "PRESSURE"} -> Values \cup {Missing}]
           /\ Known(latest) => Known(Latest(r))
<1>1. r.value \in Values \cup {Missing}
  BY DEF Reading
<1>2. CASE Paired(r)
  BY <1>1, <1>2 DEF CycleMemory, Latest, Paired, Known, Missing
<1>3. CASE ~Paired(r)
  BY <1>3 DEF CycleMemory, Latest
<1> QED BY <1>2, <1>3

LEMMA CycleMemoryStep ==
    ASSUME CycleMemory, [LocalNext]_localVars
    PROVE  CycleMemory'
<1>1. ASSUME NEW r \in Reading, Evaluate(r) PROVE CycleMemory'
  <2> latest' = Latest(r) /\ lowSince' = LowSince(r) /\ now' = now
    BY <1>1 DEF Evaluate
  <2>1. /\ latest' \in [{"PUMP_CURRENT", "PRESSURE"} -> Values \cup {Missing}]
        /\ Known(latest) => Known(latest')
    BY LatestKnows
  <2>2. /\ lowSince' \in {Never} \cup Nat
        /\ lowSince' # Never => Known(latest')
    BY <2>1 DEF CycleMemory, LowSince, Never
  <2>3. /\ contradicted' \in Int
        /\ contradicted' <= now
        /\ lowSince' # Never => contradicted' <= lowSince' /\ lowSince' <= now
    BY <1>1, <2>1 DEF CycleMemory, Evaluate, LowSince, Never
  <2>4. CycleFailure \in open' => Known(latest')
    BY <1>1, <2>1, OnlyCycleCheck DEF CycleMemory, Evaluate
  <2> QED BY <2>1, <2>2, <2>3, <2>4 DEF CycleMemory
<1>2. CASE TimePasses
  BY <1>2 DEF TimePasses, CycleMemory, Known
<1>3. CASE GatewayRestarts
  BY <1>3 DEF GatewayRestarts, CycleMemory, Never
<1>4. CASE UNCHANGED localVars
  BY <1>4 DEF localVars, CycleMemory, Known
<1> QED BY <1>1, <1>2, <1>3, <1>4 DEF LocalNext

LEMMA CycleConfirmedStep ==
    ASSUME CycleMemory, [LocalNext]_localVars
    PROVE  /\ CycleFailure \in open' \ open => now - contradicted >= FailureSeconds
           /\ contradicted' = now /\ contradicted' # contradicted => CycleFailure \notin open'
<1>1. ASSUME NEW r \in Reading, Evaluate(r)
      PROVE  /\ CycleFailure \in open' \ open => now - contradicted >= FailureSeconds
             /\ contradicted' = now /\ contradicted' # contradicted => CycleFailure \notin open'
  <2>1. Known(latest) => Known(Latest(r))
    BY LatestKnows
  <2>2. ASSUME CycleFailure \in open' \ open PROVE now - contradicted >= FailureSeconds
    <3>1. /\ Paired(r) /\ Known(Latest(r)) /\ Undelivered(Latest(r))
          /\ now - LowSince(r) >= FailureSeconds
      BY <1>1, <2>2, OnlyCycleCheck DEF Evaluate
    <3>2. LowSince(r) \in Nat /\ contradicted <= LowSince(r)
      BY <3>1 DEF LowSince, CycleMemory, Never
    <3> QED BY <3>1, <3>2, LocalAssumption DEF CycleMemory
  <2>3. ASSUME contradicted' # contradicted PROVE CycleFailure \notin open'
    <3>1. Paired(r) /\ ~Undelivered(Latest(r))
      BY <1>1, <2>3 DEF Evaluate
    <3>2. ~Known(Latest(r)) => CycleFailure \notin open
      BY <2>1 DEF CycleMemory
    <3> QED BY <1>1, <3>1, <3>2, OnlyCycleCheck DEF Evaluate
  <2> QED BY <2>2, <2>3
<1>2. CASE TimePasses
  BY <1>2 DEF TimePasses
<1>3. CASE GatewayRestarts
  BY <1>3 DEF GatewayRestarts
<1>4. CASE UNCHANGED localVars
  BY <1>4 DEF localVars
<1> QED BY <1>1, <1>2, <1>3, <1>4 DEF LocalNext

\* The local engine raises a lubrication cycle failure only after the policy's time
\* without a contradicting reading, and clears it at the first one, for any policy
\* and any order of readings, missing values and restarts.
THEOREM CycleFailureIsConfirmed == LocalSpec => CycleFailureConfirmed
<1>1. LocalSpec => []CycleMemory
  BY CycleMemoryInit, CycleMemoryStep, PTL DEF LocalSpec
<1>2. CycleMemory /\ [LocalNext]_localVars =>
        [/\ CycleFailure \in open' \ open => now - contradicted >= FailureSeconds
         /\ contradicted' = now /\ contradicted' # contradicted
               => CycleFailure \notin open']_localVars
  BY CycleConfirmedStep
<1> QED BY <1>1, <1>2, PTL DEF LocalSpec, CycleFailureConfirmed

LEMMA LocalTypeInit == LocalInit => LocalTypeOK
BY LocalAssumption DEF LocalInit, LocalTypeOK, Never

LEMMA ChecksType ==
    ASSUME NEW keys \in SUBSET Keys, NEW r \in Reading
    PROVE  /\ CheckRange(keys, r) \in SUBSET Keys
           /\ CheckReservoir(keys, r) \in SUBSET Keys
           /\ CheckCycle(keys, r) \in SUBSET Keys
           /\ CheckFault(keys, r) \in SUBSET Keys
<1>1. /\ <<"range", r.type>> \in Keys /\ <<"sensor_fault", r.type>> \in Keys
      /\ <<"reservoir_critical">> \in Keys /\ CycleFailure \in Keys
  BY DEF Reading, Keys, CycleFailure
<1>2. CheckRange(keys, r) \in SUBSET Keys /\ CheckReservoir(keys, r) \in SUBSET Keys
  BY <1>1 DEF CheckRange, CheckReservoir, Opened
<1>3. CheckCycle(keys, r) \in SUBSET Keys
  BY <1>1 DEF CheckCycle
<1>4. CheckFault(keys, r) \in SUBSET Keys
  BY <1>1 DEF CheckFault
<1> QED BY <1>2, <1>3, <1>4

LEMMA LocalTypeStep ==
    ASSUME LocalTypeOK, [LocalNext]_localVars
    PROVE  LocalTypeOK'
<1>1. ASSUME NEW r \in Reading, Evaluate(r) PROVE LocalTypeOK'
  <2>1. open' \in SUBSET Keys
    <3>1. open \in SUBSET Keys
      BY DEF LocalTypeOK
    <3>2. PICK a \in SUBSET Keys : a = CheckRange(open, r)
      BY <3>1, ChecksType
    <3>3. PICK b \in SUBSET Keys : b = CheckReservoir(a, r)
      BY ChecksType
    <3>4. PICK c \in SUBSET Keys : c = CheckCycle(b, r)
      BY ChecksType
    <3> QED BY <1>1, <3>2, <3>3, <3>4, ChecksType DEF Evaluate
  <2>2. badTicks' \in [Types -> 0 .. FaultTicks]
    BY <1>1, LocalAssumption DEF Evaluate, BadTicks, LocalTypeOK
  <2>3. latest' \in [{"PUMP_CURRENT", "PRESSURE"} -> Values \cup {Missing}]
    BY <1>1 DEF Evaluate, Latest, LocalTypeOK, Reading
  <2>4. now \in Never .. MaxTime
    BY LocalAssumption DEF LocalTypeOK, Never
  <2>5. lowSince' \in Never .. MaxTime
    BY <1>1, <2>4, LocalAssumption DEF Evaluate, LowSince, LocalTypeOK, Never
  <2> QED BY <1>1, <2>1, <2>2, <2>3, <2>4, <2>5 DEF Evaluate, LocalTypeOK
<1>2. CASE TimePasses
  BY <1>2, LocalAssumption DEF TimePasses, LocalTypeOK
<1>3. CASE GatewayRestarts
  BY <1>3, LocalAssumption DEF GatewayRestarts, LocalTypeOK, Never
<1>4. CASE UNCHANGED localVars
  BY <1>4 DEF localVars, LocalTypeOK
<1> QED BY <1>1, <1>2, <1>3, <1>4 DEF LocalNext

\* The local rules keep their types, for any policy.
THEOREM LocalTypeCorrect == LocalSpec => []LocalTypeOK
BY LocalTypeInit, LocalTypeStep, PTL DEF LocalSpec

-----------------------------------------------------------------------------
(* The offsets of the data quality worker. *)

Batches ==
    [pc : {"idle", "open", "read", "stored"}, upto : 0 .. MaxEvents,
     at : 0 .. MaxEvents, worst : Severities, lost : SUBSET (1 .. MaxEvents),
     wrote : [Sensors -> {Untracked} \cup Severities]]

\* The batch of the topic loop: it begins at the committed offset, has come as far
\* as at, and once it is stored every event of it is assessed or excused.
BatchInv ==
    /\ topic \in Seq([sensor : Sensors, severity : Severities])
    /\ Len(topic) <= MaxEvents
    /\ offset \in 0 .. Len(topic)
    /\ batch \in Batches
    /\ batch.pc # "idle" => /\ offset <= batch.at
                            /\ batch.at <= batch.upto
                            /\ batch.upto <= Len(topic)
    /\ batch.pc = "read" => batch.at < batch.upto
    /\ batch.pc = "stored" => 1 .. batch.upto \subseteq assessed \cup excused
    /\ AssessedBehindOffset

LEMMA MaxOfSeverities ==
    ASSUME NEW S \in SUBSET Severities, S # {}
    PROVE  Max(S) \in Severities
<1>1. PICK m \in S : \A y \in S : m >= y
  <2>1. CASE 2 \in S BY <2>1 DEF Severities
  <2>2. CASE 2 \notin S /\ 1 \in S BY <2>2 DEF Severities
  <2>3. CASE S = {0} BY <2>3
  <2>4. 2 \in S \/ (2 \notin S /\ 1 \in S) \/ S = {0}
    <3>1. Severities = {0, 1, 2}
      BY DEF Severities
    <3> QED BY <3>1
  <2> QED BY <2>1, <2>2, <2>3, <2>4
<1> QED BY <1>1 DEF Max

LEMMA WorstOpenType ==
    ASSUME NEW issues
    PROVE  WorstOpen(issues) \in Severities
<1>1. {0} \cup {SeverityOf(r) : r \in {q \in Rules : issues[q] # "NONE"}} \subseteq Severities
  BY DEF SeverityOf, Severities, Warning, Error
<1> QED BY <1>1, MaxOfSeverities DEF WorstOpen

LEMMA WorstIsSeverity ==
    ASSUME NEW issues, NEW x \in Severities
    PROVE  Max({x, WorstOpen(issues)}) \in Severities
BY WorstOpenType, MaxOfSeverities

LEMMA BatchInvInit == QualityInit => BatchInv
BY QualityAssumption DEF QualityInit, BatchInv, Batches, NoBatch, Unwritten, Untracked, Severities,
   AssessedBehindOffset

LEMMA BatchInvStep ==
    ASSUME BatchInv, [QualityNext]_qualityVars
    PROVE  BatchInv'
<1> USE QualityAssumption
<1>1. CASE EventArrives
  <2>1. PICK s \in Sensors, severity \in {0, Error} :
            topic' = Append(topic, [sensor |-> s, severity |-> severity])
    BY <1>1 DEF EventArrives
  <2>2. /\ topic' \in Seq([sensor : Sensors, severity : Severities])
        /\ Len(topic') = Len(topic) + 1
    BY <2>1 DEF BatchInv, Severities, Error
  <2>3. Len(topic') <= MaxEvents
    BY <1>1, <2>2 DEF EventArrives, BatchInv
  <2>4. /\ offset' \in 0 .. Len(topic')
        /\ batch.pc # "idle" => batch.upto <= Len(topic')
    BY <1>1, <2>2 DEF EventArrives, BatchInv, Batches
  <2> QED BY <1>1, <2>2, <2>3, <2>4 DEF EventArrives, BatchInv, AssessedBehindOffset
<1>2. CASE FetchBatch
  <2> DEFINE upto == Min({Len(topic), offset + BatchSize})
  <2>1. upto \in Nat /\ offset < upto /\ upto <= Len(topic)
    <3>1. Len(topic) \in Int /\ offset + BatchSize \in Int
      BY DEF BatchInv
    <3> HIDE DEF upto
    <3>2. upto \in {Len(topic), offset + BatchSize} /\ upto <= Len(topic)
      BY <3>1, MinOfTwo DEF upto
    <3> QED BY <1>2, <3>2 DEF FetchBatch, BatchInv
  <2>2. batch' = [NoBatch EXCEPT !.pc = "open", !.at = offset, !.upto = upto]
    BY <1>2 DEF FetchBatch
  <2> HIDE DEF upto
  <2>3. batch' \in Batches
    <3>1. upto \in 0 .. MaxEvents /\ offset \in 0 .. MaxEvents
      BY <2>1 DEF BatchInv
    <3>2. batch' = [pc |-> "open", upto |-> upto, at |-> offset, worst |-> 0, lost |-> {},
                    wrote |-> Unwritten]
      BY <2>2 DEF NoBatch
    <3> QED BY <3>1, <3>2 DEF Batches, Unwritten, Untracked, Severities
  <2>4. batch'.pc = "open" /\ batch'.at = offset /\ batch'.upto = upto
    BY <2>2 DEF NoBatch
  <2> QED BY <1>2, <2>1, <2>3, <2>4 DEF FetchBatch, BatchInv, AssessedBehindOffset
<1>3. CASE ReadEvent
  <2> DEFINE event == topic[batch.at + 1]
             worst == Max({event.severity, WorstOpen(issue[event.sensor])})
  <2>1. worst \in Severities
    <3>1. batch.at + 1 \in 1 .. Len(topic)
      BY <1>3 DEF ReadEvent, BatchInv, Batches
    <3>2. event \in [sensor : Sensors, severity : Severities]
      <4> DEFINE Events == [sensor : Sensors, severity : Severities]
      <4>1. topic \in Seq(Events)
        BY DEF BatchInv
      <4> HIDE DEF Events
      <4>2. topic[batch.at + 1] \in Events
        BY <3>1, <4>1
      <4> QED BY <4>2 DEF Events
    <3>3. event.severity \in Severities
      BY <3>2
    <3> HIDE DEF event
    <3> QED BY <3>3, WorstIsSeverity DEF worst
  <2>2. batch' = [batch EXCEPT !.pc = "read", !.worst = worst]
    BY <1>3 DEF ReadEvent
  <2> HIDE DEF worst
  <2> QED BY <1>3, <2>1, <2>2 DEF ReadEvent, Batches, BatchInv, AssessedBehindOffset
<1>4. CASE WriteEvent
  <2>1. batch' = [batch EXCEPT !.pc = "open", !.at = @ + 1,
                               !.wrote[topic[batch.at + 1].sensor] = batch.worst]
    BY <1>4 DEF WriteEvent
  <2>2. batch.at + 1 \in 0 .. MaxEvents /\ batch.at + 1 <= batch.upto
    BY <1>4, SMTT(30) DEF WriteEvent, BatchInv, Batches
  <2>3. batch' \in Batches
    BY <2>1, <2>2 DEF BatchInv, Batches
  <2>4. batch'.pc = "open" /\ batch'.at = batch.at + 1 /\ batch'.upto = batch.upto
    BY <2>1 DEF BatchInv, Batches
  <2>5. batch.pc = "read" /\ batch.at \in Nat /\ offset \in Nat /\ batch.upto \in Nat
    BY <1>4 DEF WriteEvent, BatchInv, Batches
  <2> QED BY <1>4, <2>2, <2>3, <2>4, <2>5 DEF WriteEvent, BatchInv, AssessedBehindOffset
<1>5. CASE EventFails
  <2>1. batch' = [batch EXCEPT !.pc = "open", !.at = @ + 1,
                               !.lost = @ \cup {batch.at + 1}]
    BY <1>5 DEF EventFails
  <2>2. /\ batch.at + 1 \in 1 .. MaxEvents
        /\ batch.at + 1 <= batch.upto
    BY <1>5 DEF EventFails, BatchInv, Batches
  <2>3. batch' \in Batches
    <3> DEFINE lost == batch.lost \cup {batch.at + 1}
    <3>1. lost \in SUBSET (1 .. MaxEvents)
      BY <2>2 DEF BatchInv, Batches
    <3>2. batch' = [pc |-> "open", upto |-> batch.upto, at |-> batch.at + 1,
                    worst |-> batch.worst, lost |-> lost, wrote |-> batch.wrote]
      BY <2>1 DEF BatchInv, Batches
    <3>3. batch.at + 1 \in 0 .. MaxEvents
      BY <2>2
    <3> HIDE DEF lost
    <3> QED BY <3>1, <3>2, <3>3 DEF BatchInv, Batches
  <2>4. batch'.pc = "open" /\ batch'.at = batch.at + 1 /\ batch'.upto = batch.upto
    BY <2>1 DEF BatchInv, Batches
  <2>5. batch.pc = "read" /\ batch.at \in Nat /\ offset \in Nat /\ batch.upto \in Nat
    BY <1>5 DEF EventFails, BatchInv, Batches
  <2> QED BY <1>5, <2>2, <2>3, <2>4, <2>5 DEF EventFails, BatchInv, AssessedBehindOffset
<1>6. CASE BatchStored
  <2>1. batch' = [batch EXCEPT !.pc = "stored", !.wrote = Unwritten]
    BY <1>6 DEF BatchStored
  <2>2. 1 .. batch.upto \subseteq assessed' \cup excused'
    BY <1>6 DEF BatchStored, Batches, BatchInv, AssessedBehindOffset
  <2>3. 1 .. offset \subseteq assessed' \cup excused'
    BY <1>6, <2>2 DEF BatchStored, Batches, BatchInv
  <2>4. Unwritten \in [Sensors -> {Untracked} \cup Severities]
    BY DEF Unwritten
  <2>5. batch' \in Batches
    BY <2>1, <2>4 DEF BatchInv, Batches
  <2> QED BY <2>5, <1>6, <2>1, <2>2, <2>3, <2>4 DEF BatchStored, Batches, BatchInv, AssessedBehindOffset
<1>7. CASE OffsetsCommitted
  <2>1. 1 .. offset' \subseteq assessed' \cup excused' /\ offset' \in 0 .. Len(topic)
    BY <1>7 DEF OffsetsCommitted, Batches, BatchInv
  <2>2. batch'.pc = "idle"
    BY <1>7 DEF OffsetsCommitted, NoBatch
  <2>3. batch' \in Batches
    BY <1>7 DEF OffsetsCommitted, NoBatch, Batches, Unwritten, Untracked, Severities
  <2> QED BY <1>7, <2>1, <2>2, <2>3 DEF OffsetsCommitted, Batches, BatchInv, AssessedBehindOffset
<1>8. CASE BatchFails
  <2>1. batch' = [NoBatch EXCEPT !.pc = "open", !.at = offset, !.upto = batch.upto]
    BY <1>8 DEF BatchFails
  <2>2. batch'.pc = "open" /\ batch'.at = offset /\ batch'.upto = batch.upto
    BY <2>1 DEF NoBatch
  <2>3. batch' \in Batches
    <3>1. batch' = [pc |-> "open", upto |-> batch.upto, at |-> offset, worst |-> 0,
                    lost |-> {}, wrote |-> Unwritten]
      BY <2>1 DEF NoBatch
    <3>2. offset \in 0 .. MaxEvents /\ batch.upto \in 0 .. MaxEvents
      BY DEF BatchInv, Batches
    <3> QED BY <3>1, <3>2 DEF Batches, Unwritten, Untracked, Severities
  <2> QED BY <1>8, <2>2, <2>3 DEF BatchFails, Batches, BatchInv, AssessedBehindOffset
<1>9. CASE WorkerRestarts
  <2>1. batch' \in Batches
    BY <1>9 DEF WorkerRestarts, NoBatch, Batches, Unwritten, Untracked, Severities
  <2>2. batch'.pc = "idle"
    BY <1>9 DEF WorkerRestarts, NoBatch
  <2> QED BY <1>9, <2>1, <2>2 DEF WorkerRestarts, BatchInv, AssessedBehindOffset
<1>10. ASSUME UNCHANGED <<topic, offset, batch, assessed, excused>> PROVE BatchInv'
  BY <1>10 DEF BatchInv, AssessedBehindOffset
<1>11. WindowStep => UNCHANGED <<topic, offset, batch, assessed, excused>>
  BY DEF WindowStep, CycleBegins, EvaluateSensor, CycleCommits
<1>12. /\ (\E s \in Sensors : SensorFails(s)) \/ CycleFails \/ SensorsChange
              => UNCHANGED <<topic, offset, batch, assessed, excused>>
       /\ UNCHANGED qualityVars => UNCHANGED <<topic, offset, batch, assessed, excused>>
  BY DEF SensorFails, CycleFails, SensorsChange, qualityVars
<1> QED
  BY <1>1, <1>2, <1>3, <1>4, <1>5, <1>6, <1>7, <1>8, <1>9, <1>10, <1>11, <1>12
  DEF QualityNext, TopicStep, Victim

\* The data quality worker never commits an offset past an event that is neither
\* assessed nor one whose own savepoint failed, for any batch size and any number
\* of retries, deadlocks and restarts.
THEOREM OffsetsFollowAssessment == QualitySpec => []AssessedBehindOffset
<1>1. BatchInv => AssessedBehindOffset
  BY DEF BatchInv
<1> QED BY BatchInvInit, BatchInvStep, <1>1, PTL DEF QualitySpec

RowWrites == [Sensors -> {Untracked} \cup Severities]

Issues == [Sensors -> [Rules -> IssueStates]]

\* The variables of the window loop, and the bounds.
WindowType ==
    /\ quality \in RowWrites
    /\ issue \in Issues
    /\ cycle \in [open : BOOLEAN, todo : SUBSET Sensors, issue : Issues, wrote : RowWrites]
    /\ deviates \subseteq Sensors
    /\ reports \in [Sensors -> {"NOTHING", "VALUES", "LOSS"}]
    /\ changes \in 0 .. MaxChanges
    /\ errors \in 0 .. MaxErrors
    /\ assessed \subseteq 1 .. MaxEvents
    /\ excused \subseteq 1 .. MaxEvents

LEMMA NoCycleType ==
    /\ Unwritten \in RowWrites
    /\ NoIssues \in Issues
    /\ NoCycle \in [open : BOOLEAN, todo : SUBSET Sensors, issue : Issues, wrote : RowWrites]
BY DEF Unwritten, RowWrites, NoIssues, Issues, IssueStates, NoCycle

LEMMA OverlaidType ==
    ASSUME quality \in RowWrites, NEW wrote \in RowWrites
    PROVE  Overlaid(wrote) \in RowWrites
BY DEF Overlaid, RowWrites

LEMMA EvaluateType ==
    ASSUME WindowType, NEW s \in Sensors, EvaluateSensor(s)
    PROVE  WindowType'
<1> DEFINE issues == [cycle.issue[s] EXCEPT !["sensor"] = NextIssue(@, s \in deviates)]
<1>1. cycle.issue \in Issues /\ cycle.wrote \in RowWrites /\ cycle.todo \ {s} \in SUBSET Sensors
  BY DEF WindowType
<1>2. issues \in [Rules -> IssueStates]
  BY <1>1 DEF Issues, NextIssue, IssueStates
<1>3. PICK i \in [Rules -> IssueStates], w \in Severities : i = issues /\ w = WorstOpen(issues)
  BY <1>2, WorstOpenType
<1>4. cycle' = [cycle EXCEPT !.todo = @ \ {s}, !.issue[s] = i, !.wrote[s] = w]
  BY <1>3 DEF EvaluateSensor
<1>5. [cycle.issue EXCEPT ![s] = i] \in Issues /\ [cycle.wrote EXCEPT ![s] = w] \in RowWrites
  BY <1>1 DEF Issues, RowWrites
<1>6. cycle' \in [open : BOOLEAN, todo : SUBSET Sensors, issue : Issues, wrote : RowWrites]
  BY <1>4, <1>5 DEF WindowType
<1> QED BY <1>6 DEF EvaluateSensor, WindowType

LEMMA CycleCommitsType ==
    ASSUME WindowType, CycleCommits
    PROVE  WindowType'
<1>1. cycle.issue \in Issues /\ cycle.wrote \in RowWrites /\ quality \in RowWrites
  BY DEF WindowType
<1>2. MachineEvaluated(cycle.issue) \in Issues
  <2>1. CASE Reporting = {}
    BY <1>1, <2>1 DEF MachineEvaluated
  <2>2. CASE Reporting # {}
    <3>1. PICK m : m = Min(Reporting)
      OBVIOUS
    <3>2. PICK x : x = NextIssue(cycle.issue[m]["communication_loss"], CommunicationLoss)
      OBVIOUS
    <3>3. MachineEvaluated(cycle.issue) =
             [cycle.issue EXCEPT ![m]["communication_loss"] = x]
      BY <2>2, <3>1, <3>2 DEF MachineEvaluated
    <3>4. m \in Sensors => x \in IssueStates
      BY <1>1, <3>2 DEF NextIssue, Issues, IssueStates, Rules
    <3> QED BY <1>1, <3>3, <3>4, ZenonT(60) DEF Issues
  <2> QED BY <2>1, <2>2
<1>3. issue' \in Issues /\ errors' \in 0 .. MaxErrors
  BY <1>1, <1>2, QualityAssumption DEF CycleCommits, OneMoreError, WindowType
<1>4. quality' \in RowWrites
  BY <1>1, OverlaidType DEF CycleCommits
<1> QED BY <1>3, <1>4, NoCycleType DEF CycleCommits, WindowType

LEMMA WindowTypeStep ==
    ASSUME BatchInv, WindowType, [QualityNext]_qualityVars
    PROVE  WindowType'
<1>1. OneMoreError => errors' \in 0 .. MaxErrors
  BY QualityAssumption DEF OneMoreError, WindowType
<1>2. CASE UNCHANGED qualityVars \/ EventArrives \/ FetchBatch \/ ReadEvent \/ WriteEvent
           \/ OffsetsCommitted
  BY <1>2 DEF qualityVars, EventArrives, FetchBatch, ReadEvent, WriteEvent, OffsetsCommitted,
              WindowType
<1>3. CASE EventFails \/ BatchFails
  BY <1>1, <1>3 DEF EventFails, BatchFails, WindowType
<1>4. CASE BatchStored
  <2>1. batch.wrote \in RowWrites /\ batch.upto \in 0 .. MaxEvents
        /\ batch.lost \subseteq 1 .. MaxEvents /\ offset \in Nat
    BY DEF BatchInv, Batches, RowWrites
  <2>2. quality' \in RowWrites
    BY <1>4, <2>1, OverlaidType DEF BatchStored, WindowType
  <2>3. (offset + 1 .. batch.upto) \subseteq 1 .. MaxEvents
    BY <2>1, QualityAssumption
  <2> QED BY <1>4, <2>1, <2>2, <2>3 DEF BatchStored, WindowType
<1>5. CASE CycleBegins
  <2>1. cycle' = [NoCycle EXCEPT !.open = TRUE, !.issue = issue,
                                 !.todo = {s \in Sensors : quality[s] # Untracked}]
    BY <1>5 DEF CycleBegins
  <2>2. cycle' \in [open : BOOLEAN, todo : SUBSET Sensors, issue : Issues, wrote : RowWrites]
    BY <2>1, NoCycleType DEF WindowType
  <2> QED BY <1>5, <2>2 DEF CycleBegins, WindowType
<1>6. ASSUME NEW s \in Sensors, EvaluateSensor(s) PROVE WindowType'
  BY <1>6, EvaluateType
<1>7. CASE CycleCommits
  BY <1>7, CycleCommitsType
<1>8. ASSUME NEW s \in Sensors, SensorFails(s) PROVE WindowType'
  BY <1>1, <1>8 DEF SensorFails, WindowType
<1>9. CASE CycleFails \/ WorkerRestarts
  BY <1>1, <1>9, NoCycleType DEF CycleFails, WorkerRestarts, WindowType
<1>10. CASE SensorsChange
  <2>1. changes' \in 0 .. MaxChanges
    BY <1>10, QualityAssumption DEF SensorsChange, WindowType
  <2>2. deviates' \subseteq Sensors
    BY <1>10 DEF SensorsChange, SymDiff, WindowType
  <2>3. reports' \in [Sensors -> {"NOTHING", "VALUES", "LOSS"}]
    BY <1>10 DEF SensorsChange, WindowType
  <2> QED BY <1>10, <2>1, <2>2, <2>3 DEF SensorsChange, WindowType
<1> QED BY <1>2, <1>3, <1>4, <1>5, <1>6, <1>7, <1>8, <1>9, <1>10
    DEF QualityNext, TopicStep, WindowStep, Victim

LEMMA WindowTypeInit == QualityInit => WindowType
BY NoCycleType, QualityAssumption DEF QualityInit, WindowType

LEMMA QualityTypes == BatchInv /\ WindowType => QualityTypeOK
BY DEF BatchInv, WindowType, QualityTypeOK, Batches, RowWrites, Issues

\* The data quality worker keeps its types, for any number of sensors and any batches.
THEOREM QualityTypeCorrect == QualitySpec => []QualityTypeOK
BY BatchInvInit, WindowTypeInit, BatchInvStep, WindowTypeStep, QualityTypes, PTL DEF QualitySpec

-----------------------------------------------------------------------------
(* The model registry. *)

Listing == [ModelVersions -> ModelStates \cup {NoFile}]

LEMMA IdleScriptType == IdleScript \in Script /\ Unlisted \in Listing
<1>1. Unlisted \in Listing
  BY DEF Unlisted, Listing
<1>2. (CHOOSE v \in ModelVersions : TRUE) \in ModelVersions
  BY RegistryAssumption
<1>3. QED BY <1>1, <1>2 DEF IdleScript, Script, Listing, ModelStates, Contents

LEMMA TornIsUnreadable == \A listing \in Listing : listing # TornIndex
<1> SUFFICES ASSUME NEW listing \in Listing PROVE listing # TornIndex
  OBVIOUS
<1>1. PICK v \in ModelVersions : TRUE
  BY RegistryAssumption
<1>2. listing[v] # Torn
  BY <1>1 DEF Listing, ModelStates, NoFile, Torn
<1>3. QED BY <1>1, <1>2 DEF TornIndex

LEMMA RegistryTypeInit == RegistryInit => RegistryTypeOK
<1> SUFFICES ASSUME RegistryInit PROVE RegistryTypeOK
  OBVIOUS
<1>1. index \in Listing
  BY IdleScriptType DEF RegistryInit
<1>2. artifact \in [ModelVersions -> Contents]
  BY DEF RegistryInit, Contents
<1>3. NoMetadata \in [status : ModelStates \cup {NoFile, Torn}, checksum : Contents]
  BY DEF NoMetadata, Contents
<1>4. metadata \in [ModelVersions -> [status : ModelStates \cup {NoFile, Torn},
                                     checksum : Contents]]
  BY <1>3 DEF RegistryInit
<1>5. started \in 0 .. MaxScripts
  BY RegistryAssumption DEF RegistryInit
<1>6. script \in [Scripts -> Script] /\ spoiled \subseteq ModelVersions /\ disturbed \in BOOLEAN
  BY IdleScriptType DEF RegistryInit
<1>7. QED BY <1>1, <1>2, <1>4, <1>5, <1>6 DEF RegistryTypeOK, Listing

\* What a step of script p leaves alone: the other scripts.
OthersStay(p) == \A o \in Scripts \ {p} : script'[o] = script[o]

\* A script begins its work; what begins meets those at work on the version.
LEMMA BeginsType ==
    ASSUME RegistryTypeOK, NEW p \in Scripts, NEW work \in Script, Begins(p, work)
    PROVE  /\ script' \in [Scripts -> Script]
           /\ started' \in 0 .. MaxScripts
           /\ spoiled' \subseteq ModelVersions
           /\ disturbed' \in BOOLEAN
           /\ script'[p] = [work EXCEPT !.alone = WorkOn(work.version) = {}]
           /\ \A o \in Scripts \ {p} :
                 script'[o] = IF script[o].pc # "idle" /\ script[o].version = work.version
                              THEN [script[o] EXCEPT !.alone = FALSE] ELSE script[o]
<1>1. work.version \in ModelVersions
  BY DEF Script
<1>2. \A o \in Scripts : o \in WorkOn(work.version)
                            <=> script[o].pc # "idle" /\ script[o].version = work.version
  BY DEF WorkOn
<1>3. [work EXCEPT !.alone = WorkOn(work.version) = {}] \in Script
  BY DEF Script
<1>4. \A o \in Scripts : script[o] \in Script /\ [script[o] EXCEPT !.alone = FALSE] \in Script
  BY DEF RegistryTypeOK, Script
<1>5. script' = [q \in Scripts |->
                    IF q = p THEN [work EXCEPT !.alone = WorkOn(work.version) = {}]
                    ELSE IF q \in WorkOn(work.version) THEN [script[q] EXCEPT !.alone = FALSE]
                    ELSE script[q]]
  BY DEF Begins
<1>6. script' \in [Scripts -> Script]
  BY <1>3, <1>4, <1>5
<1>7. started' \in 0 .. MaxScripts
  BY RegistryAssumption DEF Begins, RegistryTypeOK
<1>8. spoiled' \subseteq ModelVersions /\ disturbed' \in BOOLEAN
  BY <1>1 DEF Begins, RegistryTypeOK
<1>9. QED BY <1>2, <1>5, <1>6, <1>7, <1>8

\* What RegisterBegins and PromoteBegins begin.
LEMMA WorkBegun ==
    ASSUME RegistryTypeOK, NEW p \in Scripts, RegisterBegins(p) \/ PromoteBegins(p)
    PROVE  \E work \in Script :
              /\ Begins(p, work)
              /\ \/ work.pc = "artifact" /\ Registers(work)
                 \/ work.pc = "checksum" /\ ~Registers(work)
<1>1. CASE RegisterBegins(p)
  <2>1. PICK v \in ModelVersions, status \in {"EXPERIMENT", "VALIDATED"}, build \in Builds :
           Begins(p, [IdleScript EXCEPT !.pc = "artifact", !.version = v, !.status = status,
                                        !.build = build])
    BY <1>1 DEF RegisterBegins
  <2>2. PICK work : work = [IdleScript EXCEPT !.pc = "artifact", !.version = v,
                                              !.status = status, !.build = build]
    OBVIOUS
  <2>3. work \in Script /\ work.pc = "artifact" /\ work.build = build
    BY <2>2, IdleScriptType DEF Script, ModelStates
  <2>4. Registers(work)
    BY <2>3, RegistryAssumption DEF Registers, NoFile
  <2>5. QED BY <2>1, <2>2, <2>3, <2>4
<1>2. CASE PromoteBegins(p)
  <2>1. PICK v \in ModelVersions : \E status \in AllowedTransitions(metadata[v].status) :
           Begins(p, [IdleScript EXCEPT !.pc = "checksum", !.version = v, !.status = status])
    BY <1>2 DEF PromoteBegins
  <2>2. PICK status \in AllowedTransitions(metadata[v].status) :
           Begins(p, [IdleScript EXCEPT !.pc = "checksum", !.version = v, !.status = status])
    BY <2>1
  <2>3. status \in ModelStates
    BY <2>2 DEF AllowedTransitions, ModelStates
  <2>4. PICK work : work = [IdleScript EXCEPT !.pc = "checksum", !.version = v,
                                              !.status = status]
    OBVIOUS
  <2>5. work \in Script /\ work.pc = "checksum"
    BY <2>3, <2>4, IdleScriptType DEF Script
  <2>6. ~Registers(work)
    BY <2>4 DEF Registers, IdleScript
  <2>7. QED BY <2>2, <2>4, <2>5, <2>6
<1>3. QED BY <1>1, <1>2

LEMMA RegistryTypeStep == RegistryTypeOK /\ [RegistryNext]_registryVars => RegistryTypeOK'
<1> SUFFICES ASSUME RegistryTypeOK, [RegistryNext]_registryVars
             PROVE  RegistryTypeOK'
  OBVIOUS
<1>1. ASSUME NEW p \in Scripts, RegisterBegins(p) \/ PromoteBegins(p) PROVE RegistryTypeOK'
  <2>1. UNCHANGED <<artifact, metadata, index>>
    BY <1>1 DEF RegisterBegins, PromoteBegins
  <2>2. PICK work \in Script : Begins(p, work)
    BY <1>1, WorkBegun
  <2>3. QED BY <2>1, <2>2, BeginsType DEF RegistryTypeOK
<1>2. ASSUME NEW p \in Scripts, WriteArtifact(p) PROVE RegistryTypeOK'
  <2>1. script[p] \in Script /\ script[p].build \in Contents
    BY DEF RegistryTypeOK, Script, Contents
  <2>2. [script[p] EXCEPT !.pc = "checksum"] \in Script
    BY <2>1 DEF Script
  <2>3. script' \in [Scripts -> Script] /\ artifact' \in [ModelVersions -> Contents]
    BY <1>2, <2>1, <2>2 DEF WriteArtifact, RegistryTypeOK
  <2>4. QED BY <1>2, <2>3 DEF WriteArtifact, RegistryTypeOK
<1>3. ASSUME NEW p \in Scripts, TakeChecksum(p) PROVE RegistryTypeOK'
  <2>1. PICK taken : script' = [script EXCEPT ![p].pc = "metadata", ![p].checksum = taken]
                     /\ taken \in {artifact[script[p].version],
                                   metadata[script[p].version].checksum}
    BY <1>3 DEF TakeChecksum
  <2>2. script[p] \in Script /\ script[p].version \in ModelVersions
    BY DEF RegistryTypeOK, Script
  <2>3. taken \in Contents
    BY <2>1, <2>2 DEF RegistryTypeOK
  <2>4. [script[p] EXCEPT !.pc = "metadata", !.checksum = taken] \in Script
    BY <2>2, <2>3 DEF Script
  <2>5. script' \in [Scripts -> Script]
    BY <2>1, <2>4 DEF RegistryTypeOK
  <2>6. QED BY <1>3, <2>5 DEF TakeChecksum, RegistryTypeOK
<1>4. ASSUME NEW p \in Scripts, WriteMetadata(p) PROVE RegistryTypeOK'
  <2>1. PICK s \in Script : s = script[p]
    BY DEF RegistryTypeOK
  <2>2. [s EXCEPT !.pc = "index"] \in Script
        /\ [status |-> s.status, checksum |-> s.checksum] \in
              [status : ModelStates \cup {NoFile, Torn}, checksum : Contents]
    BY DEF Script
  <2>3. /\ script' = [script EXCEPT ![p] = [s EXCEPT !.pc = "index"]]
        /\ metadata' = [metadata EXCEPT ![s.version] =
                            [status |-> s.status, checksum |-> s.checksum]]
        /\ spoiled' \subseteq spoiled
    BY <1>4, <2>1 DEF WriteMetadata
  <2>4. script' \in [Scripts -> Script]
    BY <2>2, <2>3 DEF RegistryTypeOK
  <2>5. metadata' \in [ModelVersions -> [status : ModelStates \cup {NoFile, Torn},
                                        checksum : Contents]]
    BY <2>2, <2>3 DEF RegistryTypeOK
  <2>6. QED BY <1>4, <2>3, <2>4, <2>5 DEF WriteMetadata, RegistryTypeOK
<1>5. ASSUME NEW p \in Scripts, ReadIndex(p) PROVE RegistryTypeOK'
  <2>1. index \in Listing
    BY <1>5 DEF ReadIndex, Readable, RegistryTypeOK, Listing
  <2>2. [script[p] EXCEPT !.pc = "entry", !.read = index] \in Script
    BY <2>1 DEF RegistryTypeOK, Script, Listing
  <2>3. script' \in [Scripts -> Script]
    BY <1>5, <2>2 DEF ReadIndex, RegistryTypeOK
  <2>4. QED BY <1>5, <2>3 DEF ReadIndex, RegistryTypeOK
<1>6. ASSUME NEW p \in Scripts, WriteIndex(p) PROVE RegistryTypeOK'
  <2>1. NewIndex(script[p]) \in Listing
    BY DEF NewIndex, RegistryTypeOK, Script, Listing
  <2>2. QED BY <1>6, <2>1, IdleScriptType DEF WriteIndex, RegistryTypeOK, Listing
<1>7. ASSUME NEW p \in Scripts, ScriptEnds(p) PROVE RegistryTypeOK'
  <2>1. script' \in [Scripts -> Script]
    BY <1>7, IdleScriptType DEF ScriptEnds, RegistryTypeOK
  <2>2. spoiled' \subseteq ModelVersions /\ disturbed' \in BOOLEAN
    BY <1>7 DEF ScriptEnds, RegistryTypeOK, Script
  <2>3. /\ artifact' \in [ModelVersions -> Contents]
        /\ metadata' \in [ModelVersions -> [status : ModelStates \cup {NoFile, Torn},
                                            checksum : Contents]]
        /\ index' = TornIndex \/ index' \in [ModelVersions -> ModelStates \cup {NoFile}]
    BY <1>7 DEF ScriptEnds, RegistryTypeOK, Contents, TornMetadata
  <2>4. QED BY <1>7, <2>1, <2>2, <2>3 DEF ScriptEnds, RegistryTypeOK
<1>8. CASE UNCHANGED registryVars
  BY <1>8 DEF registryVars, RegistryTypeOK
<1>9. QED
  BY <1>1, <1>2, <1>3, <1>4, <1>5, <1>6, <1>7, <1>8 DEF RegistryNext

\* The files and the scripts keep their types, wherever a script is killed.
THEOREM RegistryTypeCorrect == RegistrySpec => []RegistryTypeOK
<1>1. QED BY RegistryTypeInit, RegistryTypeStep, PTL DEF RegistrySpec

\* What a script that goes on keeps of what it began with.
Continues ==
    \A o \in Scripts :
        script'[o].pc # "idle" =>
            /\ script[o].pc # "idle"
            /\ script'[o].version = script[o].version
            /\ script'[o].status = script[o].status
            /\ script'[o].build = script[o].build
            /\ script'[o].alone = script[o].alone

\* A script that does not begin goes on, or is idle again.
LEMMA ScriptMoves ==
    ASSUME RegistryTypeOK, NEW p \in Scripts, NEW s, script' = [script EXCEPT ![p] = s],
           \/ s.pc = "idle"
           \/ /\ script[p].pc # "idle"
              /\ s.version = script[p].version /\ s.status = script[p].status
              /\ s.build = script[p].build /\ s.alone = script[p].alone
    PROVE  OthersStay(p) /\ Continues /\ script'[p] = s
<1>1. OthersStay(p) /\ script'[p] = s
  BY DEF RegistryTypeOK, OthersStay
<1>2. QED BY <1>1 DEF OthersStay, Continues

LEMMA ArtifactWritten ==
    ASSUME RegistryTypeOK, NEW p \in Scripts, WriteArtifact(p)
    PROVE  OthersStay(p) /\ Continues /\ script'[p] = [script[p] EXCEPT !.pc = "checksum"]
<1>1. PICK s : s = [script[p] EXCEPT !.pc = "checksum"]
  OBVIOUS
<1>2. script[p] \in Script /\ script' = [script EXCEPT ![p] = s] /\ script[p].pc = "artifact"
  BY <1>1 DEF WriteArtifact, RegistryTypeOK
<1>3. /\ s.version = script[p].version /\ s.status = script[p].status
      /\ s.build = script[p].build /\ s.alone = script[p].alone
  BY <1>1, <1>2 DEF Script
<1>4. QED BY <1>1, <1>2, <1>3, ScriptMoves

LEMMA ChecksumTaken ==
    ASSUME RegistryTypeOK, NEW p \in Scripts, TakeChecksum(p)
    PROVE  /\ OthersStay(p) /\ Continues
           /\ \E taken :
                 /\ taken = IF Registers(script[p]) THEN artifact[script[p].version]
                            ELSE metadata[script[p].version].checksum
                 /\ script'[p] = [script[p] EXCEPT !.pc = "metadata", !.checksum = taken]
<1>1. PICK taken :
         /\ taken = IF Registers(script[p]) THEN artifact[script[p].version]
                    ELSE metadata[script[p].version].checksum
         /\ script' = [script EXCEPT ![p].pc = "metadata", ![p].checksum = taken]
  BY DEF TakeChecksum
<1>2. PICK s : s = [script[p] EXCEPT !.pc = "metadata", !.checksum = taken]
  OBVIOUS
<1>3. script[p] \in Script /\ script' = [script EXCEPT ![p] = s] /\ script[p].pc = "checksum"
  BY <1>1, <1>2 DEF TakeChecksum, RegistryTypeOK
<1>4. /\ s.version = script[p].version /\ s.status = script[p].status
      /\ s.build = script[p].build /\ s.alone = script[p].alone
  BY <1>2, <1>3 DEF Script
<1>5. OthersStay(p) /\ Continues /\ script'[p] = s
  BY <1>3, <1>4, ScriptMoves
<1>6. QED BY <1>1, <1>2, <1>5

LEMMA MetadataWritten ==
    ASSUME RegistryTypeOK, NEW p \in Scripts, WriteMetadata(p)
    PROVE  OthersStay(p) /\ Continues /\ script'[p] = [script[p] EXCEPT !.pc = "index"]
<1>1. PICK s : s = [script[p] EXCEPT !.pc = "index"]
  OBVIOUS
<1>2. script[p] \in Script /\ script' = [script EXCEPT ![p] = s] /\ script[p].pc = "metadata"
  BY <1>1 DEF WriteMetadata, RegistryTypeOK
<1>3. /\ s.version = script[p].version /\ s.status = script[p].status
      /\ s.build = script[p].build /\ s.alone = script[p].alone
  BY <1>1, <1>2 DEF Script
<1>4. QED BY <1>1, <1>2, <1>3, ScriptMoves

LEMMA IndexRead ==
    ASSUME RegistryTypeOK, NEW p \in Scripts, ReadIndex(p)
    PROVE  /\ OthersStay(p) /\ Continues
           /\ script'[p] = [script[p] EXCEPT !.pc = "entry", !.read = index]
<1>1. PICK s : s = [script[p] EXCEPT !.pc = "entry", !.read = index]
  OBVIOUS
<1>2. script[p] \in Script /\ script' = [script EXCEPT ![p] = s] /\ script[p].pc = "index"
  BY <1>1 DEF ReadIndex, RegistryTypeOK
<1>3. /\ s.version = script[p].version /\ s.status = script[p].status
      /\ s.build = script[p].build /\ s.alone = script[p].alone
  BY <1>1, <1>2 DEF Script
<1>4. QED BY <1>1, <1>2, <1>3, ScriptMoves

LEMMA ScriptIsOver ==
    ASSUME RegistryTypeOK, NEW p \in Scripts, WriteIndex(p) \/ ScriptEnds(p)
    PROVE  OthersStay(p) /\ Continues /\ script'[p].pc = "idle"
<1>1. script' = [script EXCEPT ![p] = IdleScript] /\ IdleScript.pc = "idle"
  BY DEF WriteIndex, ScriptEnds, IdleScript
<1>2. QED BY <1>1, ScriptMoves

\* Two at work on a version are both told apart from one that is alone.
AloneTold ==
    \A p, o \in Scripts :
        p # o /\ script[p].pc # "idle" /\ script[o].pc # "idle"
              /\ script[p].version = script[o].version => ~script[p].alone

\* What a lone registration finds in the artifact is its own build.
BuildWritten ==
    \A p \in Scripts :
        LET s == script[p]
        IN  s.pc \in {"checksum", "metadata"} /\ Registers(s) /\ s.alone =>
                /\ artifact[s.version] = s.build
                /\ s.pc = "metadata" => s.checksum = s.build

\* A lone promotion writes the checksum that is there.
PromotionKeeps ==
    \A p \in Scripts :
        LET s == script[p]
        IN  s.pc = "metadata" /\ ~Registers(s) /\ s.alone =>
                /\ metadata[s.version].status \in ModelStates
                /\ s.checksum = metadata[s.version].checksum

UnspoiledAlone ==
    \A p \in Scripts :
        script[p].pc # "idle" /\ script[p].version \notin spoiled => script[p].alone

\* a registration between its artifact and its metadata
HalfRegistered(v) ==
    \E p \in Scripts : /\ script[p].version = v
                       /\ script[p].pc \in {"checksum", "metadata"}
                       /\ Registers(script[p])

UnspoiledLoads ==
    \A v \in ModelVersions \ spoiled :
        metadata[v].status = NoFile \/ Loadable(v) \/ HalfRegistered(v)

\* Metadata is written before the entry of the index, and stays.
ListedHasMetadata ==
    /\ Readable => \A v \in ModelVersions : index[v] # NoFile => metadata[v].status # NoFile
    /\ \A p \in Scripts :
          LET s == script[p]
          IN  /\ s.pc \in {"index", "entry"} => metadata[s.version].status # NoFile
              /\ s.pc = "entry" =>
                    \A v \in ModelVersions : s.read[v] # NoFile => metadata[v].status # NoFile

\* Only a registration writes an artifact.
ArtifactOfRegistration == \A p \in Scripts : script[p].pc = "artifact" => Registers(script[p])

StoredInv ==
    /\ RegistryTypeOK
    /\ ArtifactOfRegistration
    /\ AloneTold
    /\ BuildWritten
    /\ PromotionKeeps
    /\ UnspoiledAlone
    /\ UnspoiledLoads
    /\ ListedHasMetadata

LEMMA StoredInit == RegistryInit => StoredInv
<1> SUFFICES ASSUME RegistryInit PROVE StoredInv
  OBVIOUS
<1>1. \A p \in Scripts : script[p].pc = "idle"
  BY DEF RegistryInit, IdleScript
<1>2. \A v \in ModelVersions : metadata[v].status = NoFile /\ index[v] = NoFile
  BY DEF RegistryInit, NoMetadata, Unlisted
<1>3. QED
  BY <1>1, <1>2, RegistryTypeInit
  DEF StoredInv, AloneTold, BuildWritten, PromotionKeeps, UnspoiledAlone, UnspoiledLoads,
      ListedHasMetadata, ArtifactOfRegistration

LEMMA StoredBegins ==
    ASSUME StoredInv, RegistryTypeOK', NEW p \in Scripts, RegisterBegins(p) \/ PromoteBegins(p)
    PROVE  StoredInv'
<1>1. UNCHANGED <<artifact, metadata, index>>
  BY DEF RegisterBegins, PromoteBegins
<1>2. PICK work \in Script :
         /\ Begins(p, work)
         /\ \/ work.pc = "artifact" /\ Registers(work)
            \/ work.pc = "checksum" /\ ~Registers(work)
  BY WorkBegun DEF StoredInv
<1> DEFINE v == work.version
<1>3. /\ script'[p] = [work EXCEPT !.alone = WorkOn(v) = {}]
      /\ \A o \in Scripts \ {p} :
            script'[o] = IF script[o].pc # "idle" /\ script[o].version = v
                         THEN [script[o] EXCEPT !.alone = FALSE] ELSE script[o]
  BY <1>2, BeginsType DEF StoredInv
<1>4. /\ script'[p].pc = work.pc /\ script'[p].version = v /\ script'[p].build = work.build
      /\ script'[p].alone = (WorkOn(v) = {})
  BY <1>3 DEF Script
<1>5. \A o \in Scripts \ {p} :
         /\ script'[o].pc = script[o].pc /\ script'[o].version = script[o].version
         /\ script'[o].status = script[o].status /\ script'[o].build = script[o].build
         /\ script'[o].checksum = script[o].checksum /\ script'[o].read = script[o].read
         /\ script'[o].alone => script[o].alone
         /\ script[o].pc # "idle" /\ script[o].version = v => ~script'[o].alone
         /\ script[o].version # v => script'[o].alone = script[o].alone
  BY <1>3 DEF StoredInv, RegistryTypeOK, Script
<1>6. script[p].pc = "idle" /\ spoiled' = IF WorkOn(v) = {} THEN spoiled ELSE spoiled \cup {v}
  BY <1>2 DEF Begins
<1>7. WorkOn(v) = {} => \A o \in Scripts : script[o].pc # "idle" => script[o].version # v
  BY DEF WorkOn
<1>8. (\E o \in Scripts : script[o].pc # "idle" /\ script[o].version = v) => WorkOn(v) # {}
  BY DEF WorkOn
<1> HIDE DEF v
<1>9. AloneTold'
  <2> SUFFICES ASSUME NEW q \in Scripts, NEW o \in Scripts, q # o,
                      script'[q].pc # "idle", script'[o].pc # "idle",
                      script'[q].version = script'[o].version
               PROVE  ~script'[q].alone
    BY DEF AloneTold
  <2>1. CASE q = p
    <3>1. script[o].pc # "idle" /\ script[o].version = v
      BY <1>4, <1>5, <2>1
    <3>2. QED BY <1>4, <1>8, <2>1, <3>1
  <2>2. CASE q # p /\ o = p
    BY <1>4, <1>5, <2>2
  <2>3. CASE q # p /\ o # p
    <3>1. ~script[q].alone
      BY <1>5, <2>3 DEF StoredInv, AloneTold
    <3>2. QED BY <1>5, <2>3, <3>1
  <2>4. QED BY <2>1, <2>2, <2>3
<1>10. BuildWritten'
  BY <1>1, <1>2, <1>4, <1>5 DEF StoredInv, BuildWritten, Registers
<1>11. PromotionKeeps'
  BY <1>1, <1>2, <1>4, <1>5 DEF StoredInv, PromotionKeeps, Registers
<1>12. UnspoiledAlone'
  <2> SUFFICES ASSUME NEW q \in Scripts, script'[q].pc # "idle", script'[q].version \notin spoiled'
               PROVE  script'[q].alone
    BY DEF UnspoiledAlone
  <2>1. CASE q = p
    BY <1>4, <1>6, <2>1
  <2>2. CASE q # p
    <3>1. script[q].pc # "idle" /\ script'[q].version = script[q].version
      BY <1>5, <2>2
    <3>2. script[q].version # v /\ script[q].version \notin spoiled
      BY <1>6, <1>7, <3>1
    <3>3. script[q].alone
      BY <3>1, <3>2 DEF StoredInv, UnspoiledAlone
    <3>4. QED BY <1>5, <2>2, <3>2, <3>3
  <2>3. QED BY <2>1, <2>2
<1>13. \A u \in ModelVersions : Loadable(u) => Loadable(u)'
  BY <1>1 DEF Loadable
<1>14. \A u \in ModelVersions : HalfRegistered(u) => HalfRegistered(u)'
  BY <1>5, <1>6 DEF HalfRegistered, Registers
<1>15. UnspoiledLoads'
  BY <1>1, <1>6, <1>13, <1>14 DEF StoredInv, UnspoiledLoads
<1>16. ListedHasMetadata'
  BY <1>1, <1>2, <1>4, <1>5 DEF StoredInv, ListedHasMetadata, Readable, TornIndex
<1>17. ArtifactOfRegistration'
  BY <1>2, <1>4, <1>5 DEF StoredInv, ArtifactOfRegistration, Registers
<1>18. QED BY <1>9, <1>10, <1>11, <1>12, <1>15, <1>16, <1>17 DEF StoredInv

LEMMA StoredContinues ==
    ASSUME StoredInv, Continues
    PROVE  AloneTold'
<1> SUFFICES ASSUME NEW q \in Scripts, NEW o \in Scripts, q # o,
                    script'[q].pc # "idle", script'[o].pc # "idle",
                    script'[q].version = script'[o].version
             PROVE  ~script'[q].alone
  BY DEF AloneTold
<1>1. /\ script[q].pc # "idle" /\ script[o].pc # "idle"
      /\ script[q].version = script[o].version /\ script'[q].alone = script[q].alone
  BY DEF Continues
<1>2. QED BY <1>1 DEF StoredInv, AloneTold

\* A step of a script that writes neither the index nor its own last entry.
LEMMA ListedStays ==
    ASSUME ListedHasMetadata, UNCHANGED index, Continues,
           \A v \in ModelVersions : metadata[v].status # NoFile => metadata'[v].status # NoFile,
           \A o \in Scripts :
              /\ script[o].version \in ModelVersions
              /\ script'[o].pc \in {"index", "entry"} =>
                    \/ script'[o].pc = script[o].pc /\ script'[o].read = script[o].read
                    \/ /\ script'[o].pc = "index"
                       /\ metadata'[script[o].version].status # NoFile
                    \/ script[o].pc = "index" /\ Readable /\ script'[o].read = index
    PROVE  ListedHasMetadata'
<1>1. Readable' => \A v \in ModelVersions : index'[v] # NoFile => metadata'[v].status # NoFile
  BY DEF ListedHasMetadata, Readable, TornIndex
<1>2. ASSUME NEW o \in Scripts, script'[o].pc \in {"index", "entry"}
      PROVE  /\ metadata'[script'[o].version].status # NoFile
             /\ script'[o].pc = "entry" =>
                   \A v \in ModelVersions :
                      script'[o].read[v] # NoFile => metadata'[v].status # NoFile
  <2>1. script'[o].version = script[o].version
    BY <1>2 DEF Continues
  <2>2. CASE script'[o].pc = script[o].pc /\ script'[o].read = script[o].read
    BY <1>2, <2>1, <2>2 DEF ListedHasMetadata
  <2>3. CASE script'[o].pc = "index" /\ metadata'[script[o].version].status # NoFile
    BY <2>1, <2>3
  <2>4. CASE script[o].pc = "index" /\ Readable /\ script'[o].read = index
    BY <2>1, <2>4 DEF ListedHasMetadata
  <2>5. QED BY <1>2, <2>2, <2>3, <2>4
<1>3. QED BY <1>1, <1>2 DEF ListedHasMetadata

LEMMA StoredArtifact ==
    ASSUME StoredInv, RegistryTypeOK', NEW p \in Scripts, WriteArtifact(p)
    PROVE  StoredInv'
<1>1. OthersStay(p) /\ Continues /\ script'[p] = [script[p] EXCEPT !.pc = "checksum"]
  BY ArtifactWritten DEF StoredInv
<1>2. PICK s \in Script : s = script[p] /\ s.pc = "artifact"
  BY DEF WriteArtifact, StoredInv, RegistryTypeOK
<1>3. /\ artifact' = [artifact EXCEPT ![s.version] = s.build]
      /\ UNCHANGED <<metadata, index, spoiled>>
  BY <1>2 DEF WriteArtifact
<1>4. /\ script'[p].pc = "checksum" /\ script'[p].version = s.version
      /\ script'[p].build = s.build /\ script'[p].alone = s.alone
  BY <1>1, <1>2 DEF Script
<1>5. artifact'[s.version] = s.build
      /\ \A u \in ModelVersions \ {s.version} : artifact'[u] = artifact[u]
  BY <1>2, <1>3 DEF StoredInv, RegistryTypeOK, Script
<1>6. \A o \in Scripts : script[o].version \in ModelVersions
  BY DEF StoredInv, RegistryTypeOK, Script
<1>7. AloneTold'
  BY <1>1, StoredContinues
<1>8. \A o \in Scripts \ {p} : script[o].pc # "idle" /\ script[o].alone
                                  => script[o].version # s.version
  BY <1>2 DEF StoredInv, AloneTold
<1> DEFINE Half(t) == t.pc \in {"checksum", "metadata"} /\ Registers(t) /\ t.alone
<1>9. BuildWritten'
  <2>1. ASSUME NEW o \in Scripts, NEW t, t = script'[o], Half(t)
        PROVE  artifact'[t.version] = t.build /\ (t.pc = "metadata" => t.checksum = t.build)
    <3>1. CASE o = p
      BY <1>4, <1>5, <2>1, <3>1
    <3>2. CASE o # p
      <4>1. t = script[o] /\ t.version # s.version /\ t.version \in ModelVersions
        BY <1>1, <1>6, <1>8, <2>1, <3>2 DEF OthersStay
      <4>2. artifact[t.version] = t.build /\ (t.pc = "metadata" => t.checksum = t.build)
        BY <2>1, <4>1 DEF StoredInv, BuildWritten
      <4>3. QED BY <1>5, <4>1, <4>2
    <3>3. QED BY <3>1, <3>2
  <2>2. QED BY <2>1 DEF BuildWritten, Registers
<1>10. PromotionKeeps' /\ UnspoiledAlone'
  <2>1. ASSUME NEW o \in Scripts, NEW t, t = script'[o]
        PROVE  /\ t.pc = "metadata" /\ ~Registers(t) /\ t.alone =>
                     /\ metadata'[t.version].status \in ModelStates
                     /\ t.checksum = metadata'[t.version].checksum
               /\ t.pc # "idle" /\ t.version \notin spoiled' => t.alone
    <3>1. CASE o = p
      BY <1>2, <1>3, <1>4, <2>1, <3>1 DEF StoredInv, UnspoiledAlone
    <3>2. CASE o # p
      <4>1. t = script[o]
        BY <1>1, <2>1, <3>2 DEF OthersStay
      <4>2. QED BY <1>3, <4>1 DEF StoredInv, PromotionKeeps, UnspoiledAlone
    <3>3. QED BY <3>1, <3>2
  <2>2. QED BY <2>1 DEF PromotionKeeps, UnspoiledAlone, Registers
<1>11. ASSUME NEW u \in ModelVersions \ spoiled
       PROVE  metadata'[u].status = NoFile \/ Loadable(u)' \/ HalfRegistered(u)'
  <2>1. CASE u = s.version
    <3>1. Registers(script[p])
      BY <1>2 DEF StoredInv, ArtifactOfRegistration
    <3>2. QED BY <1>2, <1>4, <2>1, <3>1 DEF HalfRegistered, Registers
  <2>2. CASE u # s.version
    <3>1. Loadable(u) => Loadable(u)'
      BY <1>3, <1>5, <2>2 DEF Loadable
    <3>2. HalfRegistered(u) => HalfRegistered(u)'
      BY <1>1, <1>2, <2>2 DEF HalfRegistered, OthersStay, Registers
    <3>3. QED BY <1>3, <3>1, <3>2 DEF StoredInv, UnspoiledLoads
  <2>3. QED BY <2>1, <2>2
<1>12. ListedHasMetadata'
  <2>1. \A o \in Scripts :
           script'[o].pc \in {"index", "entry"} =>
              script'[o].pc = script[o].pc /\ script'[o].read = script[o].read
    BY <1>1, <1>4 DEF OthersStay
  <2>2. \A v \in ModelVersions : metadata[v].status # NoFile => metadata'[v].status # NoFile
    BY <1>3
  <2>3. QED BY <1>1, <1>3, <1>6, <2>1, <2>2, ListedStays DEF StoredInv
<1>14. ArtifactOfRegistration'
  BY <1>1, <1>4 DEF StoredInv, ArtifactOfRegistration, OthersStay, Registers
<1>15. UnspoiledLoads'
  BY <1>3, <1>11 DEF UnspoiledLoads
<1>16. QED BY <1>7, <1>9, <1>10, <1>12, <1>14, <1>15 DEF StoredInv

LEMMA StoredChecksum ==
    ASSUME StoredInv, RegistryTypeOK', NEW p \in Scripts, TakeChecksum(p)
    PROVE  StoredInv'
<1>1. PICK s \in Script : s = script[p] /\ s.pc = "checksum"
  BY DEF TakeChecksum, StoredInv, RegistryTypeOK
<1>2. PICK taken :
         /\ taken = IF Registers(s) THEN artifact[s.version] ELSE metadata[s.version].checksum
         /\ script'[p] = [s EXCEPT !.pc = "metadata", !.checksum = taken]
  BY <1>1, ChecksumTaken DEF StoredInv
<1>3. OthersStay(p) /\ Continues
  BY ChecksumTaken DEF StoredInv
<1>4. UNCHANGED <<artifact, metadata, index, spoiled>>
      /\ (Registers(s) \/ metadata[s.version].status \in ModelStates)
  BY <1>1 DEF TakeChecksum
<1>5. /\ script'[p].pc = "metadata" /\ script'[p].version = s.version
      /\ script'[p].build = s.build /\ script'[p].alone = s.alone
      /\ script'[p].checksum = taken
  BY <1>1, <1>2 DEF Script
<1>6. ASSUME NEW o \in Scripts, NEW t, t = script'[o]
      PROVE  /\ t.pc \in {"checksum", "metadata"} /\ Registers(t) /\ t.alone =>
                   /\ artifact'[t.version] = t.build
                   /\ t.pc = "metadata" => t.checksum = t.build
             /\ t.pc = "metadata" /\ ~Registers(t) /\ t.alone =>
                   /\ metadata'[t.version].status \in ModelStates
                   /\ t.checksum = metadata'[t.version].checksum
             /\ t.pc # "idle" /\ t.version \notin spoiled' => t.alone
             /\ t.pc = "artifact" => Registers(t)
  <2>1. CASE o = p
    <3>1. Registers(s) /\ s.alone => artifact[s.version] = s.build
      BY <1>1 DEF StoredInv, BuildWritten
    <3>2. s.version \notin spoiled => s.alone
      BY <1>1 DEF StoredInv, UnspoiledAlone
    <3>3. Registers(t) <=> Registers(s)
      BY <1>5, <1>6, <2>1 DEF Registers
    <3>4. QED BY <1>2, <1>4, <1>5, <1>6, <2>1, <3>1, <3>2, <3>3
  <2>2. CASE o # p
    <3>1. t = script[o]
      BY <1>3, <1>6, <2>2 DEF OthersStay
    <3>2. QED
      BY <1>4, <3>1 DEF StoredInv, BuildWritten, PromotionKeeps, UnspoiledAlone,
                        ArtifactOfRegistration
  <2>3. QED BY <2>1, <2>2
<1>7. BuildWritten' /\ PromotionKeeps' /\ UnspoiledAlone' /\ ArtifactOfRegistration'
  BY <1>6 DEF BuildWritten, PromotionKeeps, UnspoiledAlone, ArtifactOfRegistration, Registers
<1>8. ASSUME NEW u \in ModelVersions \ spoiled
      PROVE  metadata'[u].status = NoFile \/ Loadable(u)' \/ HalfRegistered(u)'
  <2>1. Loadable(u) => Loadable(u)'
    BY <1>4 DEF Loadable
  <2>2. HalfRegistered(u) => HalfRegistered(u)'
    BY <1>1, <1>3, <1>5 DEF HalfRegistered, OthersStay, Registers
  <2>3. QED BY <1>4, <2>1, <2>2 DEF StoredInv, UnspoiledLoads
<1>9. UnspoiledLoads'
  BY <1>4, <1>8 DEF UnspoiledLoads
<1>10. ListedHasMetadata'
  <2>1. \A o \in Scripts :
           /\ script[o].version \in ModelVersions
           /\ script'[o].pc \in {"index", "entry"} =>
                 script'[o].pc = script[o].pc /\ script'[o].read = script[o].read
    BY <1>3, <1>5 DEF OthersStay, StoredInv, RegistryTypeOK, Script
  <2>2. \A v \in ModelVersions : metadata[v].status # NoFile => metadata'[v].status # NoFile
    BY <1>4
  <2>3. QED BY <1>3, <1>4, <2>1, <2>2, ListedStays DEF StoredInv
<1>11. QED BY <1>3, <1>7, <1>9, <1>10, StoredContinues DEF StoredInv

LEMMA StoredMetadata ==
    ASSUME StoredInv, RegistryTypeOK', NEW p \in Scripts, WriteMetadata(p)
    PROVE  StoredInv'
<1>1. PICK s \in Script : s = script[p] /\ s.pc = "metadata"
  BY DEF WriteMetadata, StoredInv, RegistryTypeOK
<1>2. OthersStay(p) /\ Continues /\ script'[p] = [s EXCEPT !.pc = "index"]
  BY <1>1, MetadataWritten DEF StoredInv
<1>3. /\ metadata' = [metadata EXCEPT ![s.version] =
                         [status |-> s.status, checksum |-> s.checksum]]
      /\ spoiled' = IF Registers(s) /\ s.alone THEN spoiled \ {s.version} ELSE spoiled
      /\ UNCHANGED <<artifact, index>>
  BY <1>1 DEF WriteMetadata
<1>4. /\ script'[p].pc = "index" /\ script'[p].version = s.version
      /\ script'[p].build = s.build /\ script'[p].alone = s.alone
  BY <1>1, <1>2 DEF Script
<1>5. s.version \in ModelVersions /\ s.status \in ModelStates /\ s.status # NoFile
  BY DEF Script, ModelStates, NoFile
<1>6. /\ metadata'[s.version].status = s.status /\ metadata'[s.version].checksum = s.checksum
      /\ \A u \in ModelVersions \ {s.version} : metadata'[u] = metadata[u]
  BY <1>3, <1>5 DEF StoredInv, RegistryTypeOK
<1>7. \A o \in Scripts \ {p} : script[o].pc # "idle" /\ script[o].version = s.version
                                 => ~script[o].alone /\ ~s.alone
  BY <1>1 DEF StoredInv, AloneTold
<1>8. s.version \notin spoiled => s.alone
  BY <1>1 DEF StoredInv, UnspoiledAlone
<1>9. ASSUME NEW o \in Scripts, NEW t, t = script'[o]
      PROVE  /\ t.pc \in {"checksum", "metadata"} /\ Registers(t) /\ t.alone =>
                   /\ artifact'[t.version] = t.build
                   /\ t.pc = "metadata" => t.checksum = t.build
             /\ t.pc = "metadata" /\ ~Registers(t) /\ t.alone =>
                   /\ metadata'[t.version].status \in ModelStates
                   /\ t.checksum = metadata'[t.version].checksum
             /\ t.pc # "idle" /\ t.version \notin spoiled' => t.alone
             /\ t.pc = "artifact" => Registers(t)
  <2>1. CASE o = p
    BY <1>3, <1>4, <1>8, <1>9, <2>1
  <2>2. CASE o # p
    <3>1. t = script[o] /\ t.version \in ModelVersions
      BY <1>2, <1>9, <2>2 DEF OthersStay, StoredInv, RegistryTypeOK, Script
    <3>2. t.pc # "idle" /\ t.version = s.version => ~t.alone /\ ~s.alone
      BY <1>7, <2>2, <3>1
    <3>3. t.pc # "idle" /\ t.version \notin spoiled' => t.alone
      BY <1>3, <3>1, <3>2 DEF StoredInv, UnspoiledAlone
    <3>4. t.pc = "metadata" /\ ~Registers(t) /\ t.alone =>
                   /\ metadata'[t.version].status \in ModelStates
                   /\ t.checksum = metadata'[t.version].checksum
      BY <1>6, <3>1, <3>2 DEF StoredInv, PromotionKeeps
    <3>5. QED
      BY <1>3, <3>1, <3>3, <3>4 DEF StoredInv, BuildWritten, ArtifactOfRegistration
  <2>3. QED BY <2>1, <2>2
<1>10. BuildWritten' /\ PromotionKeeps' /\ UnspoiledAlone' /\ ArtifactOfRegistration'
  BY <1>9 DEF BuildWritten, PromotionKeeps, UnspoiledAlone, ArtifactOfRegistration, Registers
<1>11. ASSUME NEW u \in ModelVersions \ spoiled'
       PROVE  metadata'[u].status = NoFile \/ Loadable(u)' \/ HalfRegistered(u)'
  <2>1. CASE u # s.version
    <3>1. Loadable(u) => Loadable(u)'
      BY <1>3, <1>6, <2>1 DEF Loadable
    <3>2. HalfRegistered(u) => HalfRegistered(u)'
      BY <1>1, <1>2, <2>1 DEF HalfRegistered, OthersStay, Registers
    <3>3. u \notin spoiled
      BY <1>3, <2>1
    <3>4. QED BY <1>6, <2>1, <3>1, <3>2, <3>3 DEF StoredInv, UnspoiledLoads
  <2>2. CASE u = s.version /\ Registers(s)
    <3>1. s.alone
      BY <1>3, <1>8, <2>2
    <3>2. artifact[u] = s.build /\ s.checksum = s.build
      BY <1>1, <2>2, <3>1 DEF StoredInv, BuildWritten
    <3>3. s.build \in Builds
      BY <2>2 DEF Script, Registers
    <3>4. QED BY <1>3, <1>5, <1>6, <2>2, <3>2, <3>3 DEF Loadable
  <2>3. CASE u = s.version /\ ~Registers(s)
    <3>1. u \notin spoiled /\ s.alone
      BY <1>3, <1>8, <2>3
    <3>2. metadata[u].status \in ModelStates /\ s.checksum = metadata[u].checksum
      BY <1>1, <2>3, <3>1 DEF StoredInv, PromotionKeeps
    <3>3. ~HalfRegistered(u)
      BY <1>1, <1>7, <2>3, <3>1 DEF HalfRegistered
    <3>4. Loadable(u)
      BY <3>1, <3>2, <3>3 DEF StoredInv, UnspoiledLoads, ModelStates, NoFile
    <3>5. QED BY <1>3, <1>5, <1>6, <2>3, <3>2, <3>4 DEF Loadable
  <2>4. QED BY <2>1, <2>2, <2>3
<1>12. UnspoiledLoads'
  BY <1>11 DEF UnspoiledLoads
<1>13. ListedHasMetadata'
  <2>1. \A o \in Scripts :
           /\ script[o].version \in ModelVersions
           /\ script'[o].pc \in {"index", "entry"} =>
                 \/ script'[o].pc = script[o].pc /\ script'[o].read = script[o].read
                 \/ script'[o].pc = "index" /\ metadata'[script[o].version].status # NoFile
    BY <1>1, <1>2, <1>4, <1>5, <1>6 DEF OthersStay, StoredInv, RegistryTypeOK, Script
  <2>2. \A v \in ModelVersions : metadata[v].status # NoFile => metadata'[v].status # NoFile
    BY <1>5, <1>6
  <2>3. QED BY <1>2, <1>3, <2>1, <2>2, ListedStays DEF StoredInv
<1>14. QED BY <1>2, <1>10, <1>12, <1>13, StoredContinues DEF StoredInv

LEMMA StoredRead ==
    ASSUME StoredInv, RegistryTypeOK', NEW p \in Scripts, ReadIndex(p)
    PROVE  StoredInv'
<1>1. PICK s \in Script : s = script[p] /\ s.pc = "index"
  BY DEF ReadIndex, StoredInv, RegistryTypeOK
<1>2. OthersStay(p) /\ Continues /\ script'[p] = [s EXCEPT !.pc = "entry", !.read = index]
  BY <1>1, IndexRead DEF StoredInv
<1>3. Readable /\ UNCHANGED <<artifact, metadata, index, spoiled>>
  BY DEF ReadIndex
<1>4. /\ script'[p].pc = "entry" /\ script'[p].version = s.version
      /\ script'[p].alone = s.alone /\ script'[p].read = index
  BY <1>1, <1>2 DEF Script
<1>5. BuildWritten' /\ PromotionKeeps' /\ ArtifactOfRegistration'
  <2>1. \A o \in Scripts : script'[o] = script[o] \/ script'[o].pc = "entry"
    BY <1>2, <1>4 DEF OthersStay
  <2>2. BuildWritten'
    BY <1>3, <2>1 DEF StoredInv, BuildWritten, Registers
  <2>3. PromotionKeeps'
    BY <1>3, <2>1 DEF StoredInv, PromotionKeeps, Registers
  <2>4. ArtifactOfRegistration'
    BY <2>1 DEF StoredInv, ArtifactOfRegistration, Registers
  <2>5. QED BY <2>2, <2>3, <2>4
<1>6. UnspoiledAlone'
  BY <1>1, <1>2, <1>3, <1>4 DEF StoredInv, OthersStay, UnspoiledAlone
<1>7. ASSUME NEW u \in ModelVersions \ spoiled
      PROVE  metadata'[u].status = NoFile \/ Loadable(u)' \/ HalfRegistered(u)'
  <2>1. Loadable(u) => Loadable(u)'
    BY <1>3 DEF Loadable
  <2>2. HalfRegistered(u) => HalfRegistered(u)'
    BY <1>1, <1>2 DEF HalfRegistered, OthersStay, Registers
  <2>3. QED BY <1>3, <2>1, <2>2 DEF StoredInv, UnspoiledLoads
<1>8. UnspoiledLoads'
  BY <1>3, <1>7 DEF UnspoiledLoads
<1>9. ListedHasMetadata'
  <2>1. \A o \in Scripts :
           /\ script[o].version \in ModelVersions
           /\ script'[o].pc \in {"index", "entry"} =>
                 \/ script'[o].pc = script[o].pc /\ script'[o].read = script[o].read
                 \/ script[o].pc = "index" /\ Readable /\ script'[o].read = index
    BY <1>1, <1>2, <1>3, <1>4 DEF OthersStay, StoredInv, RegistryTypeOK, Script
  <2>2. \A v \in ModelVersions : metadata[v].status # NoFile => metadata'[v].status # NoFile
    BY <1>3
  <2>3. QED BY <1>2, <1>3, <2>1, <2>2, ListedStays DEF StoredInv
<1>10. QED BY <1>2, <1>5, <1>6, <1>8, <1>9, StoredContinues DEF StoredInv

LEMMA StoredOver ==
    ASSUME StoredInv, RegistryTypeOK', NEW p \in Scripts, WriteIndex(p) \/ ScriptEnds(p)
    PROVE  StoredInv'
<1>1. PICK s \in Script : s = script[p] /\ s.pc # "idle" /\ s.version \in ModelVersions
  BY DEF WriteIndex, ScriptEnds, StoredInv, RegistryTypeOK, Script
<1>2. OthersStay(p) /\ Continues /\ script'[p].pc = "idle"
  BY ScriptIsOver DEF StoredInv
<1>3. \A u \in ModelVersions :
         /\ u # s.version => artifact'[u] = artifact[u] /\ metadata'[u] = metadata[u]
         /\ u \notin spoiled' => artifact'[u] = artifact[u] /\ metadata'[u] = metadata[u]
         /\ metadata[u].status # NoFile => metadata'[u].status # NoFile
  BY <1>1 DEF WriteIndex, ScriptEnds, StoredInv, RegistryTypeOK, TornMetadata, NoFile, Torn
<1>4. spoiled \subseteq spoiled'
      /\ (s.version \in spoiled' \/ s.pc \in {"index", "entry"})
  BY <1>1 DEF WriteIndex, ScriptEnds
<1>5. \A o \in Scripts \ {p} : script[o].pc # "idle" /\ script[o].alone
                                 => script[o].version # s.version
  BY <1>1 DEF StoredInv, AloneTold
<1>6. ASSUME NEW o \in Scripts, NEW t, t = script'[o], t.pc # "idle"
      PROVE  /\ t.pc \in {"checksum", "metadata"} /\ Registers(t) /\ t.alone =>
                   /\ artifact'[t.version] = t.build
                   /\ t.pc = "metadata" => t.checksum = t.build
             /\ t.pc = "metadata" /\ ~Registers(t) /\ t.alone =>
                   /\ metadata'[t.version].status \in ModelStates
                   /\ t.checksum = metadata'[t.version].checksum
             /\ t.version \notin spoiled' => t.alone
             /\ t.pc = "artifact" => Registers(t)
  <2>1. t = script[o] /\ o # p /\ t.version \in ModelVersions
    BY <1>2, <1>6 DEF OthersStay, StoredInv, RegistryTypeOK, Script
  <2>2. t.alone => t.version # s.version
    BY <1>5, <1>6, <2>1
  <2>3. t.alone => artifact'[t.version] = artifact[t.version]
                   /\ metadata'[t.version] = metadata[t.version]
    BY <1>3, <2>1, <2>2
  <2>4. t.version \notin spoiled' => t.alone
    BY <1>4, <1>6, <2>1 DEF StoredInv, UnspoiledAlone
  <2>5. QED
    BY <2>1, <2>3, <2>4 DEF StoredInv, BuildWritten, PromotionKeeps, ArtifactOfRegistration
<1>7. BuildWritten' /\ PromotionKeeps' /\ UnspoiledAlone' /\ ArtifactOfRegistration'
  BY <1>6 DEF BuildWritten, PromotionKeeps, UnspoiledAlone, ArtifactOfRegistration, Registers
<1>8. ASSUME NEW u \in ModelVersions \ spoiled'
      PROVE  metadata'[u].status = NoFile \/ Loadable(u)' \/ HalfRegistered(u)'
  <2>1. Loadable(u) => Loadable(u)'
    BY <1>3, <1>8 DEF Loadable
  <2>2. HalfRegistered(u) => HalfRegistered(u)'
    BY <1>1, <1>2, <1>4, <1>8 DEF HalfRegistered, OthersStay, Registers
  <2>3. QED BY <1>3, <1>4, <1>8, <2>1, <2>2 DEF StoredInv, UnspoiledLoads
<1>9. UnspoiledLoads'
  BY <1>8 DEF UnspoiledLoads
<1>10. \A o \in Scripts : script'[o].pc # "idle" => script'[o] = script[o]
  BY <1>2 DEF OthersStay
<1>11. \A o \in Scripts : script[o].version \in ModelVersions
  BY DEF StoredInv, RegistryTypeOK, Script
<1>12. ListedHasMetadata'
  <2>1. CASE index' = index
    <3>1. \A o \in Scripts :
             script'[o].pc \in {"index", "entry"} =>
                script'[o].pc = script[o].pc /\ script'[o].read = script[o].read
      BY <1>10
    <3>2. QED BY <1>2, <1>3, <1>11, <2>1, <3>1, ListedStays DEF StoredInv
  <2>2. CASE index' # index
    <3>1. index' = TornIndex \/ index' = NewIndex(s)
      BY <1>1, <2>2 DEF WriteIndex, ScriptEnds
    <3>2. s.pc = "entry" /\ s.read \in [ModelVersions -> ModelStates \cup {NoFile}]
      BY <1>1, <2>2 DEF WriteIndex, ScriptEnds, Script
    <3>3. index' = NewIndex(s) =>
             \A v \in ModelVersions : index'[v] # NoFile => metadata[v].status # NoFile
      BY <1>1, <3>2 DEF NewIndex, StoredInv, ListedHasMetadata
    <3>4. Readable' =>
             \A v \in ModelVersions : index'[v] # NoFile => metadata'[v].status # NoFile
      BY <1>3, <3>1, <3>3 DEF Readable, TornIndex
    <3>5. \A o \in Scripts : script'[o].pc \in {"index", "entry"} =>
             /\ metadata'[script'[o].version].status # NoFile
             /\ script'[o].pc = "entry" =>
                   \A v \in ModelVersions :
                      script'[o].read[v] # NoFile => metadata'[v].status # NoFile
      BY <1>3, <1>10, <1>11 DEF StoredInv, ListedHasMetadata
    <3>6. QED BY <3>4, <3>5 DEF ListedHasMetadata
  <2>3. QED BY <2>1, <2>2
<1>13. QED BY <1>2, <1>7, <1>9, <1>12, StoredContinues DEF StoredInv

LEMMA StoredStep == StoredInv /\ [RegistryNext]_registryVars => StoredInv'
<1> SUFFICES ASSUME StoredInv, [RegistryNext]_registryVars
             PROVE  StoredInv'
  OBVIOUS
<1>1. RegistryTypeOK'
  BY RegistryTypeStep DEF StoredInv
<1>2. CASE UNCHANGED registryVars
  BY <1>1, <1>2
  DEF StoredInv, registryVars, AloneTold, BuildWritten, PromotionKeeps, UnspoiledAlone,
      UnspoiledLoads, ListedHasMetadata, ArtifactOfRegistration, HalfRegistered, Loadable,
      Registers, Readable, TornIndex
<1>3. QED
  BY <1>1, <1>2, StoredBegins, StoredArtifact, StoredChecksum, StoredMetadata, StoredRead,
     StoredOver
  DEF RegistryNext

\* What the index lists can be loaded, with an artifact whose checksum is the one of
\* its metadata, for any number of scripts that register again, promote, overlap and
\* are killed: all but the versions whose own registration was ended half way or met
\* another process at work on the version.
THEOREM ListedStaysLoadable == RegistrySpec => []ListedCanBeLoaded
<1>1. StoredInv => ListedCanBeLoaded
  <2> SUFFICES ASSUME StoredInv, Readable, NEW v \in ModelVersions \ spoiled,
                      index[v] # NoFile, WorkOn(v) = {}
               PROVE  Loadable(v)
    BY DEF ListedCanBeLoaded
  <2>1. metadata[v].status # NoFile
    BY DEF StoredInv, ListedHasMetadata
  <2>2. ~HalfRegistered(v)
    BY DEF HalfRegistered, WorkOn
  <2>3. QED BY <2>1, <2>2 DEF StoredInv, UnspoiledLoads
<1>2. QED BY <1>1, StoredInit, StoredStep, PTL DEF RegistrySpec

\* The listing and the metadata after each write, as long as nothing was ended early
\* and no two scripts were at work at once.
AgreementInv ==
    /\ RegistryTypeOK
    /\ ~disturbed =>
          /\ Readable
          /\ \A p, o \in Scripts : p # o => script[p].pc = "idle" \/ script[o].pc = "idle"
          /\ (\A p \in Scripts : script[p].pc \notin {"index", "entry"}) =>
                \A v \in ModelVersions : index[v] = metadata[v].status
          /\ \A p \in Scripts :
                LET s == script[p]
                IN  /\ s.pc \in {"index", "entry"} => metadata[s.version].status = s.status
                    /\ \A v \in ModelVersions \ {s.version} :
                          /\ s.pc = "index" => index[v] = metadata[v].status
                          /\ s.pc = "entry" => s.read[v] = metadata[v].status

LEMMA AgreementInit == RegistryInit => AgreementInv
<1> SUFFICES ASSUME RegistryInit PROVE AgreementInv
  OBVIOUS
<1>1. RegistryTypeOK /\ Readable
  BY RegistryTypeInit, IdleScriptType, TornIsUnreadable DEF Readable, RegistryInit
<1>2. \A p \in Scripts : script[p].pc = "idle"
  BY DEF RegistryInit, IdleScript
<1>3. \A v \in ModelVersions : index[v] = metadata[v].status
  BY DEF RegistryInit, NoMetadata, Unlisted
<1>4. QED BY <1>1, <1>2, <1>3 DEF AgreementInv

LEMMA AgreementStep == AgreementInv /\ [RegistryNext]_registryVars => AgreementInv'
<1> SUFFICES ASSUME AgreementInv, [RegistryNext]_registryVars, ~disturbed'
             PROVE  AgreementInv'
  BY RegistryTypeStep DEF AgreementInv
<1>1. RegistryTypeOK /\ RegistryTypeOK'
  BY RegistryTypeStep DEF AgreementInv
<1> USE <1>1
\* A script begins: all the others are idle.
<1>2. ASSUME NEW p \in Scripts, RegisterBegins(p) \/ PromoteBegins(p) PROVE AgreementInv'
  <2>1. PICK work \in Script : Begins(p, work) /\ work.pc \in {"artifact", "checksum"}
    BY <1>2, WorkBegun
  <2>2. UNCHANGED <<artifact, metadata, index>>
    BY <1>2 DEF RegisterBegins, PromoteBegins
  <2>3. ~disturbed /\ \A o \in Scripts : script[o].pc = "idle"
    BY <2>1 DEF Begins
  <2>4. script'[p].pc \in {"artifact", "checksum"} /\ OthersStay(p)
    <3>1. script'[p] = [work EXCEPT !.alone = WorkOn(work.version) = {}]
          /\ \A o \in Scripts \ {p} :
                script'[o] = IF script[o].pc # "idle" /\ script[o].version = work.version
                             THEN [script[o] EXCEPT !.alone = FALSE] ELSE script[o]
      BY <2>1, BeginsType, SMTT(30)
    <3>2. script'[p].pc = work.pc
      <4>1. PICK flag : script'[p] = [work EXCEPT !.alone = flag]
        BY <3>1
      <4>2. QED BY <4>1 DEF Script
    <3>3. OthersStay(p)
      BY <2>3, <3>1 DEF OthersStay
    <3>4. QED BY <2>1, <3>2, <3>3
  <2>5. (\A v \in ModelVersions : index'[v] = metadata'[v].status) /\ Readable'
    BY <2>2, <2>3 DEF AgreementInv, Readable, TornIndex
  <2>6. QED BY <2>3, <2>4, <2>5 DEF AgreementInv, OthersStay
\* The one script at work goes on.
<1>3. ASSUME NEW p \in Scripts, NEW s \in Script, s = script[p], WriteArtifact(p) \/ TakeChecksum(p)
      PROVE  AgreementInv'
  <2>1. ~disturbed /\ s.pc \in {"artifact", "checksum"} /\ UNCHANGED <<metadata, index>>
    BY <1>3 DEF WriteArtifact, TakeChecksum
  <2>2. \A o \in Scripts \ {p} : script[o].pc = "idle"
    BY <1>3, <2>1 DEF AgreementInv
  <2>3. script'[p].pc \in {"checksum", "metadata"} /\ OthersStay(p)
    BY <1>3, ArtifactWritten, ChecksumTaken DEF Script
  <2>4. (\A v \in ModelVersions : index'[v] = metadata'[v].status) /\ Readable'
    BY <1>3, <2>1, <2>2 DEF AgreementInv, Readable, TornIndex
  <2>5. QED BY <2>2, <2>3, <2>4 DEF AgreementInv, OthersStay
<1>4. ASSUME NEW p \in Scripts, NEW s \in Script, s = script[p], WriteMetadata(p)
      PROVE  AgreementInv'
  <2>1. /\ ~disturbed /\ s.pc = "metadata" /\ UNCHANGED index
        /\ metadata' = [metadata EXCEPT ![s.version] =
                           [status |-> s.status, checksum |-> s.checksum]]
    BY <1>4 DEF WriteMetadata
  <2>2. \A o \in Scripts \ {p} : script[o].pc = "idle"
    BY <1>4, <2>1 DEF AgreementInv
  <2>3. /\ script'[p].pc = "index" /\ script'[p].version = s.version
        /\ script'[p].status = s.status /\ OthersStay(p)
    <3>1. script'[p] = [s EXCEPT !.pc = "index"] /\ OthersStay(p)
      BY <1>4, MetadataWritten
    <3>2. QED BY <3>1 DEF Script
  <2>4. (\A v \in ModelVersions : index[v] = metadata[v].status) /\ Readable'
    BY <1>4, <2>1, <2>2 DEF AgreementInv, Readable, TornIndex
  <2>5. /\ metadata'[s.version].status = s.status
        /\ \A v \in ModelVersions \ {s.version} : index'[v] = metadata'[v].status
    BY <2>1, <2>4 DEF RegistryTypeOK, Script
  <2>6. QED BY <2>2, <2>3, <2>4, <2>5 DEF AgreementInv, OthersStay
<1>5. ASSUME NEW p \in Scripts, NEW s \in Script, s = script[p], ReadIndex(p)
      PROVE  AgreementInv'
  <2>1. ~disturbed /\ s.pc = "index" /\ UNCHANGED <<metadata, index>>
    BY <1>5 DEF ReadIndex
  <2>2. \A o \in Scripts \ {p} : script[o].pc = "idle"
    BY <1>5, <2>1 DEF AgreementInv
  <2>3. /\ script'[p].pc = "entry" /\ script'[p].version = s.version
        /\ script'[p].status = s.status /\ script'[p].read = index /\ OthersStay(p)
    <3>1. script'[p] = [s EXCEPT !.pc = "entry", !.read = index] /\ OthersStay(p)
      BY <1>5, IndexRead
    <3>2. QED BY <3>1 DEF Script
  <2>4. /\ metadata[s.version].status = s.status /\ Readable'
        /\ \A v \in ModelVersions \ {s.version} : index[v] = metadata[v].status
    BY <1>5, <2>1 DEF AgreementInv, Readable, TornIndex
  <2>5. QED BY <2>1, <2>2, <2>3, <2>4 DEF AgreementInv, OthersStay
<1>6. ASSUME NEW p \in Scripts, NEW s \in Script, s = script[p], WriteIndex(p)
      PROVE  AgreementInv'
  <2>1. ~disturbed /\ s.pc = "entry" /\ UNCHANGED metadata /\ index' = NewIndex(s)
    BY <1>6 DEF WriteIndex
  <2>2. \A o \in Scripts \ {p} : script[o].pc = "idle"
    BY <1>6, <2>1 DEF AgreementInv
  <2>3. script'[p].pc = "idle" /\ OthersStay(p)
    BY <1>6, ScriptIsOver
  <2>4. /\ metadata[s.version].status = s.status
        /\ \A v \in ModelVersions \ {s.version} : s.read[v] = metadata[v].status
    BY <1>6, <2>1 DEF AgreementInv
  <2>5. \A v \in ModelVersions : index'[v] = metadata'[v].status
    BY <2>1, <2>4 DEF NewIndex, Script
  <2>6. index' \in Listing
    BY <2>1 DEF NewIndex, Script, Listing
  <2>7. Readable'
    BY <2>6, TornIsUnreadable DEF Readable, TornIndex
  <2>8. QED BY <2>2, <2>3, <2>5, <2>7 DEF AgreementInv, OthersStay
<1>7. ASSUME NEW p \in Scripts, ScriptEnds(p) PROVE AgreementInv'
  BY <1>7 DEF ScriptEnds
<1>8. CASE UNCHANGED registryVars
  BY <1>8 DEF registryVars, AgreementInv, Readable, TornIndex
<1>9. \A p \in Scripts : script[p] \in Script
  BY DEF RegistryTypeOK
<1>10. QED
  BY <1>2, <1>3, <1>4, <1>5, <1>6, <1>7, <1>8, <1>9 DEF RegistryNext

\* Without a script ended early and without two at once, the status by which
\* latest_by_status() chooses is the one in metadata.json.
THEOREM StatusesStayEqual == RegistrySpec => []StatusesAgree
<1>1. AgreementInv => StatusesAgree
  BY DEF AgreementInv, StatusesAgree
<1>2. QED BY <1>1, AgreementInit, AgreementStep, PTL DEF RegistrySpec

\* A model chosen from the index can be loaded and is what the index says, of files
\* that are written one after the other without a lock by scripts that may be killed.
THEOREM RegistryStaysConsistent == RegistrySpec => []RegistryConsistent
<1>1. ListedCanBeLoaded /\ StatusesAgree => RegistryConsistent
  BY DEF RegistryConsistent
<1>2. QED BY <1>1, ListedStaysLoadable, StatusesStayEqual, PTL

-----------------------------------------------------------------------------
(* The circuit breaker. *)

LEMMA BreakerTypeInit == BreakerInit => BreakerTypeOK
BY BreakerAssumption DEF BreakerInit, BreakerTypeOK, Closed

LEMMA OutcomesType ==
    ASSUME BreakerTypeOK
    PROVE  LET Breakers == [state : {"CLOSED", "OPEN", "HALF_OPEN"},
                            failures : 0 .. FailureThreshold, expired : BOOLEAN]
           IN  {MaybeHalfOpen(breaker), OnSuccess(breaker), OnFailure(breaker)} \subseteq Breakers
<1> DEFINE Breakers == [state : {"CLOSED", "OPEN", "HALF_OPEN"},
                        failures : 0 .. FailureThreshold, expired : BOOLEAN]
<1>1. breaker \in Breakers
  BY DEF BreakerTypeOK
<1>2. MaybeHalfOpen(breaker) \in Breakers /\ OnSuccess(breaker) \in Breakers
  BY <1>1, BreakerAssumption DEF MaybeHalfOpen, OnSuccess, Closed
<1>3. OnFailure(breaker) \in Breakers
  <2>1. PICK n : n = Min({breaker.failures + 1, FailureThreshold})
    OBVIOUS
  <2>2. n \in {breaker.failures + 1, FailureThreshold} /\ n <= FailureThreshold
    <3>1. PICK m \in Nat : m = breaker.failures + 1
      BY <1>1
    <3>2. m \in Int /\ FailureThreshold \in Int
      BY <3>1, BreakerAssumption
    <3>3. Min({m, FailureThreshold}) \in {m, FailureThreshold}
          /\ Min({m, FailureThreshold}) <= FailureThreshold
      BY <3>2, MinOfTwo
    <3> QED BY <2>1, <3>1, <3>3
  <2>3. n \in 0 .. FailureThreshold
    BY <1>1, <2>2, BreakerAssumption
  <2>4. OnFailure(breaker) = IF n >= FailureThreshold
                             THEN [state |-> "OPEN", failures |-> n, expired |-> FALSE]
                             ELSE [breaker EXCEPT !.failures = n]
    BY <2>1 DEF OnFailure
  <2> QED BY <1>1, <2>3, <2>4
<1> QED BY <1>2, <1>3

LEMMA BreakerTypeStep ==
    ASSUME BreakerTypeOK, [BreakerNext]_breakerVars
    PROVE  BreakerTypeOK'
<1>1. CASE CallBegins \/ CallSucceeds \/ CallFails
  BY <1>1, OutcomesType DEF CallBegins, CallSucceeds, CallFails, BreakerTypeOK
<1>2. CASE TimeoutExpires
  BY <1>2 DEF TimeoutExpires, BreakerTypeOK
<1>3. CASE ProviderChanges
  BY <1>3 DEF ProviderChanges, BreakerTypeOK
<1>4. CASE UNCHANGED breakerVars
  BY <1>4 DEF breakerVars, BreakerTypeOK
<1> QED BY <1>1, <1>2, <1>3, <1>4 DEF BreakerNext

\* The circuit breaker keeps its types, for any threshold.
THEOREM BreakerTypeCorrect == BreakerSpec => []BreakerTypeOK
BY BreakerTypeInit, BreakerTypeStep, PTL DEF BreakerSpec

-----------------------------------------------------------------------------
(* All of them. *)

\* A behaviour of all services is one of each: what is proved of a service holds
\* of the composition that the runs check.
THEOREM ServicesKeepApart ==
    ServicesSpec => /\ FindingSpec /\ QualitySpec /\ CommissioningSpec
                    /\ BreakerSpec /\ LocalSpec
<1>1. ServicesInit => /\ FindingInit /\ QualityInit /\ CommissioningInit
                      /\ BreakerInit /\ LocalInit
  BY DEF ServicesInit
<1>2. ASSUME [ServicesNext]_servicesVars
      PROVE  /\ [FindingNext]_findingVars /\ [QualityNext]_qualityVars
             /\ [CommissioningNext]_commissioningVars
             /\ [BreakerNext]_breakerVars /\ [LocalNext]_localVars
  <2>1. [FindingNext]_findingVars /\ [QualityNext]_qualityVars
    BY <1>2 DEF ServicesNext, servicesVars
  <2>2. [CommissioningNext]_commissioningVars
    BY <1>2 DEF ServicesNext, servicesVars
  <2>3. [BreakerNext]_breakerVars /\ [LocalNext]_localVars
    BY <1>2 DEF ServicesNext, servicesVars
  <2> QED BY <2>1, <2>2, <2>3
<1> QED BY <1>1, <1>2, PTL
        DEF ServicesSpec, FindingSpec, QualitySpec, CommissioningSpec, BreakerSpec, LocalSpec

\* The variables of all services keep their types, whichever of them moves.
THEOREM ServicesTypeCorrect == ServicesSpec => []ServicesTypeOK
<1>1. FindingTypeOK /\ QualityTypeOK /\ CommissioningTypeOK
      /\ BreakerTypeOK /\ LocalTypeOK => ServicesTypeOK
  BY DEF ServicesTypeOK
<1> QED BY ServicesKeepApart, FindingTypeCorrect, QualityTypeCorrect, CommissioningTypeCorrect,
           BreakerTypeCorrect, LocalTypeCorrect, <1>1, PTL
=============================================================================
