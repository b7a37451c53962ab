--------------------------- MODULE MonitoringProofs ---------------------------
(***************************************************************************)
(* Theorems about what the monitoring of a machine rests on: which machines *)
(* are monitored (Commissioning), which readings of a sensor are missing   *)
(* (SequenceGaps) and what the rules find (RuleFindings); for any number of *)
(* machines, requests, sensors, readings, signals and rows.                *)
(***************************************************************************)
EXTENDS Commissioning, SequenceGaps, RuleFindings, SequenceTheorems, FiniteSetTheorems, TLAPS

-----------------------------------------------------------------------------
(* Commissioning. *)

Snapshot == [current : BOOLEAN, previous : 0 .. MaxSnapshots]
Request == [operation : Operations, machine : Machines, status : SessionStates,
            sensors : 0 .. MaxSensors, previous : 0 .. MaxSnapshots]

LEMMA CurrentSnapshotType ==
    ASSUME CommissioningTypeOK
    PROVE  CurrentSnapshot \in 0 .. MaxSnapshots
BY CommissioningAssumption DEF CommissioningTypeOK, CurrentSnapshot

LEMMA NoRequestType ==
    ASSUME NEW m \in Machines
    PROVE  NoRequest(m) \in Request
BY CommissioningAssumption DEF NoRequest, Request, Operations, SessionStates

LEMMA FlushedType ==
    ASSUME CommissioningTypeOK, NEW r \in Request, NEW status \in SessionStates
    PROVE  Flushed(r, status) \in [Machines -> SessionStates]
BY DEF CommissioningTypeOK, Flushed, Request

LEMMA DoneType ==
    ASSUME CommissioningTypeOK, NEW q \in Requests, Done(q)
    PROVE  request' \in [Requests -> Request]
<1>1. request[q].machine \in Machines
  BY DEF CommissioningTypeOK
<1>2. NoRequest(request[q].machine) \in Request
  BY <1>1, NoRequestType
<1>3. QED BY <1>2 DEF CommissioningTypeOK, Done, Request

\* The history in which the snapshot that was read is no longer current
LEMMA EndedType ==
    ASSUME CommissioningTypeOK, NEW previous
    PROVE  LET ended == [i \in DOMAIN snapshot |->
                           IF i = previous THEN [snapshot[i] EXCEPT !.current = FALSE]
                           ELSE snapshot[i]]
           IN  ended \in Seq(Snapshot) /\ Len(ended) = Len(snapshot)
<1> DEFINE Ended(i) == IF i = previous THEN [snapshot[i] EXCEPT !.current = FALSE]
                       ELSE snapshot[i]
           last == Len(snapshot)
<1>1. snapshot \in Seq(Snapshot) /\ last \in Nat /\ DOMAIN snapshot = 1 .. last
  BY DEF CommissioningTypeOK, Snapshot
<1>2. \A i \in 1 .. last : snapshot[i] \in Snapshot
  BY <1>1
<1>3. \A i \in 1 .. last : Ended(i) \in Snapshot
  BY <1>2 DEF Snapshot
<1> HIDE DEF Ended, last
<1>4. [i \in 1 .. last |-> Ended(i)] \in [1 .. last -> Snapshot]
  BY <1>3
<1>5. /\ [i \in 1 .. last |-> Ended(i)] \in Seq(Snapshot)
      /\ Len([i \in 1 .. last |-> Ended(i)]) = last
  BY <1>1, <1>4, SeqDef
<1>6. QED BY <1>1, <1>5 DEF Ended, last

LEMMA CommissioningTypeInit == CommissioningInit => CommissioningTypeOK
<1> SUFFICES ASSUME CommissioningInit PROVE CommissioningTypeOK
  OBVIOUS
<1>1. \E m \in Machines : request = [q \in Requests |-> NoRequest(m)]
  BY CommissioningAssumption, Zenon DEF CommissioningInit
<1>2. request \in [Requests -> Request]
  BY <1>1, NoRequestType
<1>3. /\ session = [m \in Machines |-> "ABSENT"]
      /\ monitored = {}
      /\ mapped = [m \in Machines |-> 0]
      /\ snapshot = <<>>
  BY DEF CommissioningInit
<1>4. /\ session \in [Machines -> SessionStates]
      /\ monitored \subseteq Machines
      /\ mapped \in [Machines -> 0 .. MaxSensors]
  BY <1>3, CommissioningAssumption DEF SessionStates
<1>5. snapshot \in Seq(Snapshot) /\ Len(snapshot) <= MaxSnapshots
  BY <1>3, CommissioningAssumption
<1>6. QED
  BY <1>2, <1>4, <1>5 DEF CommissioningTypeOK, Request, Snapshot

LEMMA CommissioningTypeStep ==
    CommissioningTypeOK /\ [CommissioningNext]_commissioningVars => CommissioningTypeOK'
<1> SUFFICES ASSUME CommissioningTypeOK, [CommissioningNext]_commissioningVars
             PROVE  CommissioningTypeOK'
  OBVIOUS
<1> USE CommissioningAssumption
<1>1. ASSUME NEW m \in Machines, SessionStarts(m) PROVE CommissioningTypeOK'
  BY <1>1 DEF SessionStarts, CommissioningTypeOK, SessionStates
<1>2. ASSUME NEW q \in Requests, NEW m \in Machines, NEW op \in Operations \ {"none"},
             Reads(q, m, op)
      PROVE  CommissioningTypeOK'
  <2>1. [operation |-> op, machine |-> m, status |-> session[m],
         sensors |-> IF op = "validate" THEN mapped[m] ELSE 0,
         previous |-> IF op = "assign_gateway" THEN CurrentSnapshot ELSE 0] \in Request
    BY CurrentSnapshotType DEF CommissioningTypeOK, Request
  <2>2. request' \in [Requests -> Request]
    BY <1>2, <2>1 DEF Reads, CommissioningTypeOK, Request
  <2>3. QED BY <1>2, <2>2 DEF Reads, CommissioningTypeOK, Request
<1>3. ASSUME NEW q \in Requests, AddSensor(q) PROVE CommissioningTypeOK'
  <2>1. request[q] \in Request
    BY DEF CommissioningTypeOK, Request
  <2>2. request' \in [Requests -> Request] /\ session' \in [Machines -> SessionStates]
    BY <1>3, <2>1, DoneType, FlushedType DEF AddSensor, SessionStates
  <2>3. QED BY <1>3, <2>1, <2>2, SMTT(30) DEF AddSensor, CommissioningTypeOK, Request
<1>4. ASSUME NEW q \in Requests, AssignGateway(q) PROVE CommissioningTypeOK'
  <2> DEFINE r == request[q]
             ended == [i \in DOMAIN snapshot |->
                         IF i = r.previous THEN [snapshot[i] EXCEPT !.current = FALSE]
                         ELSE snapshot[i]]
             new == [current |-> TRUE, previous |-> r.previous]
  <2>1. snapshot \in Seq(Snapshot) /\ r \in Request
    BY DEF CommissioningTypeOK, Request, Snapshot
  <2>2. ended \in Seq(Snapshot) /\ Len(ended) = Len(snapshot)
    BY EndedType
  <2>3. new \in Snapshot
    BY <2>1 DEF Snapshot, Request
  <2>4. snapshot' = Append(ended, new)
    BY <1>4 DEF AssignGateway
  <2>5. snapshot' \in Seq(Snapshot) /\ Len(snapshot') = Len(snapshot) + 1
    BY <2>2, <2>3, <2>4
  <2>6. request' \in [Requests -> Request]
    BY <1>4, DoneType DEF AssignGateway
  <2>7. Len(snapshot') <= MaxSnapshots
    BY <1>4, <2>1, <2>5 DEF AssignGateway
  <2>8. QED
    BY <1>4, <2>5, <2>6, <2>7 DEF AssignGateway, CommissioningTypeOK, Request, Snapshot
<1>5. ASSUME NEW q \in Requests, Validate(q) PROVE CommissioningTypeOK'
  <2>1. request[q] \in Request /\ Verdict(request[q].sensors) \in SessionStates
    BY DEF CommissioningTypeOK, Request, Verdict, SessionStates
  <2>2. request' \in [Requests -> Request] /\ session' \in [Machines -> SessionStates]
    BY <1>5, <2>1, DoneType, FlushedType DEF Validate
  <2>3. QED BY <1>5, <2>2 DEF Validate, CommissioningTypeOK, Request
<1>6. ASSUME NEW q \in Requests, Complete(q) PROVE CommissioningTypeOK'
  <2>1. request[q] \in Request
    BY DEF CommissioningTypeOK, Request
  <2>2. request' \in [Requests -> Request] /\ session' \in [Machines -> SessionStates]
    BY <1>6, <2>1, DoneType, FlushedType DEF Complete, SessionStates
  <2>3. QED BY <1>6, <2>1, <2>2 DEF Complete, CommissioningTypeOK, Request
<1>7. ASSUME NEW q \in Requests, RequestFails(q) PROVE CommissioningTypeOK'
  BY <1>7, DoneType DEF RequestFails, CommissioningTypeOK, Request
<1>8. CASE UNCHANGED commissioningVars
  BY <1>8 DEF commissioningVars, CommissioningTypeOK
<1>9. QED
  BY <1>1, <1>2, <1>3, <1>4, <1>5, <1>6, <1>7, <1>8 DEF CommissioningNext

\* The sessions, sensors, snapshots and requests keep their types, whatever requests
\* of service.py run at the same time and wherever they fail.
THEOREM CommissioningTypeCorrect == CommissioningSpec => []CommissioningTypeOK
<1>1. QED BY CommissioningTypeInit, CommissioningTypeStep, PTL DEF CommissioningSpec

-----------------------------------------------------------------------------
\* Why instrumentation cannot be missing: a READY session, a request that read one,
\* and a validation that counted a sensor all come after the sensor was added, and
\* no operation removes one.
InstrumentedInv ==
    /\ CommissioningTypeOK
    /\ MonitoredHasSensors
    /\ \A m \in Machines : session[m] = "READY" => mapped[m] > 0
    /\ \A q \in Requests :
          LET r == request[q]
          IN  /\ r.operation = "complete" => mapped[r.machine] > 0
              /\ r.operation = "validate" => r.sensors <= mapped[r.machine]

LEMMA InitInstrumented == CommissioningInit => InstrumentedInv
<1> SUFFICES ASSUME CommissioningInit PROVE InstrumentedInv
  OBVIOUS
<1>1. CommissioningTypeOK
  BY CommissioningTypeInit
<1>2. \E m \in Machines : request = [q \in Requests |-> NoRequest(m)]
  BY CommissioningAssumption, Zenon DEF CommissioningInit
<1>3. \A q \in Requests : request[q].operation = "none"
  BY <1>2 DEF NoRequest
<1>4. QED
  BY <1>1, <1>3 DEF CommissioningInit, InstrumentedInv, MonitoredHasSensors

LEMMA NextInstrumented ==
    InstrumentedInv /\ [CommissioningNext]_commissioningVars => InstrumentedInv'
<1> SUFFICES ASSUME InstrumentedInv, [CommissioningNext]_commissioningVars
             PROVE  InstrumentedInv'
  OBVIOUS
<1>0. CommissioningTypeOK /\ CommissioningTypeOK'
  BY CommissioningTypeStep DEF InstrumentedInv
<1> USE <1>0, CommissioningAssumption
<1>1. ASSUME NEW m \in Machines, SessionStarts(m) PROVE InstrumentedInv'
  BY <1>1 DEF SessionStarts, CommissioningTypeOK, InstrumentedInv, MonitoredHasSensors
<1>2. ASSUME NEW q \in Requests, NEW m \in Machines, NEW op \in Operations \ {"none"},
             Reads(q, m, op)
      PROVE  InstrumentedInv'
  <2>1. op = "complete" => mapped[m] > 0
    BY <1>2 DEF Reads, Accepts, InstrumentedInv
  <2>2. request'[q].operation = op /\ request'[q].machine = m
    BY <1>2 DEF Reads, CommissioningTypeOK
  <2>3. op = "validate" => request'[q].sensors = mapped[m]
    BY <1>2 DEF Reads, CommissioningTypeOK
  <2>4. \A p \in Requests \ {q} : request'[p] = request[p]
    BY <1>2 DEF Reads, CommissioningTypeOK
  <2>5. mapped[m] \in Nat
    BY DEF CommissioningTypeOK
  <2>6. QED
    BY <1>2, <2>1, <2>2, <2>3, <2>4, <2>5
    DEF Reads, InstrumentedInv, MonitoredHasSensors
<1>3. ASSUME NEW q \in Requests, AddSensor(q) PROVE InstrumentedInv'
  <2>1. request'[q].operation = "none" /\ \A p \in Requests \ {q} : request'[p] = request[p]
    BY <1>3 DEF AddSensor, Done, NoRequest, CommissioningTypeOK
  <2>2. \A m \in Machines : mapped[m] \in Nat /\ mapped'[m] >= mapped[m]
    BY <1>3 DEF AddSensor, CommissioningTypeOK
  <2>3. \A m \in Machines : session'[m] = "READY" => session[m] = "READY"
    BY <1>3 DEF AddSensor, Flushed, CommissioningTypeOK
  <2>4. monitored' = monitored
    BY <1>3 DEF AddSensor
  <2>5. \A p \in Requests : request[p].machine \in Machines /\ request[p].sensors \in Nat
    <3>1. \A p \in Requests : request[p] \in Request
      BY DEF CommissioningTypeOK, Request
    <3>2. QED BY <3>1 DEF Request
  <2>6. \A m \in Machines : mapped'[m] \in Nat
    BY DEF CommissioningTypeOK
  <2>7. MonitoredHasSensors'
    BY <2>2, <2>4, <2>6 DEF InstrumentedInv, MonitoredHasSensors, CommissioningTypeOK
  <2>8. QED
    BY <2>1, <2>2, <2>3, <2>5, <2>6, <2>7 DEF InstrumentedInv
<1>4. ASSUME NEW q \in Requests, AssignGateway(q) PROVE InstrumentedInv'
  <2>1. request'[q].operation = "none" /\ \A p \in Requests \ {q} : request'[p] = request[p]
    BY <1>4 DEF AssignGateway, Done, NoRequest, CommissioningTypeOK
  <2>2. QED BY <1>4, <2>1 DEF AssignGateway, InstrumentedInv, MonitoredHasSensors
<1>5. ASSUME NEW q \in Requests, Validate(q) PROVE InstrumentedInv'
  <2>1. request'[q].operation = "none" /\ \A p \in Requests \ {q} : request'[p] = request[p]
    BY <1>5 DEF Validate, Done, NoRequest, CommissioningTypeOK
  <2>2. \A m \in Machines : session'[m] = "READY" => mapped[m] > 0
    BY <1>5 DEF Validate, Flushed, Verdict, InstrumentedInv, CommissioningTypeOK
  <2>3. QED BY <1>5, <2>1, <2>2 DEF Validate, InstrumentedInv, MonitoredHasSensors
<1>6. ASSUME NEW q \in Requests, Complete(q) PROVE InstrumentedInv'
  <2>1. request'[q].operation = "none" /\ \A p \in Requests \ {q} : request'[p] = request[p]
    BY <1>6 DEF Complete, Done, NoRequest, CommissioningTypeOK
  <2>2. \A m \in Machines : session'[m] = "READY" => session[m] = "READY"
    BY <1>6 DEF Complete, Flushed, CommissioningTypeOK
  <2>3. QED BY <1>6, <2>1, <2>2 DEF Complete, InstrumentedInv, MonitoredHasSensors
<1>7. ASSUME NEW q \in Requests, RequestFails(q) PROVE InstrumentedInv'
  <2>1. request'[q].operation = "none" /\ \A p \in Requests \ {q} : request'[p] = request[p]
    BY <1>7 DEF RequestFails, Done, NoRequest, CommissioningTypeOK
  <2>2. QED BY <1>7, <2>1 DEF RequestFails, InstrumentedInv, MonitoredHasSensors
<1>8. CASE UNCHANGED commissioningVars
  BY <1>8 DEF commissioningVars, InstrumentedInv, MonitoredHasSensors
<1>9. QED
  BY <1>1, <1>2, <1>3, <1>4, <1>5, <1>6, <1>7, <1>8 DEF CommissioningNext

\* A machine whose session complete() has closed, and which is MONITORED for it, has
\* instrumentation, although validate() decides on the sensors it read earlier.
THEOREM MonitoringIsInstrumented == CommissioningSpec => []MonitoredHasSensors
<1>1. InstrumentedInv => MonitoredHasSensors
  BY DEF InstrumentedInv
<1>2. QED BY <1>1, InitInstrumented, NextInstrumented, PTL DEF CommissioningSpec

-----------------------------------------------------------------------------
\* Why the history cannot fork: what a request read as current is in the history,
\* so where the unique index lets it go on, it is still the last.
HistoryInv ==
    /\ CommissioningTypeOK
    /\ SnapshotsLinear
    /\ \A q \in Requests : request[q].previous <= Len(snapshot)

\* In a linear history the current snapshot is the last one.
LEMMA CurrentIsLast ==
    ASSUME CommissioningTypeOK, SnapshotsLinear
    PROVE  CurrentSnapshot = Len(snapshot)
<1>1. Len(snapshot) \in Nat /\ DOMAIN snapshot = 1 .. Len(snapshot)
  BY DEF CommissioningTypeOK
<1>2. CASE Len(snapshot) = 0
  BY <1>1, <1>2 DEF CurrentSnapshot
<1>3. CASE Len(snapshot) > 0
  <2>1. Len(snapshot) \in DOMAIN snapshot /\ snapshot[Len(snapshot)].current
    BY <1>1, <1>3 DEF SnapshotsLinear
  <2>2. \A i \in DOMAIN snapshot : snapshot[i].current => i = Len(snapshot)
    BY DEF SnapshotsLinear
  <2>3. QED BY <2>1, <2>2 DEF CurrentSnapshot
<1>4. QED BY <1>1, <1>2, <1>3

LEMMA InitHistory == CommissioningInit => HistoryInv
<1> SUFFICES ASSUME CommissioningInit PROVE HistoryInv
  OBVIOUS
<1>1. \E m \in Machines : request = [q \in Requests |-> NoRequest(m)]
  BY CommissioningAssumption, Zenon DEF CommissioningInit
<1>2. snapshot = <<>> /\ \A q \in Requests : request[q].previous = 0
  BY <1>1 DEF NoRequest, CommissioningInit
<1>3. QED BY <1>2, CommissioningTypeInit DEF HistoryInv, SnapshotsLinear

LEMMA NextHistory ==
    HistoryInv /\ [CommissioningNext]_commissioningVars => HistoryInv'
<1> SUFFICES ASSUME HistoryInv, [CommissioningNext]_commissioningVars
             PROVE  HistoryInv'
  OBVIOUS
<1>0. CommissioningTypeOK /\ CommissioningTypeOK'
  BY CommissioningTypeStep DEF HistoryInv
<1> USE <1>0, CommissioningAssumption
<1>1. ASSUME NEW q \in Requests, Done(q)
      PROVE  /\ request'[q].previous = 0
             /\ \A p \in Requests \ {q} : request'[p] = request[p]
  BY <1>1 DEF Done, NoRequest, CommissioningTypeOK
<1>2. ASSUME NEW q \in Requests, Done(q), UNCHANGED snapshot PROVE HistoryInv'
  <2>1. SnapshotsLinear' /\ Len(snapshot') = Len(snapshot) /\ Len(snapshot) \in Nat
    BY <1>2 DEF HistoryInv, SnapshotsLinear, CommissioningTypeOK
  <2>2. QED BY <1>1, <1>2, <2>1 DEF HistoryInv
<1>3. ASSUME NEW m \in Machines, SessionStarts(m) PROVE HistoryInv'
  BY <1>3 DEF SessionStarts, HistoryInv, SnapshotsLinear
<1>4. ASSUME NEW q \in Requests, NEW m \in Machines, NEW op \in Operations \ {"none"},
             Reads(q, m, op)
      PROVE  HistoryInv'
  <2>1. CurrentSnapshot = Len(snapshot) /\ Len(snapshot) \in Nat
    <3>1. SnapshotsLinear /\ Len(snapshot) \in Nat
      BY DEF HistoryInv, CommissioningTypeOK
    <3>2. QED BY <3>1, CurrentIsLast
  <2>2. request'[q].previous \in {0, Len(snapshot)}
    BY <1>4, <2>1 DEF Reads, CommissioningTypeOK
  <2>3. \A p \in Requests \ {q} : request'[p] = request[p]
    BY <1>4 DEF Reads, CommissioningTypeOK
  <2>4. QED BY <1>4, <2>1, <2>2, <2>3 DEF Reads, HistoryInv, SnapshotsLinear
<1>5. ASSUME NEW q \in Requests, AssignGateway(q) PROVE HistoryInv'
  <2> DEFINE last == Len(snapshot)
             previous == request[q].previous
             ended == [i \in DOMAIN snapshot |->
                         IF i = previous THEN [snapshot[i] EXCEPT !.current = FALSE]
                         ELSE snapshot[i]]
             new == [current |-> TRUE, previous |-> previous]
  <2>1. last \in Nat /\ DOMAIN snapshot = 1 .. last /\ previous \in 0 .. last
    BY DEF HistoryInv, CommissioningTypeOK
  <2>2. previous = last
    BY <1>5, <2>1, CurrentIsLast DEF AssignGateway, SnapshotIndex, HistoryInv
  <2>3. ended \in Seq(Snapshot) /\ Len(ended) = last
    BY EndedType
  <2>4. snapshot' = Append(ended, new)
    BY <1>5 DEF AssignGateway
  <2>5. /\ Len(snapshot') = last + 1
        /\ DOMAIN snapshot' = 1 .. last + 1
        /\ snapshot'[last + 1] = new
        /\ \A i \in 1 .. last : snapshot'[i] = ended[i]
    BY <2>1, <2>3, <2>4
  <2>6. \A i \in 1 .. last : /\ snapshot'[i].previous = i - 1
                             /\ ~snapshot'[i].current
    <3> SUFFICES ASSUME NEW i \in 1 .. last
                 PROVE  snapshot'[i].previous = i - 1 /\ ~snapshot'[i].current
      OBVIOUS
    <3>1. snapshot[i] \in Snapshot /\ snapshot[i].previous = i - 1
      <4>1. snapshot \in Seq(Snapshot)
        BY DEF CommissioningTypeOK, Snapshot
      <4>2. QED BY <2>1, <4>1 DEF HistoryInv, SnapshotsLinear
    <3>2. CASE i = last
      BY <2>1, <2>2, <2>5, <3>1, <3>2 DEF Snapshot
    <3>3. CASE i # last
      <4>1. ~snapshot[i].current
        BY <2>1, <3>3 DEF HistoryInv, SnapshotsLinear
      <4>2. QED BY <2>1, <2>2, <2>5, <3>1, <3>3, <4>1
    <3>4. QED BY <3>2, <3>3
  <2>7. SnapshotsLinear'
    <3> SUFFICES ASSUME NEW i \in 1 .. last + 1
                 PROVE  /\ snapshot'[i].previous = i - 1
                        /\ snapshot'[i].current <=> i = last + 1
      BY <2>5 DEF SnapshotsLinear
    <3>1. CASE i = last + 1
      BY <2>1, <2>2, <2>5, <3>1
    <3>2. CASE i # last + 1
      <4>1. i \in 1 .. last
        BY <2>1, <3>2
      <4>2. QED BY <2>6, <3>2, <4>1
    <3>3. QED BY <3>1, <3>2
  <2>8. \A p \in Requests : request'[p].previous <= Len(snapshot')
    <3>1. request'[q].previous = 0 /\ \A p \in Requests \ {q} : request'[p] = request[p]
      BY <1>1, <1>5 DEF AssignGateway
    <3>2. \A p \in Requests : request[p].previous \in Nat /\ request[p].previous <= last
      <4>1. \A p \in Requests : request[p] \in Request
        BY DEF CommissioningTypeOK, Request
      <4>2. QED BY <4>1 DEF HistoryInv, Request
    <3>3. QED BY <2>1, <2>5, <3>1, <3>2
  <2>9. QED BY <2>7, <2>8 DEF HistoryInv
<1>6. ASSUME NEW q \in Requests,
             AddSensor(q) \/ Validate(q) \/ Complete(q) \/ RequestFails(q)
      PROVE  HistoryInv'
  BY <1>2, <1>6 DEF AddSensor, Validate, Complete, RequestFails
<1>7. CASE UNCHANGED commissioningVars
  BY <1>7 DEF commissioningVars, HistoryInv, SnapshotsLinear
<1>8. QED BY <1>3, <1>4, <1>5, <1>6, <1>7 DEF CommissioningNext

\* capture_snapshot() keeps the configuration history of a device linear, although
\* it reads the current snapshot earlier and only the unique index stops a second
\* session that has read the same one.
THEOREM HistoryIsLinear == CommissioningSpec => []SnapshotsLinear
<1>1. HistoryInv => SnapshotsLinear
  BY DEF HistoryInv
<1>2. QED BY <1>1, InitHistory, NextHistory, PTL DEF CommissioningSpec

-----------------------------------------------------------------------------
(* The sequence numbers of a sensor. *)

\* What the context ctx says of the numbers assessed, A, and the gaps noted, G:
\* besides NumbersAccounted, that it is empty as a whole, and that a gap was noted
\* with a number that was assessed.
Accounted(ctx, A, G) ==
    /\ ctx.expected = None <=> ctx.seen = None
    /\ \A n \in A : n < ctx.expected \/ SourceTime[n] < ctx.seen
    /\ \A n \in Numbers : ctx.first <= n /\ n < ctx.expected =>
          n \in A \/ \E g \in G : n \in g.missing
    /\ \A g \in G : g.event \in A

\* A transaction that has written nothing holds no lock, at most one holds it, and
\* one that holds it sees what it wrote last.
RunsInv ==
    \A r \in Runs :
        /\ run[r].pc \in {"idle", "stored"} => ~run[r].locked
        /\ ~run[r].locked => run[r].gaps = {} /\ run[r].done = {}
        /\ run[r].locked => /\ ~LockedByOther(r)
                            /\ run[r].pc = "read" => run[r].read = run[r].row
        /\ run[r].pc = "read" => run[r].todo # <<>>
        /\ run[r].upto \in 0 .. Len(deliveries)

\* The committed context accounts for what was committed, and that of a transaction
\* for what it has made of it.
ContextsAccount ==
    ~overlapped =>
        /\ Accounted(context, processed, gaps)
        /\ \A r \in Runs : run[r].locked =>
              Accounted(run[r].row, processed \cup run[r].done, gaps \cup run[r].gaps)

GapInv == GapTypeOK /\ RunsInv /\ ContextsAccount

Run == [pc : {"idle", "open", "read", "stored"}, upto : Nat, todo : Seq(Numbers),
        read : Context, locked : BOOLEAN, row : Context, gaps : SUBSET Gap,
        done : SUBSET Numbers]

LEMMA NoContextType == NoContext \in Context
BY DEF NoContext, Context, None

LEMMA EmptyRun == NoRun \in Run
BY NoContextType DEF NoRun, Run

\* The record of a transaction, written out
LEMMA FreshRun ==
    ASSUME NEW pc, NEW upto, NEW todo, NEW x,
           x = [NoRun EXCEPT !.pc = pc, !.upto = upto, !.todo = todo]
    PROVE  x = [pc |-> pc, upto |-> upto, todo |-> todo, read |-> NoContext, locked |-> FALSE,
               row |-> NoContext, gaps |-> {}, done |-> {}]
BY DEF NoRun

LEMMA StoredRun ==
    ASSUME NEW upto, NEW x, x = [NoRun EXCEPT !.pc = "stored", !.upto = upto]
    PROVE  x = [pc |-> "stored", upto |-> upto, todo |-> <<>>, read |-> NoContext,
                locked |-> FALSE, row |-> NoContext, gaps |-> {}, done |-> {}]
BY DEF NoRun

LEMMA RerunRun ==
    ASSUME NEW todo, NEW x, x = [NoRun EXCEPT !.pc = "open", !.todo = todo]
    PROVE  x = [pc |-> "open", upto |-> 0, todo |-> todo, read |-> NoContext,
                locked |-> FALSE, row |-> NoContext, gaps |-> {}, done |-> {}]
BY DEF NoRun

\* What RunsInv asks of one transaction
Sound(r, x) ==
    /\ x.pc \in {"idle", "stored"} => ~x.locked
    /\ ~x.locked => x.gaps = {} /\ x.done = {}
    /\ x.locked => /\ ~LockedByOther(r)
                   /\ x.pc = "read" => x.read = x.row
    /\ x.pc = "read" => x.todo # <<>>
    /\ x.upto \in 0 .. Len(deliveries)

LEMMA RunChanges ==
    ASSUME GapTypeOK, RunsInv, NEW r \in Runs, NEW x \in Run, Sound(r, x),
           run' = [run EXCEPT ![r] = x], UNCHANGED deliveries
    PROVE  run' \in [Runs -> Run] /\ RunsInv'
<1>1. run \in [Runs -> Run]
  BY DEF GapTypeOK, Run
<1>2. run' \in [Runs -> Run] /\ run'[r] = x
  BY <1>1
<1>3. \A q \in Runs \ {r} : run'[q] = run[q]
  BY <1>1
<1>4. LockedByOther(r)' = LockedByOther(r)
  BY <1>3 DEF LockedByOther
<1>5. ASSUME NEW q \in Runs
      PROVE  Sound(q, run[q])' 
  <2>1. CASE q = r
    BY <2>1, <1>2, <1>4 DEF Sound
  <2>2. CASE q # r
    <3>1. Sound(q, run[q])
      BY DEF RunsInv, Sound
    <3>2. run[q].locked => ~x.locked
      BY <2>2 DEF Sound, LockedByOther, RunsInv
    <3>3. run[q].locked => ~LockedByOther(q)'
      BY <3>1, <3>2, <1>2, <1>3 DEF Sound, LockedByOther
    <3> QED BY <3>1, <3>3, <1>3, <2>2 DEF Sound
  <2> QED BY <2>1, <2>2
<1> QED BY <1>2, <1>5 DEF RunsInv, Sound

LEMMA MinOfTwo ==
    ASSUME NEW a \in Int, NEW b \in Int
    PROVE  Min({a, b}) \in {a, b} /\ Min({a, b}) <= a /\ Min({a, b}) <= b
<1>1. PICK m \in {a, b} : \A y \in {a, b} : m <= y
  OBVIOUS
<1> QED BY <1>1 DEF Min

\* A batch begins with nothing written
LEMMA BatchRun ==
    ASSUME GapTypeOK, NEW upto \in 0 .. Len(deliveries), NEW r \in Runs
    PROVE  Batch(upto) \in Run /\ Sound(r, Batch(upto))
<1>1. deliveries \in Seq(Numbers) /\ position \in Nat
  BY DEF GapTypeOK
<1>2. SubSeq(deliveries, position + 1, upto) \in Seq(Numbers)
  <2>1. \A i \in position + 1 .. upto : deliveries[i] \in Numbers
    BY <1>1
  <2> QED BY <1>1, <2>1
<1> DEFINE todo == SubSeq(deliveries, position + 1, upto)
<1>3. todo \in Seq(Numbers)
  BY <1>2
<1>4. Batch(upto) = [NoRun EXCEPT !.pc = "open", !.upto = upto, !.todo = todo]
  BY DEF Batch
<1> HIDE DEF todo, Batch
<1>5. Batch(upto) = [pc |-> "open", upto |-> upto, todo |-> todo, read |-> NoContext,
                     locked |-> FALSE, row |-> NoContext, gaps |-> {}, done |-> {}]
  BY <1>4, FreshRun
<1>6. upto \in Nat
  BY <1>1
<1>7. Batch(upto) \in Run
  BY <1>3, <1>5, <1>6, NoContextType DEF Run
<1>8. Sound(r, Batch(upto))
  BY <1>1, <1>5 DEF Sound
<1> QED BY <1>7, <1>8

LEMMA NoRunSound ==
    ASSUME GapTypeOK, NEW r \in Runs
    PROVE  Sound(r, NoRun)
BY DEF Sound, NoRun, GapTypeOK

\* What a transaction reads and what it makes of the row are contexts
LEMMA SeenType ==
    ASSUME GapTypeOK, NEW r \in Runs
    PROVE  Seen(r) \in Context
BY DEF GapTypeOK, Seen

LEMMA UpdatedType ==
    ASSUME NEW row \in Context, NEW ctx \in Context, NEW n \in Numbers
    PROVE  Updated(row, ctx, n) \in Context
BY GapAssumption DEF Updated, Context

LEMMA NewGapsType ==
    ASSUME GapTypeOK, NEW r \in Runs, NEW n \in Numbers
    PROVE  NewGaps(r, n) \in SUBSET Gap
<1>1. run[r].read \in Context
  BY DEF GapTypeOK
<1>2. MissingBefore(run[r].read, n) \in SUBSET Nat
  BY <1>1, GapAssumption DEF MissingBefore, Context
<1> QED BY <1>2 DEF NewGaps, Gap

\* the transaction after it has written the context of an event
Written(r) ==
    [pc |-> "open", upto |-> run[r].upto, todo |-> Tail(run[r].todo), read |-> run[r].read,
     locked |-> TRUE, row |-> Updated(Seen(r), run[r].read, Head(run[r].todo)),
     gaps |-> run[r].gaps \cup NewGaps(r, Head(run[r].todo)),
     done |-> run[r].done \cup {Head(run[r].todo)}]

LEMMA HeadTodo ==
    ASSUME GapTypeOK, NEW r \in Runs, run[r].todo # <<>>
    PROVE  Head(run[r].todo) \in Numbers /\ Tail(run[r].todo) \in Seq(Numbers)
BY DEF GapTypeOK

LEMMA WriteContextRun ==
    ASSUME GapTypeOK, RunsInv, NEW r \in Runs, WriteContext(r)
    PROVE  /\ run' = [run EXCEPT ![r] = Written(r)]
           /\ Written(r) \in Run
           /\ Sound(r, Written(r))
<1>1. run \in [Runs -> Run]
  BY DEF GapTypeOK, Run
<1>2. Head(run[r].todo) \in Numbers /\ Tail(run[r].todo) \in Seq(Numbers)
  BY HeadTodo DEF WriteContext, RunsInv
<1>3. run' = [run EXCEPT ![r] = Written(r)]
  <2> DEFINE n == Head(run[r].todo)
             row == Updated(Seen(r), run[r].read, n)
             new == NewGaps(r, n)
             rest == Tail(run[r].todo)
  <2>1. run' = [run EXCEPT ![r].pc = "open", ![r].todo = rest, ![r].locked = TRUE,
                           ![r].row = row, ![r].gaps = @ \cup new, ![r].done = @ \cup {n}]
    BY <1>1 DEF WriteContext, Run
  <2>2. Written(r) = [pc |-> "open", upto |-> run[r].upto, todo |-> rest,
                      read |-> run[r].read, locked |-> TRUE, row |-> row,
                      gaps |-> run[r].gaps \cup new, done |-> run[r].done \cup {n}]
    BY DEF Written
  <2> HIDE DEF n, row, new, rest
  <2> DEFINE x == [run[r] EXCEPT !.pc = "open", !.todo = rest, !.locked = TRUE, !.row = row,
                                 !.gaps = @ \cup new, !.done = @ \cup {n}]
  <2>3. run' = [run EXCEPT ![r] = x]
    BY <1>1, <2>1
  <2>4. x = Written(r)
    <3>1. x = [run[r] EXCEPT !.pc = "open", !.todo = rest, !.locked = TRUE, !.row = row,
                             !.gaps = @ \cup new, !.done = @ \cup {n}]
      OBVIOUS
    <3> HIDE DEF x
    <3>2. run[r] \in Run
      BY <1>1
    <3>3. x = [pc |-> "open", upto |-> run[r].upto, todo |-> rest,
               read |-> run[r].read, locked |-> TRUE, row |-> row,
               gaps |-> run[r].gaps \cup new, done |-> run[r].done \cup {n}]
      BY <3>1, <3>2 DEF Run
    <3> QED BY <2>2, <3>3
  <2> QED BY <2>3, <2>4
<1>4. Written(r) \in Run
  BY <1>1, <1>2, SeenType, UpdatedType, NewGapsType DEF Written, Run
<1>5. Sound(r, Written(r))
  BY <1>1 DEF Sound, Written, WriteContext, RunsInv
<1> QED BY <1>3, <1>4, <1>5

LEMMA ReadContextRun ==
    ASSUME GapTypeOK, RunsInv, NEW r \in Runs, ReadContext(r)
    PROVE  LET x == [run[r] EXCEPT !.pc = "read", !.read = Seen(r)]
           IN  run' = [run EXCEPT ![r] = x] /\ x \in Run /\ Sound(r, x)
<1> DEFINE x == [run[r] EXCEPT !.pc = "read", !.read = Seen(r)]
<1>1. run \in [Runs -> Run]
  BY DEF GapTypeOK, Run
<1>2. run' = [run EXCEPT ![r] = x]
  BY <1>1 DEF ReadContext, Run
<1>3. x \in Run
  BY <1>1, SeenType DEF Run
<1>4. Sound(r, x)
  BY <1>1 DEF Sound, ReadContext, RunsInv, Run, Seen
<1> QED BY <1>2, <1>3, <1>4

LEMMA RunCommitsRun ==
    ASSUME GapTypeOK, RunsInv, NEW r \in Runs, RunCommits(r)
    PROVE  LET x == IF r = "worker" THEN [NoRun EXCEPT !.pc = "stored", !.upto = run[r].upto]
                    ELSE NoRun
           IN  run' = [run EXCEPT ![r] = x] /\ x \in Run /\ Sound(r, x)
<1> DEFINE stored == [NoRun EXCEPT !.pc = "stored", !.upto = run[r].upto]
           x == IF r = "worker" THEN stored ELSE NoRun
<1>1. run \in [Runs -> Run] /\ run[r].upto \in 0 .. Len(deliveries) /\ Len(deliveries) \in Nat
  BY DEF GapTypeOK, Run, RunsInv
<1>2. run' = [run EXCEPT ![r] = x]
  BY <1>1 DEF RunCommits
<1>3. stored \in Run /\ Sound(r, stored)
  <2>1. stored = [pc |-> "stored", upto |-> run[r].upto, todo |-> <<>>, read |-> NoContext,
                  locked |-> FALSE, row |-> NoContext, gaps |-> {}, done |-> {}]
    BY StoredRun
  <2> HIDE DEF stored
  <2> QED BY <1>1, <2>1, NoContextType DEF Run, Sound
<1>4. x \in Run /\ Sound(r, x)
  BY <1>3, EmptyRun, NoRunSound
<1> QED BY <1>2, <1>4

\* A sequence has finitely many elements
LEMMA DeliveredFinite ==
    ASSUME NEW S, NEW s \in Seq(S)
    PROVE  IsFiniteSet(Range(s)) /\ Range(s) \subseteq S
<1>1. DOMAIN s = 1 .. Len(s) /\ Len(s) \in Nat
  OBVIOUS
<1>2. IsFiniteSet(DOMAIN s)
  BY <1>1, FS_Interval
<1>3. s \in Surjection(DOMAIN s, Range(s))
  BY <1>1 DEF Surjection, Range
<1>4. IsFiniteSet(Range(s))
  BY <1>2, <1>3, FS_Surjection
<1>5. Range(s) \subseteq S
  BY <1>1 DEF Range
<1> QED BY <1>4, <1>5

LEMMA StructInit == GapInit => GapTypeOK /\ RunsInv
<1> SUFFICES ASSUME GapInit PROVE GapTypeOK /\ RunsInv
  OBVIOUS
<1>1. run \in [Runs -> Run]
  BY EmptyRun DEF GapInit
<1>2. GapTypeOK
  <2>1. deliveries \in Seq(Numbers) /\ position \in 0 .. Len(deliveries)
    BY DEF GapInit
  <2>2. context \in Context /\ gaps \in SUBSET Gap /\ processed \in SUBSET Numbers
    BY NoContextType DEF GapInit
  <2>3. reruns \in 0 .. MaxReruns /\ faults \in 0 .. MaxFaults
    BY GapAssumption DEF GapInit
  <2>4. overlapped \in BOOLEAN
    BY DEF GapInit
  <2> QED BY <1>1, <2>1, <2>2, <2>3, <2>4 DEF GapTypeOK, Run
<1>3. ASSUME NEW r \in Runs
      PROVE  Sound(r, run[r])
  <2>1. run[r] = NoRun
    BY DEF GapInit
  <2> QED BY <1>2, <2>1, NoRunSound
<1> QED BY <1>2, <1>3 DEF RunsInv, Sound

LEMMA StructStep ==
    ASSUME GapTypeOK, RunsInv, [GapNext]_gapVars
    PROVE  GapTypeOK' /\ RunsInv'
<1> USE GapAssumption
<1>1. run \in [Runs -> Run] /\ deliveries \in Seq(Numbers)
  BY DEF GapTypeOK, Run
<1>2. ASSUME run' \in [Runs -> Run], RunsInv'
      PROVE  run' \in [Runs -> [pc : {"idle", "open", "read", "stored"}, upto : Nat,
                                todo : Seq(Numbers), read : Context, locked : BOOLEAN,
                                row : Context, gaps : SUBSET Gap, done : SUBSET Numbers]]
  BY <1>2 DEF Run
<1>3. CASE Delivered
  <2>1. deliveries' \in Seq(Numbers) /\ Len(deliveries') = Len(deliveries) + 1
    BY <1>1, <1>3 DEF Delivered
  <2>2. RunsInv'
    BY <1>1, <1>3, <2>1 DEF Delivered, RunsInv, LockedByOther
  <2> QED BY <1>3, <2>1, <2>2 DEF Delivered, GapTypeOK
<1>4. CASE WorkerFetches
  <2> DEFINE last == position + EventBatch
             upto == Min({Len(deliveries), last})
  <2>1. upto \in 0 .. Len(deliveries)
    <3>1. Len(deliveries) \in Nat /\ last \in Nat
      BY <1>1 DEF GapTypeOK
    <3> HIDE DEF last
    <3>2. Len(deliveries) \in Int /\ last \in Int
      BY <3>1
    <3>3. upto \in {Len(deliveries), last} /\ upto <= Len(deliveries)
      BY <3>2, MinOfTwo
    <3> HIDE DEF upto
    <3> QED BY <3>1, <3>3
  <2>2. run' = [run EXCEPT !["worker"] = Batch(upto)]
    BY <1>4 DEF WorkerFetches
  <2> HIDE DEF upto
  <2>3. run' \in [Runs -> Run] /\ RunsInv'
    BY <2>1, <2>2, <1>4, BatchRun, RunChanges DEF WorkerFetches, Runs
  <2> QED BY <1>4, <2>3, <1>2 DEF WorkerFetches, GapTypeOK
<1>5. CASE RerunBegins
  <2>1. PICK from \in Range(deliveries), to \in Range(deliveries) :
            LET rows == {n \in Range(deliveries) :
                          SourceTime[from] <= SourceTime[n] /\ SourceTime[n] <= SourceTime[to]}
            IN  \E order \in SetToSeqs(rows) :
                   /\ order # <<>>
                   /\ \A i, j \in DOMAIN order :
                         i < j => SourceTime[order[i]] <= SourceTime[order[j]]
                   /\ run' = [run EXCEPT !["reprocess"] =
                                 [NoRun EXCEPT !.pc = "open", !.todo = order]]
    BY <1>5 DEF RerunBegins
  <2> DEFINE rows == {n \in Range(deliveries) :
                        SourceTime[from] <= SourceTime[n] /\ SourceTime[n] <= SourceTime[to]}
  <2>2. PICK order \in SetToSeqs(rows) :
            run' = [run EXCEPT !["reprocess"] = [NoRun EXCEPT !.pc = "open", !.todo = order]]
    BY <2>1
  <2>3. IsFiniteSet(rows) /\ rows \subseteq Numbers
    <3>1. IsFiniteSet(Range(deliveries)) /\ Range(deliveries) \subseteq Numbers
      BY <1>1, DeliveredFinite
    <3> QED BY <3>1, FS_Subset
  <2> HIDE DEF rows
  <2>4. order \in Seq(Numbers)
    <3>1. Cardinality(rows) \in Nat
      BY <2>3, FS_CardinalityType
    <3>2. order \in [1 .. Cardinality(rows) -> rows]
      BY <2>2 DEF SetToSeqs
    <3>3. order \in [1 .. Cardinality(rows) -> Numbers]
      BY <2>3, <3>2
    <3> QED BY <3>1, <3>3, SeqDef
  <2> DEFINE x == [NoRun EXCEPT !.pc = "open", !.todo = order]
  <2>5. x \in Run /\ Sound("reprocess", x)
    <3>1. x = [pc |-> "open", upto |-> 0, todo |-> order, read |-> NoContext,
               locked |-> FALSE, row |-> NoContext, gaps |-> {}, done |-> {}]
      BY RerunRun
    <3> HIDE DEF x
    <3> QED BY <1>1, <2>4, <3>1, NoContextType DEF Run, Sound
  <2>6. run' \in [Runs -> Run] /\ RunsInv'
    BY <2>2, <2>5, <1>5, RunChanges DEF RerunBegins, Runs
  <2> HIDE DEF x
  <2>7. reruns' \in 0 .. MaxReruns /\ faults' \in 0 .. MaxFaults
    BY <1>5 DEF RerunBegins, GapTypeOK
  <2> QED BY <1>5, <1>2, <2>6, <2>7 DEF RerunBegins, GapTypeOK
<1>6. CASE PositionCommitted
  <2>1. run' \in [Runs -> Run] /\ RunsInv'
    BY <1>6, EmptyRun, NoRunSound, RunChanges DEF PositionCommitted, Runs
  <2>2. position' \in 0 .. Len(deliveries')
    BY <1>6 DEF PositionCommitted, RunsInv, Runs
  <2> QED BY <1>6, <2>1, <2>2, <1>2 DEF PositionCommitted, GapTypeOK
<1>7. CASE EventSkipped
  <2> DEFINE rest == Tail(run["worker"].todo)
             x == [run["worker"] EXCEPT !.pc = "open", !.todo = rest]
  <2>1. rest \in Seq(Numbers)
    BY <1>7, HeadTodo DEF EventSkipped, RunsInv, Runs
  <2>2. run' = [run EXCEPT !["worker"].pc = "open", !["worker"].todo = rest]
    BY <1>1, <1>7 DEF EventSkipped, Run, Runs
  <2> HIDE DEF rest
  <2>3. run' = [run EXCEPT !["worker"] = x]
    BY <1>1, <2>2 DEF Run, Runs
  <2>4. x \in Run /\ Sound("worker", x)
    BY <1>1, <1>7, <2>1 DEF Run, Runs, Sound, RunsInv, EventSkipped
  <2>5. run' \in [Runs -> Run] /\ RunsInv'
    BY <1>7, <2>3, <2>4, RunChanges DEF EventSkipped, Runs
  <2>6. /\ faults' \in 0 .. MaxFaults
        /\ UNCHANGED <<deliveries, position, context, gaps, reruns, processed, overlapped>>
    BY <1>7 DEF EventSkipped, OneMoreFault, GapTypeOK
  <2> QED BY <2>5, <2>6, <1>2 DEF GapTypeOK
<1>8. CASE BatchRetried
  <2>1. run["worker"].upto \in 0 .. Len(deliveries)
    BY DEF RunsInv, Runs
  <2>2. run' \in [Runs -> Run] /\ RunsInv'
    BY <1>8, <2>1, BatchRun, RunChanges DEF BatchRetried, Runs
  <2> QED BY <1>8, <2>2, <1>2 DEF BatchRetried, GapTypeOK, OneMoreFault
<1>9. ASSUME NEW r \in Runs, ReadContext(r)
      PROVE  GapTypeOK' /\ RunsInv'
  <2>1. run' \in [Runs -> Run] /\ RunsInv'
    BY <1>9, ReadContextRun, RunChanges DEF ReadContext
  <2> QED BY <1>9, <2>1, <1>2 DEF ReadContext, GapTypeOK
<1>10. ASSUME NEW r \in Runs, WriteContext(r)
       PROVE  GapTypeOK' /\ RunsInv'
  <2>1. run' \in [Runs -> Run] /\ RunsInv'
    BY <1>10, WriteContextRun, RunChanges DEF WriteContext
  <2> QED BY <1>10, <2>1, <1>2 DEF WriteContext, GapTypeOK
<1>11. ASSUME NEW r \in Runs, RunCommits(r)
       PROVE  GapTypeOK' /\ RunsInv'
  <2>1. run' \in [Runs -> Run] /\ RunsInv'
    BY <1>11, RunCommitsRun, RunChanges DEF RunCommits
  <2>2. context' \in Context /\ gaps' \in SUBSET Gap /\ processed' \in SUBSET Numbers
    BY <1>1, <1>11, SeenType DEF RunCommits, GapTypeOK, Run
  <2> QED BY <1>11, <2>1, <2>2, <1>2 DEF RunCommits, GapTypeOK
<1>12. ASSUME NEW r \in Runs, RunLost(r)
       PROVE  GapTypeOK' /\ RunsInv'
  <2>1. run' \in [Runs -> Run] /\ RunsInv'
    BY <1>12, EmptyRun, NoRunSound, RunChanges DEF RunLost
  <2> QED BY <1>12, <2>1, <1>2 DEF RunLost, GapTypeOK, OneMoreFault
<1>13. CASE UNCHANGED gapVars
  BY <1>13 DEF gapVars, GapTypeOK, RunsInv, LockedByOther
<1> QED BY <1>3, <1>4, <1>5, <1>6, <1>7, <1>8, <1>9, <1>10, <1>11, <1>12, <1>13 DEF GapNext

\* Every reading and retry leaves the variables of the sensor typed and at most one
\* transaction with its row locked.
THEOREM GapTypeCorrect == GapSpec => []GapTypeOK
<1>1. GapInit => GapTypeOK /\ RunsInv
  BY StructInit
<1>2. GapTypeOK /\ RunsInv /\ [GapNext]_gapVars => (GapTypeOK /\ RunsInv)'
  BY StructStep
<1> QED BY <1>1, <1>2, PTL DEF GapSpec

\* The gaps that one event adds to those of G
Added(ctx, n, G) ==
    IF MissingBefore(ctx, n) = {} \/ \E g \in G : g.event = n THEN {}
    ELSE {[event |-> n, missing |-> MissingBefore(ctx, n)]}

\* An event assessed on a context that accounts for all before it leaves one that
\* accounts for it too.
LEMMA UpdateKeeps ==
    ASSUME NEW c \in Context, NEW A \in SUBSET Numbers, NEW G \in SUBSET Gap,
           NEW n \in Numbers, Accounted(c, A, G)
    PROVE  Accounted(Updated(c, c, n), A \cup {n}, G \cup Added(c, n, G))
<1> USE GapAssumption DEF None
<1> DEFINE u == Updated(c, c, n)
           N == Added(c, n, G)
<1> SUFFICES Accounted(u, A \cup {n}, G \cup N)
  OBVIOUS
<1>1. /\ c.expected \in Nat /\ c.seen \in Nat /\ c.first \in Nat
      /\ n \in Nat /\ SourceTime[n] \in Nat \ {0} /\ A \subseteq Nat /\ Numbers \subseteq Nat
      /\ \A m \in Numbers : SourceTime[m] \in Nat
  BY DEF Context
<1>2. /\ u.seen = IF IsLatest(c, n) THEN SourceTime[n] ELSE c.seen
      /\ u.expected = IF Expects(c, n) THEN n + 1 ELSE c.expected
      /\ u.first = IF c.expected = 0 THEN n ELSE c.first
  BY DEF Updated
<1>3. \A g \in N : g.event = n
  BY DEF Added
<1> HIDE DEF u, N
<1>4. \A g \in G \cup N : g.event \in A \cup {n}
  BY <1>3 DEF Accounted
<1>5. n < u.expected \/ SourceTime[n] < u.seen
  BY <1>1, <1>2 DEF Expects, IsLatest, Accounted
<1>6. CASE c.expected = 0
  <2>1. c.seen = 0 /\ A = {} /\ IsLatest(c, n) /\ Expects(c, n)
    BY <1>1, <1>6 DEF Accounted, IsLatest, Expects
  <2>2. u.seen = SourceTime[n] /\ u.expected = n + 1 /\ u.first = n
    BY <1>2, <1>6, <2>1
  <2> QED BY <1>1, <1>5, <1>4, <2>1, <2>2 DEF Accounted
<1>7. CASE c.expected # 0 /\ Expects(c, n)
  <2>1. /\ u.seen = SourceTime[n] /\ u.expected = n + 1 /\ u.first = c.first
        /\ n >= c.expected /\ SourceTime[n] >= c.seen
    BY <1>1, <1>2, <1>7 DEF Expects, IsLatest, Accounted
  <2>2. MissingBefore(c, n) = c.expected .. n - 1
    BY <1>7 DEF MissingBefore
  <2>3. ASSUME NEW m \in Numbers, c.expected <= m, m < n
        PROVE  \E g \in N : m \in g.missing
    <3>1. m \in MissingBefore(c, n)
      BY <1>1, <2>2, <2>3
    <3>2. n \notin A
      BY <1>1, <2>1 DEF Accounted
    <3>3. N = {[event |-> n, missing |-> MissingBefore(c, n)]}
      BY <3>1, <3>2 DEF N, Added, Accounted
    <3> QED BY <3>1, <3>3
  <2>4. ASSUME NEW m \in Numbers, u.first <= m, m < u.expected
        PROVE  m \in A \cup {n} \/ \E g \in G \cup N : m \in g.missing
    <3>1. CASE m < c.expected
      BY <2>1, <2>4, <3>1 DEF Accounted
    <3>2. CASE m >= c.expected /\ m < n
      BY <2>3, <3>2
    <3>3. CASE m = n
      BY <3>3
    <3> QED BY <1>1, <2>1, <2>4, <3>1, <3>2, <3>3
  <2>5. \A m \in A \cup {n} : m < u.expected \/ SourceTime[m] < u.seen
    BY <1>1, <2>1 DEF Accounted
  <2> QED BY <1>1, <1>4, <2>1, <2>4, <2>5 DEF Accounted
<1>8. CASE c.expected # 0 /\ ~Expects(c, n)
  <2>1. u.expected = c.expected /\ u.first = c.first
    BY <1>2, <1>8
  <2>3. \A m \in A \cup {n} : m < u.expected \/ SourceTime[m] < u.seen
    <3>1. u.seen \in Nat /\ u.seen >= c.seen
      BY <1>1, <1>2, <1>8 DEF IsLatest, Accounted
    <3>2. ASSUME NEW m \in A PROVE m < c.expected \/ SourceTime[m] < c.seen
      BY <3>2 DEF Accounted
    <3>3. ASSUME NEW m \in A PROVE SourceTime[m] \in Nat
      BY <1>1, <3>3
    <3>4. ASSUME NEW m \in A PROVE m < u.expected \/ SourceTime[m] < u.seen
      <4>1. CASE m < c.expected
        BY <2>1, <4>1
      <4>2. CASE SourceTime[m] < c.seen
        BY <1>1, <3>1, <3>3, <3>4, <4>2
      <4> QED BY <3>2, <3>4, <4>1, <4>2
    <3> QED BY <1>5, <3>4
  <2>4. u.seen # 0
    BY <1>1, <1>2, <1>8 DEF Accounted
  <2>5. \A m \in Numbers : u.first <= m /\ m < u.expected =>
           m \in A \cup {n} \/ \E g \in G \cup N : m \in g.missing
    BY <2>1 DEF Accounted
  <2> QED BY <1>1, <1>4, <1>8, <2>1, <2>3, <2>4, <2>5 DEF Accounted
<1> QED BY <1>6, <1>7, <1>8

\* What a transaction sees accounts for what is committed and what it has done
LEMMA SeenAccounts ==
    ASSUME RunsInv, ContextsAccount, ~overlapped, NEW r \in Runs
    PROVE  Accounted(Seen(r), processed \cup run[r].done, gaps \cup run[r].gaps)
<1>1. CASE run[r].locked
  BY <1>1 DEF ContextsAccount, Seen
<1>2. CASE ~run[r].locked
  <2>1. processed \cup run[r].done = processed /\ gaps \cup run[r].gaps = gaps
    BY <1>2 DEF RunsInv
  <2> QED BY <1>2, <2>1 DEF ContextsAccount, Seen
<1> QED BY <1>1, <1>2

\* A step in which a transaction writes nothing, or is given up
LEMMA RunMoves ==
    ASSUME GapTypeOK, ContextsAccount, NEW r \in Runs, NEW x,
           run' = [run EXCEPT ![r] = x],
           x.locked => /\ run[r].locked /\ x.row = run[r].row
                       /\ x.done = run[r].done /\ x.gaps = run[r].gaps,
           UNCHANGED <<context, gaps, processed, overlapped>>
    PROVE  ContextsAccount'
<1>1. \A q \in Runs : run'[q] = IF q = r THEN x ELSE run[q]
  BY DEF GapTypeOK
<1>2. ASSUME ~overlapped, NEW q \in Runs, run'[q].locked
      PROVE  Accounted(run'[q].row, processed \cup run'[q].done, gaps \cup run'[q].gaps)
  <2>1. /\ run[q].locked /\ run'[q].row = run[q].row
        /\ run'[q].done = run[q].done /\ run'[q].gaps = run[q].gaps
    BY <1>1, <1>2
  <2> QED BY <1>2, <2>1 DEF ContextsAccount
<1> QED BY <1>2 DEF ContextsAccount, Accounted

LEMMA WriteContextAccounts ==
    ASSUME GapInv, NEW r \in Runs, WriteContext(r)
    PROVE  ContextsAccount'
<1> USE DEF GapInv
<1> DEFINE n == Head(run[r].todo)
           A == processed \cup run[r].done
           G == gaps \cup run[r].gaps
<1>1. run \in [Runs -> Run] /\ processed \in SUBSET Numbers /\ gaps \in SUBSET Gap
  BY DEF GapTypeOK, Run
<1>2. run' = [run EXCEPT ![r] = Written(r)]
  BY WriteContextRun
<1>3. \A q \in Runs : q # r => run'[q] = run[q] /\ ~run[q].locked
  BY <1>1, <1>2 DEF WriteContext, LockedByOther
<1>4. /\ run'[r].row = Updated(Seen(r), run[r].read, n)
      /\ run'[r].done = run[r].done \cup {n}
      /\ run'[r].gaps = run[r].gaps \cup NewGaps(r, n)
  BY <1>1, <1>2 DEF Written
<1>5. UNCHANGED <<context, gaps, processed>> /\ (~overlapped' => ~overlapped /\ Seen(r) = run[r].read)
  BY DEF WriteContext
<1>6. ASSUME ~overlapped'
      PROVE  Accounted(run'[r].row, processed \cup run'[r].done, gaps \cup run'[r].gaps)
  <2>1. Seen(r) = run[r].read /\ Seen(r) \in Context
    BY <1>5, <1>6, SeenType
  <2>2. Accounted(Seen(r), A, G)
    BY <1>5, <1>6, SeenAccounts
  <2>3. A \in SUBSET Numbers /\ G \in SUBSET Gap /\ n \in Numbers
    BY <1>1, HeadTodo DEF Run, WriteContext, RunsInv
  <2>4. NewGaps(r, n) = Added(Seen(r), n, G)
    BY <2>1 DEF NewGaps, Added
  <2> HIDE DEF A, G, n
  <2>5. Accounted(Updated(Seen(r), Seen(r), n), A \cup {n}, G \cup Added(Seen(r), n, G))
    BY <2>1, <2>2, <2>3, UpdateKeeps
  <2>6. /\ processed \cup run'[r].done = A \cup {n}
        /\ gaps \cup run'[r].gaps = G \cup Added(Seen(r), n, G)
        /\ run'[r].row = Updated(Seen(r), Seen(r), n)
    BY <1>4, <2>1, <2>4 DEF A, G
  <2> QED BY <2>5, <2>6
<1> HIDE DEF A, G, n
<1>7. ~overlapped' => Accounted(context, processed, gaps)
  BY <1>5 DEF ContextsAccount
<1> QED BY <1>3, <1>5, <1>6, <1>7 DEF ContextsAccount, Accounted

LEMMA RunCommitsAccounts ==
    ASSUME GapInv, NEW r \in Runs, RunCommits(r)
    PROVE  ContextsAccount'
<1> USE DEF GapInv
<1>1. run \in [Runs -> Run]
  BY DEF GapTypeOK, Run
<1>2. ~run'[r].locked /\ \A q \in Runs : q # r => run'[q] = run[q]
  <2> DEFINE x == IF r = "worker" THEN [NoRun EXCEPT !.pc = "stored", !.upto = run[r].upto]
                  ELSE NoRun
  <2>1. run' = [run EXCEPT ![r] = x]
    BY DEF RunCommits
  <2>2. ~x.locked
    BY StoredRun DEF NoRun
  <2> HIDE DEF x
  <2> QED BY <1>1, <2>1, <2>2
<1>3. /\ context' = Seen(r)
      /\ processed' = processed \cup run[r].done
      /\ gaps' = gaps \cup run[r].gaps
      /\ overlapped' = overlapped
  BY DEF RunCommits
<1>4. ~overlapped => Accounted(context', processed', gaps')
  BY <1>3, SeenAccounts
<1>5. ASSUME ~overlapped, NEW q \in Runs, run'[q].locked
      PROVE  Accounted(run'[q].row, processed' \cup run'[q].done, gaps' \cup run'[q].gaps)
  <2>1. q # r /\ run'[q] = run[q] /\ run[q].locked
    BY <1>2, <1>5
  <2>2. ~run[r].locked
    BY <2>1 DEF RunsInv, LockedByOther
  <2>3. processed' = processed /\ gaps' = gaps
    BY <1>3, <2>2 DEF RunsInv
  <2> QED BY <1>5, <2>1, <2>3 DEF ContextsAccount
<1> QED BY <1>3, <1>4, <1>5 DEF ContextsAccount, Accounted

LEMMA GapInvInit == GapInit => GapInv
<1> SUFFICES ASSUME GapInit PROVE ContextsAccount
  BY StructInit DEF GapInv
<1>1. Accounted(context, processed, gaps)
  BY GapAssumption DEF GapInit, Accounted, NoContext, None
<1>2. \A r \in Runs : ~run[r].locked
  BY DEF GapInit, NoRun
<1> QED BY <1>1, <1>2 DEF ContextsAccount

LEMMA GapInvStep ==
    ASSUME GapInv, [GapNext]_gapVars
    PROVE  GapInv'
<1> SUFFICES ContextsAccount'
  BY StructStep DEF GapInv
<1> USE DEF GapInv
<1>1. run \in [Runs -> Run]
  BY DEF GapTypeOK, Run
<1>2. CASE Delivered
  BY <1>2 DEF Delivered, ContextsAccount, Accounted
<1>3. CASE WorkerFetches
  <2>1. \A upto : ~Batch(upto).locked
    BY DEF Batch, NoRun
  <2> QED BY <1>3, <2>1, RunMoves DEF WorkerFetches, Runs
<1>4. CASE RerunBegins
  <2>1. \A order : ~[NoRun EXCEPT !.pc = "open", !.todo = order].locked
    BY DEF NoRun
  <2>2. \E order : run' = [run EXCEPT !["reprocess"] =
                             [NoRun EXCEPT !.pc = "open", !.todo = order]]
    BY <1>4 DEF RerunBegins
  <2> QED BY <1>4, <2>1, <2>2, RunMoves DEF RerunBegins, Runs
<1>5. CASE PositionCommitted
  BY <1>5, RunMoves DEF PositionCommitted, Runs, NoRun
<1>6. CASE EventSkipped
  <2> DEFINE x == run'["worker"]
  <2>1. run' = [run EXCEPT !["worker"] = x]
    BY <1>1, <1>6 DEF EventSkipped, Runs
  <2>2. /\ x.locked = run["worker"].locked /\ x.row = run["worker"].row
        /\ x.done = run["worker"].done /\ x.gaps = run["worker"].gaps
    BY <1>1, <1>6 DEF EventSkipped, Run, Runs
  <2>3. UNCHANGED <<context, gaps, processed, overlapped>>
    BY <1>6 DEF EventSkipped
  <2> HIDE DEF x
  <2> QED BY <2>1, <2>2, <2>3, RunMoves DEF Runs
<1>7. CASE BatchRetried
  <2>1. \A upto : ~Batch(upto).locked
    BY DEF Batch, NoRun
  <2> QED BY <1>7, <2>1, RunMoves DEF BatchRetried, Runs
<1>8. ASSUME NEW r \in Runs, ReadContext(r)
      PROVE  ContextsAccount'
  <2> DEFINE x == [run[r] EXCEPT !.pc = "read", !.read = Seen(r)]
  <2>1. run' = [run EXCEPT ![r] = x]
    BY <1>8, ReadContextRun
  <2>2. /\ x.locked = run[r].locked /\ x.row = run[r].row
        /\ x.done = run[r].done /\ x.gaps = run[r].gaps
    BY <1>1 DEF Run
  <2>3. UNCHANGED <<context, gaps, processed, overlapped>>
    BY <1>8 DEF ReadContext
  <2> HIDE DEF x
  <2> QED BY <2>1, <2>2, <2>3, RunMoves
<1>9. ASSUME NEW r \in Runs, RunLost(r)
      PROVE  ContextsAccount'
  BY <1>9, RunMoves DEF RunLost, NoRun
<1>10. CASE UNCHANGED gapVars
  BY <1>10 DEF gapVars, ContextsAccount, Accounted
<1>11. ASSUME NEW r \in Runs, WriteContext(r) \/ RunCommits(r)
       PROVE  ContextsAccount'
  BY <1>11, WriteContextAccounts, RunCommitsAccounts
<1> QED BY <1>2, <1>3, <1>4, <1>5, <1>6, <1>7, <1>8, <1>9, <1>10, <1>11 DEF GapNext

\* Every number below the one expected next was assessed or is named by a gap, and
\* one that was assessed is still expected only if its reading is older than the
\* newest, however the readings are reordered, repeated, skipped or assessed again
\* and whatever times they carry, unless a context was written that another
\* transaction had changed (NumbersAccounted).
THEOREM NumbersStayAccounted == GapSpec => []NumbersAccounted
<1>1. GapInv => NumbersAccounted
  BY DEF GapInv, ContextsAccount, Accounted, NumbersAccounted, Named
<1>2. GapInv /\ [GapNext]_gapVars => GapInv'
  BY GapInvStep
<1> QED BY <1>1, <1>2, GapInvInit, PTL DEF GapSpec

\* A gap names a number that was assessed before it was found only if that reading
\* is older than the newest (GapsAreReal).
LEMMA NewGapsReal ==
    ASSUME GapInv, [GapNext]_gapVars, ~overlapped', NEW r \in Runs,
           NEW g \in run'[r].gaps \ run[r].gaps
    PROVE  \A m \in g.missing \cap (processed \cup run[r].done) :
              SourceTime[m] < Seen(r).seen
<1> USE DEF GapInv
<1>1. run \in [Runs -> Run]
  BY DEF GapTypeOK, Run
<1>2. CASE WriteContext(r)
  <2> DEFINE n == Head(run[r].todo)
             A == processed \cup run[r].done
  <2>1. run'[r].gaps = run[r].gaps \cup NewGaps(r, n)
    <3>1. run' = [run EXCEPT ![r] = Written(r)]
      BY <1>2, WriteContextRun
    <3> QED BY <1>1, <3>1 DEF Written
  <2>2. g.missing = MissingBefore(run[r].read, n)
    BY <2>1 DEF NewGaps
  <2>3. Seen(r) = run[r].read /\ ~overlapped
    BY <1>2 DEF WriteContext
  <2>4. Accounted(run[r].read, A, gaps \cup run[r].gaps)
    BY <2>3, SeenAccounts
  <2>5. /\ run[r].read.expected \in Nat /\ n \in Nat /\ A \subseteq Nat
    BY <1>1, <1>2, HeadTodo, GapAssumption
       DEF Run, Context, WriteContext, RunsInv, GapTypeOK
  <2>6. \A m \in A : m < run[r].read.expected \/ SourceTime[m] < Seen(r).seen
    BY <2>3, <2>4 DEF Accounted
  <2> DEFINE old(m) == SourceTime[m] < Seen(r).seen
  <2> HIDE DEF n, A, old
  <2>7. \A m \in g.missing : m >= run[r].read.expected
    BY <2>2, <2>5 DEF MissingBefore
  <2>8. \A m \in g.missing \cap A : old(m)
    <3>1. \A m \in A : m < run[r].read.expected \/ old(m)
      BY <2>6 DEF old
    <3>2. ASSUME NEW m \in g.missing \cap A PROVE ~(m < run[r].read.expected)
      <4>1. m \in Nat /\ m >= run[r].read.expected
        BY <2>5, <2>7
      <4> QED BY <2>5, <4>1
    <3> QED BY <3>1, <3>2
  <2> QED BY <2>8 DEF A, old
<1>3. CASE ~WriteContext(r)
  <2>1. run'[r].gaps \subseteq run[r].gaps
    <3>1. CASE WorkerFetches \/ BatchRetried
      BY <1>1, <3>1 DEF WorkerFetches, BatchRetried, Batch, NoRun
    <3>2. CASE RerunBegins
      <4>1. \E order : run' = [run EXCEPT !["reprocess"] =
                                 [NoRun EXCEPT !.pc = "open", !.todo = order]]
        BY <3>2 DEF RerunBegins
      <4> QED BY <1>1, <4>1 DEF NoRun
    <3>3. CASE PositionCommitted
      BY <1>1, <3>3 DEF PositionCommitted, NoRun
    <3>4. CASE EventSkipped
      BY <1>1, <3>4 DEF EventSkipped, Run
    <3>5. ASSUME NEW q \in Runs, ReadContext(q) \/ RunLost(q)
          PROVE  run'[r].gaps \subseteq run[r].gaps
      <4>1. CASE ReadContext(q)
        <5>1. run' = [run EXCEPT ![q] = [run[q] EXCEPT !.pc = "read", !.read = Seen(q)]]
          BY <4>1, ReadContextRun
        <5> QED BY <1>1, <5>1 DEF Run
      <4>2. CASE RunLost(q)
        BY <1>1, <4>2 DEF RunLost, NoRun
      <4> QED BY <3>5, <4>1, <4>2
    <3>6. ASSUME NEW q \in Runs, RunCommits(q)
          PROVE  run'[r].gaps \subseteq run[r].gaps
      <4> DEFINE x == IF q = "worker" THEN [NoRun EXCEPT !.pc = "stored", !.upto = run[q].upto]
                      ELSE NoRun
      <4>1. run' = [run EXCEPT ![q] = x]
        BY <3>6 DEF RunCommits
      <4>2. x.gaps = {}
        BY StoredRun DEF NoRun
      <4> HIDE DEF x
      <4> QED BY <1>1, <4>1, <4>2
    <3>7. ASSUME NEW q \in Runs, q # r, WriteContext(q)
          PROVE  run'[r].gaps \subseteq run[r].gaps
      <4>1. run' = [run EXCEPT ![q] = Written(q)]
        BY <3>7, WriteContextRun
      <4> QED BY <1>1, <3>7, <4>1
    <3>8. CASE Delivered \/ UNCHANGED gapVars
      BY <3>8 DEF Delivered, gapVars
    <3> QED BY <1>3, <3>1, <3>2, <3>3, <3>4, <3>5, <3>6, <3>7, <3>8 DEF GapNext
  <2> QED BY <2>1
<1> QED BY <1>2, <1>3

\* No transaction takes a reading for missing that it or an earlier one had assessed,
\* but one that is older than the newest; with a clock that goes forward, none.
THEOREM FoundGapsAreReal == GapSpec => GapsAreReal
<1>1. GapInv /\ [GapNext]_gapVars => GapInv'
  BY GapInvStep
<1>2. GapInv /\ [GapNext]_gapVars =>
         [~overlapped' =>
            \A r \in Runs : \A g \in run'[r].gaps \ run[r].gaps :
                \A n \in g.missing \cap (processed \cup run[r].done) :
                    SourceTime[n] < Seen(r).seen]_gapVars
  BY NewGapsReal
<1> QED BY <1>1, <1>2, GapInvInit, PTL DEF GapSpec, GapsAreReal

-----------------------------------------------------------------------------
(* The findings of a machine. *)

\* At most the two vibration rules share a type
LEMMA SignalsOfType ==
    ASSUME NEW t
    PROVE  \E a, b : {s \in DOMAIN TypeOf : TypeOf[s] = t} \subseteq {a, b}
<1>1. CASE t = "VIBRATION_ABOVE_CONTEXTUAL_BASELINE"
  <2>1. {s \in DOMAIN TypeOf : TypeOf[s] = t} \subseteq {"VIBRATION_RMS", "VIBRATION_PEAK"}
    BY <1>1 DEF TypeOf
  <2> QED BY <2>1
<1>2. CASE t # "VIBRATION_ABOVE_CONTEXTUAL_BASELINE"
  <2>1. \A r, s \in DOMAIN TypeOf : TypeOf[r] = t /\ TypeOf[s] = t => r = s
    BY <1>2 DEF TypeOf
  <2> QED BY <2>1
<1> QED BY <1>1, <1>2

LEMMA CandidatesType ==
    ASSUME NEW measurements \in SUBSET Signals, NEW enough \in BOOLEAN
    PROVE  Candidates[measurements][enough] \in [Tracked -> 0 .. 2]
<1>1. ASSUME NEW t
      PROVE  Cardinality({s \in measurements : TypeOf[s] = t}) \in 0 .. 2
  <2> DEFINE S == {s \in measurements : TypeOf[s] = t}
  <2>1. PICK a, b : S \subseteq {a, b}
    BY SignalsOfType, FindingAssumption
  <2>2. IsFiniteSet({a}) /\ Cardinality({a}) = 1
    BY FS_Singleton
  <2>3. IsFiniteSet({a} \cup {b}) /\ Cardinality({a} \cup {b}) \in {1, 2}
    BY <2>2, FS_AddElement
  <2>4. IsFiniteSet(S) /\ Cardinality(S) <= Cardinality({a} \cup {b})
    <3>1. S \subseteq {a} \cup {b}
      BY <2>1
    <3> QED BY <2>3, <3>1, FS_Subset
  <2> HIDE DEF S
  <2>5. Cardinality(S) \in Nat
    BY <2>4, FS_CardinalityType
  <2> QED BY <2>3, <2>4, <2>5 DEF S
<1>2. ASSUME NEW t
      PROVE  CandidateCount(measurements, enough, t) \in 0 .. 2
  <2> DEFINE n == Cardinality({s \in measurements : TypeOf[s] = t})
  <2>1. CandidateCount(measurements, enough, t) \in {0, 1, n}
    BY DEF CandidateCount
  <2>2. n \in 0 .. 2
    BY <1>1
  <2> HIDE DEF n
  <2> QED BY <2>1, <2>2
<1> QED BY <1>2 DEF Candidates

\* Two lineages that do not fire together
Apart(fired) ==
    {Restriction, Leakage} \subseteq Tracked => fired[Restriction] = 0 \/ fired[Leakage] = 0

LEMMA CandidatesApart ==
    ASSUME NEW measurements \in SUBSET Signals, NEW enough \in BOOLEAN
    PROVE  Apart(Candidates[measurements][enough])
<1> DEFINE types == {TypeOf[s] : s \in measurements}
           patterns == SpecificPatterns(types) \cup PathPattern(types)
                           \cup BearingPattern(measurements, types)
<1>1. Restriction \notin SingleTypes /\ Leakage \notin SingleTypes
  BY DEF SingleTypes, TypeOf, Restriction, Leakage
<1>2. /\ Restriction \in patterns => TypeOf.PRESSURE \in types
      /\ Leakage \in patterns => TypeOf.PRESSURE \notin types
  BY DEF SpecificPatterns, PathPattern, BearingPattern, Matches, Restriction, Leakage,
         PathDegradation, IndependentBearing, PumpDegradation
<1>3. /\ CandidateCount(measurements, enough, Restriction) # 0 => Restriction \in patterns
      /\ CandidateCount(measurements, enough, Leakage) # 0 => Leakage \in patterns
  BY <1>1 DEF CandidateCount, InsufficientData, Restriction, Leakage
<1> QED BY <1>2, <1>3 DEF Apart, Candidates

\* The open row of a lineage that has at most one
LEMMA OpenSlotIs ==
    ASSUME FindingTypeOK, NEW l \in Tracked, OneOpen(finding[l])
    PROVE  /\ OpenSlot(l) = 0 => \A s \in Slots : finding[l][s].state \notin Open
           /\ OpenSlot(l) # 0 => /\ OpenSlot(l) \in Slots
                                 /\ finding[l][OpenSlot(l)].state \in Open
                                 /\ \A s \in Slots \ {OpenSlot(l)} :
                                       finding[l][s].state \notin Open
<1> DEFINE open == {s \in Slots : finding[l][s].state \in Open}
<1>1. CASE open = {}
  BY <1>1 DEF OpenSlot
<1>2. CASE open # {}
  <2>1. PICK s \in Slots : s \in open
    BY <1>2
  <2>2. open = {s}
    BY <2>1 DEF OneOpen
  <2>3. Min({s}) = s
    BY FindingAssumption DEF Min, Slots
  <2>4. /\ OpenSlot(l) = Min(open)
        /\ \A r \in Slots : finding[l][r].state \in Open <=> r = s
    BY <1>2, <2>2 DEF OpenSlot
  <2> HIDE DEF open
  <2>5. OpenSlot(l) = s /\ s # 0
    BY <2>2, <2>3, <2>4, FindingAssumption DEF Slots
  <2> QED BY <2>4, <2>5
<1> QED BY <1>1, <1>2

LEMMA NoFindingType == NoFinding \in Finding /\ NoFinding.state = "RESOLVED"
BY DEF NoFinding, Finding

LEMMA WriteFindingType ==
    ASSUME NEW action, NEW read \in Finding, NEW row \in Finding
    PROVE  WriteFinding(action, read, row) \in Finding
BY NoFindingType DEF WriteFinding, Finding, Open

LEMMA AppliedType ==
    ASSUME NEW l \in Tracked, NEW n, NEW read \in Finding, NEW row \in Finding
    PROVE  Applied(l, n, read, row) \in Finding
BY WriteFindingType DEF Applied, Firing

\* Firings of a row: what the count of them says of the state it comes to.
LEMMA FiringOnce ==
    ASSUME NEW l \in Tracked, NEW read \in Finding
    PROVE  LET row  == Firing(l, read, read).row
               base == IF read.state = "CANDIDATE" THEN read.cycles ELSE 0
           IN  /\ Firing(l, read, read).read = row
               /\ row \in Finding
               /\ row.state \in {"CANDIDATE", "ACTIVE"}
               /\ read.state \in {"ACTIVE", "RECOVERING"} => row.state = "ACTIVE"
               /\ row.state = "CANDIDATE" => row.cycles = base + 1 /\ row.cycles <= Required[l]
               /\ row.state = "ACTIVE" /\ read.state \notin {"ACTIVE", "RECOVERING"} =>
                     base + 1 >= Required[l]
<1>1. Required[l] \in Nat \ {0}
  BY FindingAssumption
<1> QED BY <1>1, NoFindingType
    DEF Firing, DecideFinding, WriteFinding, Finding, Open

LEMMA FiringsOfRow ==
    ASSUME NEW l \in Tracked, NEW n \in 1 .. 2, NEW read \in Finding
    PROVE  LET row  == Applied(l, n, read, read)
               base == IF read.state = "CANDIDATE" THEN read.cycles ELSE 0
           IN  /\ row \in Finding
               /\ row.state \in {"CANDIDATE", "ACTIVE"}
               /\ read.state \in {"ACTIVE", "RECOVERING"} => row.state = "ACTIVE"
               /\ row.state = "CANDIDATE" => row.cycles <= base + n /\ row.cycles <= Required[l]
               /\ row.state = "ACTIVE" /\ read.state \notin {"ACTIVE", "RECOVERING"} =>
                     base + n >= Required[l]
<1> DEFINE first == Firing(l, read, read)
           second == Firing(l, first.row, first.row)
<1>1. first.read = first.row /\ first.row \in Finding
  BY FiringOnce
<1>2. Applied(l, n, read, read) = IF n = 1 THEN first.row ELSE second.row
  BY <1>1 DEF Applied
<1>3. first.row.cycles \in Nat /\ Required[l] \in Nat /\ read.cycles \in Nat
  BY <1>1, FindingAssumption DEF Finding
<1>4. CASE n = 1
  BY <1>2, <1>3, <1>4, FiringOnce
<1>5. CASE n = 2
  <2> DEFINE base == IF read.state = "CANDIDATE" THEN read.cycles ELSE 0
             next == IF first.row.state = "CANDIDATE" THEN first.row.cycles ELSE 0
  <2>1. /\ first.row.state \in {"CANDIDATE", "ACTIVE"}
        /\ read.state \in {"ACTIVE", "RECOVERING"} => first.row.state = "ACTIVE"
        /\ first.row.state = "CANDIDATE" => first.row.cycles = base + 1
        /\ first.row.state = "ACTIVE" /\ read.state \notin {"ACTIVE", "RECOVERING"} =>
              base + 1 >= Required[l]
    BY FiringOnce
  <2>2. /\ second.row \in Finding
        /\ second.row.state \in {"CANDIDATE", "ACTIVE"}
        /\ first.row.state \in {"ACTIVE", "RECOVERING"} => second.row.state = "ACTIVE"
        /\ second.row.state = "CANDIDATE" => second.row.cycles = next + 1 /\ second.row.cycles <= Required[l]
        /\ second.row.state = "ACTIVE" /\ first.row.state \notin {"ACTIVE", "RECOVERING"} =>
              next + 1 >= Required[l]
    BY <1>1, FiringOnce
  <2>3. Applied(l, n, read, read) = second.row
    BY <1>2, <1>5
  <2> HIDE DEF first, second
  <2> QED BY <1>3, <1>5, <2>1, <2>2, <2>3
<1> QED BY <1>4, <1>5

\* A row that is created does not depend on what was in its place
LEMMA FiringsOfNew ==
    ASSUME NEW l \in Tracked, NEW n \in 1 .. 2, NEW row
    PROVE  Applied(l, n, NoFinding, row) = Applied(l, n, NoFinding, NoFinding)
<1>1. Firing(l, NoFinding, row) = Firing(l, NoFinding, NoFinding)
  <2>1. DecideFinding(NoFinding, TRUE, Required[l]) = "CREATE_CANDIDATE"
    BY DEF DecideFinding, NoFinding, Open
  <2> QED BY <2>1 DEF Firing, WriteFinding
<1> QED BY <1>1 DEF Applied

\* The row that an evaluation read, when it did not fire
LEMMA RowNotFiring ==
    ASSUME NEW l \in Tracked, NEW read \in Finding, read.state \in Open
    PROVE  LET row == WriteFinding(DecideFinding(read, FALSE, Required[l]), read, read)
           IN  /\ row \in Finding
               /\ row.state = IF read.state = "ACTIVE" THEN "RECOVERING" ELSE "RESOLVED"
BY NoFindingType DEF DecideFinding, WriteFinding, Finding, Open

Evaluation == [busy : BOOLEAN, undone : BOOLEAN, fired : [Tracked -> 0 .. 2],
               slot : [Tracked -> 0 .. FindingSlots], read : [Tracked -> Finding]]

\* At most one row of a lineage is open
OneOpenEach == \A l \in Tracked : OneOpen(finding[l])

LEMMA OutcomeType ==
    ASSUME FindingTypeOK, NEW l \in Tracked, NEW e \in Evaluation
    PROVE  Outcome(l, e) \in [Slots -> Finding]
<1>1. finding[l] \in [Slots -> Finding] /\ e.read[l] \in Finding
  BY DEF FindingTypeOK, Evaluation
<1>2. Fired(l, e) \in [Slots -> Finding]
  BY <1>1, AppliedType, NoFindingType DEF Fired
<1>3. NotFired(l, e) \in [Slots -> Finding]
  BY <1>1, WriteFindingType DEF NotFired
<1> QED BY <1>2, <1>3 DEF Outcome

LEMMA FindingTypeInit == FindingInit => FindingTypeOK /\ OneOpenEach
<1> SUFFICES ASSUME FindingInit PROVE FindingTypeOK /\ OneOpenEach
  OBVIOUS
<1>1. NoEvaluation \in Evaluation
  BY FindingAssumption, NoFindingType DEF NoEvaluation, Evaluation
<1>2. finding \in [Tracked -> [Slots -> Finding]] /\ OneOpenEach
  BY NoFindingType DEF FindingInit, OneOpenEach, OneOpen, Open
<1>3. evaluation \in [Evaluators -> Evaluation]
  BY <1>1 DEF FindingInit
<1>4. fires \in [Tracked -> Nat] /\ quiet \in [Tracked -> 0 .. 2] /\ reprocesses \in 0 .. MaxReprocess
  BY FindingAssumption DEF FindingInit
<1>5. deviating \subseteq Signals /\ trusted \in BOOLEAN /\ mishaps \in BOOLEAN
  BY DEF FindingInit
<1> QED BY <1>2, <1>3, <1>4, <1>5 DEF FindingTypeOK, Evaluation

LEMMA BeginType ==
    ASSUME FindingTypeOK, OneOpenEach, NEW w \in Evaluators,
           NEW measurements \in SUBSET Signals, Begin(w, measurements)
    PROVE  evaluation' \in [Evaluators -> Evaluation]
<1> DEFINE fired == Candidates[measurements][trusted]
           slot == [l \in Tracked |-> OpenSlot(l)]
           read == [l \in Tracked |-> IF OpenSlot(l) = 0 THEN NoFinding
                                      ELSE finding[l][OpenSlot(l)]]
<1>1. fired \in [Tracked -> 0 .. 2]
  BY CandidatesType DEF FindingTypeOK
<1>2. \A l \in Tracked : OpenSlot(l) \in 0 .. FindingSlots
  BY OpenSlotIs, FindingAssumption DEF OneOpenEach, Slots
<1>3. read \in [Tracked -> Finding]
  BY OpenSlotIs, NoFindingType DEF OneOpenEach, FindingTypeOK
<1>4. slot \in [Tracked -> 0 .. FindingSlots]
  BY <1>2
<1>5. evaluation' = [evaluation EXCEPT ![w] = [busy |-> TRUE, undone |-> FALSE,
                                               fired |-> fired, slot |-> slot, read |-> read]]
  BY DEF Begin
<1> HIDE DEF fired, slot, read
<1>6. [busy |-> TRUE, undone |-> FALSE, fired |-> fired, slot |-> slot, read |-> read]
         \in Evaluation
  BY <1>1, <1>3, <1>4 DEF Evaluation
<1> QED BY <1>5, <1>6 DEF FindingTypeOK, Evaluation

LEMMA EndsType ==
    ASSUME FindingTypeOK, NEW w \in Evaluators, NEW undone \in BOOLEAN, Ends(w, undone)
    PROVE  evaluation' \in [Evaluators -> Evaluation]
<1>1. NoEvaluation \in Evaluation
  BY FindingAssumption, NoFindingType DEF NoEvaluation, Evaluation
<1>2. [NoEvaluation EXCEPT !.undone = undone] \in Evaluation
  BY <1>1 DEF Evaluation
<1> QED BY <1>2 DEF Ends, FindingTypeOK, Evaluation

\* What a commit leaves of the rows and the counts
LEMMA CommitType ==
    ASSUME FindingTypeOK, OneOpenEach, NEW w \in Evaluators, NEW lost \in SUBSET Tracked,
           CommitFindings(w, lost)
    PROVE  FindingTypeOK' /\ OneOpenEach'
<1> DEFINE e == evaluation[w]
<1>1. e \in Evaluation /\ fires \in [Tracked -> Nat] /\ quiet \in [Tracked -> 0 .. 2]
  BY DEF FindingTypeOK, Evaluation
<1>2. finding' \in [Tracked -> [Slots -> Finding]] /\ OneOpenEach'
  <2>1. \A l \in Tracked : finding'[l] =
           IF l \in lost \/ ~OneOpen(Outcome(l, e)) THEN finding[l] ELSE Outcome(l, e)
    BY DEF CommitFindings
  <2>2. \A l \in Tracked : OneOpen(finding'[l])
    BY <2>1 DEF OneOpenEach
  <2>3. \A l \in Tracked : finding[l] \in [Slots -> Finding] /\ Outcome(l, e) \in [Slots -> Finding]
    BY <1>1, OutcomeType DEF FindingTypeOK
  <2> QED BY <2>1, <2>2, <2>3 DEF CommitFindings, OneOpenEach
<1>3. evaluation' \in [Evaluators -> Evaluation]
  BY EndsType DEF CommitFindings
<1>4. fires' \in [Tracked -> Nat] /\ quiet' \in [Tracked -> 0 .. 2]
  <2>1. ASSUME NEW l \in Tracked
        PROVE  /\ fires[l] + e.fired[l] \in Nat /\ Required[l] \in Nat
               /\ quiet[l] + 1 \in 1 .. 3
    BY <1>1, FindingAssumption DEF Evaluation
  <2>2. \A a, b \in Nat : Min({a, b}) \in Nat /\ Min({a, b}) <= b
    BY MinOfTwo
  <2>3. \A l \in Tracked : /\ Min({fires[l] + e.fired[l], Required[l]}) \in Nat
                            /\ Min({quiet[l] + 1, 2}) \in 0 .. 2
    BY <2>1, <2>2
  <2>4. /\ fires' = [l \in Tracked |-> IF ~Undisturbed' \/ e.fired[l] = 0 THEN 0
                                        ELSE Min({fires[l] + e.fired[l], Required[l]})]
        /\ quiet' = [l \in Tracked |-> IF ~Undisturbed' \/ e.fired[l] > 0 THEN 0
                                        ELSE Min({quiet[l] + 1, 2})]
    BY DEF CommitFindings, Observe
  <2> DEFINE more == [l \in Tracked |-> Min({fires[l] + e.fired[l], Required[l]})]
             longer == [l \in Tracked |-> Min({quiet[l] + 1, 2})]
  <2>5. more \in [Tracked -> Nat] /\ longer \in [Tracked -> 0 .. 2]
    BY <2>3
  <2>6. /\ fires' = [l \in Tracked |-> IF ~Undisturbed' \/ e.fired[l] = 0 THEN 0 ELSE more[l]]
        /\ quiet' = [l \in Tracked |-> IF ~Undisturbed' \/ e.fired[l] > 0 THEN 0 ELSE longer[l]]
    BY <2>4
  <2> HIDE DEF e, more, longer
  <2> QED BY <2>5, <2>6
<1>5. mishaps' \in BOOLEAN
  BY DEF CommitFindings, FindingTypeOK
<1>6. UNCHANGED <<deviating, trusted, reprocesses>>
  BY DEF CommitFindings
<1> QED BY <1>2, <1>3, <1>4, <1>5, <1>6 DEF FindingTypeOK, Evaluation

LEMMA FindingTypeStep ==
    ASSUME FindingTypeOK, OneOpenEach, [FindingNext]_findingVars
    PROVE  FindingTypeOK' /\ OneOpenEach'
<1>1. CASE WorkerBegins
  <2>1. evaluation' \in [Evaluators -> Evaluation]
    BY <1>1, BeginType DEF WorkerBegins, Evaluators, FindingTypeOK
  <2> QED BY <1>1, <2>1 DEF WorkerBegins, Begin, FindingTypeOK, OneOpenEach, Evaluation
<1>2. CASE ReprocessBegins
  <2>1. PICK measurements \in Windows : Begin("reprocess", measurements)
    BY <1>2 DEF ReprocessBegins
  <2>2. evaluation' \in [Evaluators -> Evaluation]
    BY <2>1, BeginType, FindingAssumption DEF Evaluators
  <2>3. reprocesses' \in 0 .. MaxReprocess
    BY <1>2, FindingAssumption DEF ReprocessBegins, FindingTypeOK
  <2> QED BY <2>1, <2>2, <2>3 DEF Begin, FindingTypeOK, OneOpenEach, Evaluation
<1>3. ASSUME NEW w \in Evaluators, NEW lost \in SUBSET Tracked, CommitFindings(w, lost)
      PROVE  FindingTypeOK' /\ OneOpenEach'
  BY <1>3, CommitType
<1>4. ASSUME NEW w \in Evaluators, EvaluationFails(w)
      PROVE  FindingTypeOK' /\ OneOpenEach'
  <2>1. evaluation' \in [Evaluators -> Evaluation]
    BY <1>4, EndsType DEF EvaluationFails
  <2> QED BY <1>4, <2>1 DEF EvaluationFails, FindingTypeOK, OneOpenEach, Evaluation
<1>5. CASE MachineChanges
  <2>1. deviating' \subseteq Signals /\ trusted' \in BOOLEAN
    BY <1>5 DEF MachineChanges, FindingTypeOK, SymDiff
  <2> QED BY <1>5, <2>1 DEF MachineChanges, FindingTypeOK, OneOpenEach
<1>6. CASE UNCHANGED findingVars
  BY <1>6 DEF findingVars, FindingTypeOK, OneOpenEach
<1> QED BY <1>1, <1>2, <1>3, <1>4, <1>5, <1>6 DEF FindingNext

\* Rows, counts and evaluations keep their types, and a lineage never has two open
\* rows, whatever evaluations overlap and whatever savepoints are lost.
THEOREM FindingTypeCorrect == FindingSpec => [](FindingTypeOK /\ OneOpenEach)
BY FindingTypeInit, FindingTypeStep, PTL DEF FindingSpec

\* What the counts of firings and of quiet cycles say of the open rows
Lifecycles ==
    \A l \in Tracked, s \in Slots :
        /\ finding[l][s].state = "CANDIDATE" => finding[l][s].cycles <= fires[l]
        /\ finding[l][s].state = "ACTIVE" => fires[l] >= 1
        /\ finding[l][s].state = "RECOVERING" => quiet[l] >= 1

\* The worker alone evaluates: what it has read of the open rows is still true.
ReadIsTrue ==
    LET e == evaluation["worker"]
    IN  e.busy => /\ \A l \in Tracked :
                        /\ e.slot[l] = OpenSlot(l)
                        /\ e.slot[l] # 0 => e.read[l] = finding[l][e.slot[l]]
                  /\ Apart(e.fired)

\* FindingsDebounced and NoContradiction rest on this; ACTIVE findings were called
\* for by the last evaluation, and no evaluation calls for both patterns.
LifeInv ==
    /\ FindingTypeOK
    /\ OneOpenEach
    /\ Undisturbed => /\ ~evaluation["reprocess"].busy
                      /\ ReadIsTrue
                      /\ Lifecycles
                      /\ Apart(fires)

\* The outcome of an evaluation for one lineage is one row, old or new
LEMMA OneRowWritten ==
    ASSUME NEW rows \in [Slots -> Finding], NEW at, NEW row \in Finding,
           \A s \in Slots \ {at} : rows[s].state \notin Open
    PROVE  OneOpen([rows EXCEPT ![at] = row])
BY DEF OneOpen

\* What the commit of the worker's evaluation makes of the rows of a lineage: the
\* row at one place is written, and the others are not open.
LEMMA CommitRows ==
    ASSUME LifeInv, Undisturbed, CommitFindings("worker", {}), NEW l \in Tracked
    PROVE  LET e    == evaluation["worker"]
               read == IF e.slot[l] = 0 THEN NoFinding ELSE e.read[l]
               row  == IF e.fired[l] > 0 THEN Applied(l, e.fired[l], read, read)
                       ELSE WriteFinding(DecideFinding(read, FALSE, Required[l]), read, read)
           IN  /\ read \in Finding
               /\ e.fired[l] \in 0 .. 2
               /\ e.slot[l] # 0 => read.state \in Open
               /\ read.state = "CANDIDATE" => read.cycles <= fires[l]
               /\ read.state = "RECOVERING" => quiet[l] >= 1
               /\ \/ e.fired[l] = 0 /\ e.slot[l] = 0 /\ finding'[l] = finding[l]
                  \/ \E at : /\ finding'[l] = [finding[l] EXCEPT ![at] = row]
                             /\ e.fired[l] > 0 \/ e.slot[l] # 0
                             /\ at \in Slots => finding[l][at].state =
                                    IF e.slot[l] = 0 THEN "RESOLVED" ELSE read.state
                             /\ \A s \in Slots \ {at} : finding[l][s].state = "RESOLVED"
<1> DEFINE e == evaluation["worker"]
           read == IF e.slot[l] = 0 THEN NoFinding ELSE e.read[l]
           row == IF e.fired[l] > 0 THEN Applied(l, e.fired[l], read, read)
                  ELSE WriteFinding(DecideFinding(read, FALSE, Required[l]), read, read)
<1>1. /\ e \in Evaluation
      /\ finding[l] \in [Slots -> Finding]
      /\ OneOpen(finding[l])
      /\ \A s \in Slots : finding[l][s].state \in Open \/ finding[l][s].state = "RESOLVED"
  BY DEF LifeInv, OneOpenEach, FindingTypeOK, Evaluation, Evaluators, Finding
<1>2. /\ e.busy
      /\ e.slot[l] = OpenSlot(l)
      /\ e.slot[l] # 0 => e.read[l] = finding[l][e.slot[l]]
  BY DEF LifeInv, ReadIsTrue, CommitFindings, Ends
<1>3. finding'[l] = IF OneOpen(Outcome(l, e)) THEN Outcome(l, e) ELSE finding[l]
  BY DEF CommitFindings
<1>4. /\ e.slot[l] = 0 => \A s \in Slots : finding[l][s].state \notin Open
      /\ e.slot[l] # 0 => /\ e.slot[l] \in Slots
                          /\ finding[l][e.slot[l]].state \in Open
                          /\ \A s \in Slots \ {e.slot[l]} : finding[l][s].state \notin Open
  BY <1>1, <1>2, OpenSlotIs DEF LifeInv
<1>5. read \in Finding /\ e.fired[l] \in 0 .. 2 /\ (e.slot[l] # 0 => read.state \in Open)
  BY <1>1, <1>2, <1>4, NoFindingType DEF Evaluation
<1>6. /\ read.state = "CANDIDATE" => read.cycles <= fires[l]
      /\ read.state = "RECOVERING" => quiet[l] >= 1
  BY <1>2, <1>4, NoFindingType DEF LifeInv, Lifecycles
<1>7. row \in Finding
  BY <1>5, AppliedType, WriteFindingType
<1>8. \/ e.fired[l] = 0 /\ e.slot[l] = 0 /\ Outcome(l, e) = finding[l]
      \/ \E at : /\ Outcome(l, e) = [finding[l] EXCEPT ![at] = row]
                 /\ e.fired[l] > 0 \/ e.slot[l] # 0
                 /\ at \in Slots => finding[l][at].state =
                        IF e.slot[l] = 0 THEN "RESOLVED" ELSE read.state
                 /\ \A s \in Slots \ {at} : finding[l][s].state = "RESOLVED"
  <2>1. CASE e.slot[l] # 0
    <3>1. finding[l][e.slot[l]] = read
      BY <1>2, <2>1
    <3>2. Outcome(l, e) = [finding[l] EXCEPT ![e.slot[l]] = row]
      BY <1>5, <2>1, <3>1 DEF Outcome, Fired, NotFired
    <3> QED BY <1>1, <1>4, <2>1, <3>1, <3>2
  <2>2. CASE e.slot[l] = 0 /\ e.fired[l] > 0
    <3> DEFINE new == Min(FreeSlots(l))
    <3>1. Outcome(l, e) = [finding[l] EXCEPT
                             ![new] = Applied(l, e.fired[l], NoFinding, finding[l][new])]
      BY <1>2, <2>2 DEF Outcome, Fired
    <3>2. Applied(l, e.fired[l], NoFinding, finding[l][new]) = row
      <4>1. e.fired[l] \in 1 .. 2
        BY <1>5, <2>2
      <4>2. row = Applied(l, e.fired[l], NoFinding, NoFinding)
        BY <2>2
      <4> HIDE DEF e, row, new
      <4> QED BY <4>1, <4>2, FiringsOfNew
    <3> HIDE DEF new
    <3> QED BY <1>1, <1>4, <2>2, <3>1, <3>2
  <2>3. CASE e.slot[l] = 0 /\ e.fired[l] = 0
    BY <2>3 DEF Outcome, NotFired
  <2> HIDE DEF e, read, row
  <2>4. e.fired[l] = 0 \/ e.fired[l] > 0
    BY <1>5
  <2> QED BY <2>1, <2>2, <2>3, <2>4
<1>9. OneOpen(Outcome(l, e))
  <2>1. CASE Outcome(l, e) = finding[l]
    BY <1>1, <2>1
  <2>2. ASSUME NEW at, Outcome(l, e) = [finding[l] EXCEPT ![at] = row],
               \A s \in Slots \ {at} : finding[l][s].state = "RESOLVED"
        PROVE  OneOpen(Outcome(l, e))
    <3> HIDE DEF row
    <3>1. \A s \in Slots \ {at} : finding[l][s].state \notin Open
      BY <2>2 DEF Open
    <3>2. OneOpen([finding[l] EXCEPT ![at] = row])
      BY <1>1, <1>7, <3>1, OneRowWritten
    <3> QED BY <2>2, <3>2
  <2> HIDE DEF row
  <2> QED BY <1>8, <2>1, <2>2
<1> HIDE DEF e, read, row
<1>10. QED BY <1>3, <1>5, <1>6, <1>8, <1>9 DEF e, read, row

LEMMA CommitCounts ==
    ASSUME LifeInv, Undisturbed', CommitFindings("worker", {}), NEW l \in Tracked
    PROVE  LET e == evaluation["worker"]
           IN  /\ e.fired[l] > 0 => /\ fires'[l] \in {fires[l] + e.fired[l], Required[l]}
                                    /\ fires'[l] <= fires[l] + e.fired[l]
               /\ e.fired[l] = 0 => /\ fires'[l] = 0
                                    /\ quiet'[l] = IF quiet[l] >= 1 THEN 2 ELSE 1
<1> DEFINE e == evaluation["worker"]
           sum == fires[l] + e.fired[l]
           next == quiet[l] + 1
<1>1. sum \in Nat /\ Required[l] \in Nat /\ quiet[l] \in 0 .. 2 /\ next \in 1 .. 3
      /\ e.fired[l] \in 0 .. 2
  BY FindingAssumption DEF LifeInv, FindingTypeOK, Evaluators
<1>2. /\ fires'[l] = IF e.fired[l] = 0 THEN 0 ELSE Min({sum, Required[l]})
      /\ quiet'[l] = IF e.fired[l] > 0 THEN 0 ELSE Min({next, 2})
  BY DEF CommitFindings, Observe
<1>3. next = quiet[l] + 1
  OBVIOUS
<1> HIDE DEF sum, next
<1>4. Min({sum, Required[l]}) \in {sum, Required[l]} /\ Min({sum, Required[l]}) <= sum
  BY <1>1, MinOfTwo
<1>5. Min({next, 2}) \in {next, 2} /\ Min({next, 2}) <= next /\ Min({next, 2}) <= 2
  <2>1. next \in Int /\ 2 \in Int
    BY <1>1
  <2> QED BY <2>1, MinOfTwo, Zenon
<1>6. e.fired[l] > 0 => fires'[l] \in {sum, Required[l]} /\ fires'[l] <= sum
  BY <1>1, <1>2, <1>4
<1>7. e.fired[l] = 0 => fires'[l] = 0 /\ quiet'[l] = IF quiet[l] >= 1 THEN 2 ELSE 1
  BY <1>1, <1>2, <1>3, <1>5
<1> QED BY <1>6, <1>7 DEF sum

\* A commit of the worker moves each row as its lineage fired, and the counts say so
LEMMA CommitLifecycle ==
    ASSUME LifeInv, Undisturbed, Undisturbed', CommitFindings("worker", {}),
           NEW l \in Tracked, NEW s \in Slots
    PROVE  LET old == finding[l][s].state
               new == finding'[l][s].state
           IN  /\ new = "CANDIDATE" => finding'[l][s].cycles <= fires'[l]
               /\ new = "ACTIVE" => fires'[l] >= 1
               /\ new = "RECOVERING" => quiet'[l] >= 1
               /\ new = "ACTIVE" /\ old \notin {"ACTIVE", "RECOVERING"} =>
                     fires'[l] >= Required[l]
               /\ new = "RESOLVED" /\ old \in {"ACTIVE", "RECOVERING"} => quiet'[l] = 2
<1> DEFINE e == evaluation["worker"]
           n == e.fired[l]
           read == IF e.slot[l] = 0 THEN NoFinding ELSE e.read[l]
           row == IF n > 0 THEN Applied(l, n, read, read)
                  ELSE WriteFinding(DecideFinding(read, FALSE, Required[l]), read, read)
           base == IF read.state = "CANDIDATE" THEN read.cycles ELSE 0
           unchanged == n = 0 /\ e.slot[l] = 0 /\ finding'[l] = finding[l]
           written(at) == /\ finding'[l] = [finding[l] EXCEPT ![at] = row]
                          /\ n > 0 \/ e.slot[l] # 0
                          /\ at \in Slots => finding[l][at].state =
                                IF e.slot[l] = 0 THEN "RESOLVED" ELSE read.state
                          /\ \A r \in Slots \ {at} : finding[l][r].state = "RESOLVED"
<1>1. /\ read \in Finding
      /\ n \in 0 .. 2
      /\ e.slot[l] # 0 => read.state \in Open
      /\ read.state = "CANDIDATE" => read.cycles <= fires[l]
      /\ read.state = "RECOVERING" => quiet[l] >= 1
      /\ unchanged \/ \E at : written(at)
  BY CommitRows
<1>2. /\ fires[l] \in Nat /\ Required[l] \in Nat \ {0} /\ base \in Nat /\ base <= fires[l]
      /\ finding[l] \in [Slots -> Finding]
  BY <1>1, FindingAssumption DEF LifeInv, FindingTypeOK, Finding
<1>3. /\ n > 0 => fires'[l] \in {fires[l] + n, Required[l]} /\ fires'[l] <= fires[l] + n
      /\ n = 0 => fires'[l] = 0 /\ quiet'[l] = IF quiet[l] >= 1 THEN 2 ELSE 1
  BY CommitCounts
<1>4. n > 0 => /\ row.state \in {"CANDIDATE", "ACTIVE"}
               /\ row.state = "CANDIDATE" => row.cycles <= base + n /\ row.cycles <= Required[l]
               /\ row.state = "ACTIVE" /\ read.state \notin {"ACTIVE", "RECOVERING"} =>
                     base + n >= Required[l]
  <2>1. CASE n > 0
    <3>1. row = Applied(l, n, read, read)
      BY <2>1
    <3> HIDE DEF row, n, read
    <3>2. n \in 1 .. 2
      BY <1>1, <2>1
    <3> QED BY <1>1, <3>1, <3>2, FiringsOfRow
  <2> QED BY <2>1
<1>5. n = 0 /\ e.slot[l] # 0 =>
         row.state = IF read.state = "ACTIVE" THEN "RECOVERING" ELSE "RESOLVED"
  <2>1. CASE n = 0 /\ e.slot[l] # 0
    <3>1. read.state \in Open /\ row = WriteFinding(DecideFinding(read, FALSE, Required[l]), read, read)
      BY <1>1, <2>1
    <3> HIDE DEF row, n, read
    <3> QED BY <1>1, <3>1, RowNotFiring
  <2> QED BY <2>1
<1>6. e.slot[l] = 0 => read.state = "RESOLVED"
  BY NoFindingType
<1>7. unchanged => finding[l][s].state = "RESOLVED" /\ finding'[l][s].state = "RESOLVED"
  <2>1. CASE unchanged
    <3>1. OpenSlot(l) = 0
      BY <2>1 DEF LifeInv, ReadIsTrue, CommitFindings, Ends
    <3>2. finding[l][s].state \notin Open
      BY <3>1, OpenSlotIs DEF LifeInv, OneOpenEach
    <3> QED BY <1>2, <2>1, <3>2 DEF Finding
  <2> QED BY <2>1
<1>8. CASE unchanged
  BY <1>7, <1>8
<1>9. ASSUME NEW at, written(at)
       PROVE  LET old == finding[l][s].state
                  new == finding'[l][s].state
              IN  /\ new = "CANDIDATE" => finding'[l][s].cycles <= fires'[l]
                  /\ new = "ACTIVE" => fires'[l] >= 1
                  /\ new = "RECOVERING" => quiet'[l] >= 1
                  /\ new = "ACTIVE" /\ old \notin {"ACTIVE", "RECOVERING"} =>
                        fires'[l] >= Required[l]
                  /\ new = "RESOLVED" /\ old \in {"ACTIVE", "RECOVERING"} => quiet'[l] = 2
  <2>1. CASE s # at
    <3>1. finding[l][s].state = "RESOLVED" /\ finding'[l][s].state = "RESOLVED"
      BY <1>2, <1>9, <2>1
    <3> QED BY <3>1
  <2>2. CASE s = at
    <3>1. finding'[l][s] = row /\ finding[l][s].state = read.state /\ (n > 0 \/ e.slot[l] # 0)
      BY <1>2, <1>6, <1>9, <2>2
    <3>2. row \in Finding
      BY <1>1, AppliedType, WriteFindingType
    <3> HIDE DEF row, read, n, e, base
    <3>3. row.cycles \in Nat
      BY <3>2 DEF Finding
    <3>4. CASE n > 0
      BY <1>1, <1>2, <1>3, <1>4, <3>1, <3>3, <3>4
    <3>5. CASE n = 0
      BY <1>1, <1>3, <1>5, <3>1, <3>5 DEF Open
    <3> QED BY <1>1, <3>4, <3>5
  <2> QED BY <2>1, <2>2
<1> QED BY <1>1, <1>8, <1>9

\* While nothing disturbs the worker, only its own commits write
LEMMA OnlyWorkerCommits ==
    ASSUME LifeInv, Undisturbed', NEW w \in Evaluators, NEW lost \in SUBSET Tracked,
           CommitFindings(w, lost)
    PROVE  Undisturbed /\ w = "worker" /\ lost = {}
<1>1. Undisturbed /\ lost = {}
  BY DEF CommitFindings, Undisturbed
<1>2. w # "reprocess"
  BY <1>1 DEF LifeInv, CommitFindings, Ends
<1> QED BY <1>1, <1>2 DEF Evaluators

LEMMA LifeInvInit == FindingInit => LifeInv
<1> SUFFICES ASSUME FindingInit PROVE LifeInv
  OBVIOUS
<1>1. ~evaluation["reprocess"].busy /\ ~evaluation["worker"].busy
  BY DEF FindingInit, NoEvaluation, Evaluators
<1>2. Lifecycles /\ Apart(fires)
  BY NoFindingType DEF FindingInit, Lifecycles, Apart
<1> QED BY <1>1, <1>2, FindingTypeInit DEF LifeInv, ReadIsTrue

LEMMA LifeInvStep ==
    ASSUME LifeInv, [FindingNext]_findingVars
    PROVE  LifeInv'
<1> SUFFICES ASSUME Undisturbed'
             PROVE  /\ ~evaluation'["reprocess"].busy
                    /\ ReadIsTrue'
                    /\ Lifecycles'
                    /\ Apart(fires')
  BY FindingTypeStep DEF LifeInv, Apart
<1>1. evaluation \in [Evaluators -> Evaluation]
  BY DEF LifeInv, FindingTypeOK, Evaluation
<1>2. CASE WorkerBegins
  <2> DEFINE e == [busy |-> TRUE, undone |-> FALSE, fired |-> Candidates[deviating][trusted],
                   slot |-> [l \in Tracked |-> OpenSlot(l)],
                   read |-> [l \in Tracked |-> IF OpenSlot(l) = 0 THEN NoFinding
                                               ELSE finding[l][OpenSlot(l)]]]
  <2>1. /\ evaluation' = [evaluation EXCEPT !["worker"] = e]
        /\ UNCHANGED <<finding, deviating, trusted, mishaps, fires, quiet, reprocesses>>
    BY <1>2 DEF WorkerBegins, Begin
  <2>2. Undisturbed
    BY <2>1 DEF Undisturbed
  <2>3. evaluation'["worker"] = e /\ evaluation'["reprocess"] = evaluation["reprocess"]
    BY <1>1, <2>1 DEF Evaluators
  <2>4. \A l \in Tracked : OpenSlot(l)' = OpenSlot(l)
    BY <2>1 DEF OpenSlot
  <2>5. Apart(e.fired)
    BY CandidatesApart DEF LifeInv, FindingTypeOK
  <2>6. ReadIsTrue'
    BY <2>1, <2>3, <2>4, <2>5 DEF ReadIsTrue, Apart
  <2>7. Lifecycles' /\ Apart(fires')
    BY <2>1, <2>2 DEF LifeInv, Lifecycles, Apart
  <2> QED BY <2>2, <2>3, <2>6, <2>7 DEF LifeInv
<1>3. CASE ReprocessBegins
  BY <1>3 DEF ReprocessBegins, Undisturbed, LifeInv, FindingTypeOK
<1>4. ASSUME NEW w \in Evaluators, NEW lost \in SUBSET Tracked, CommitFindings(w, lost)
      PROVE  /\ ~evaluation'["reprocess"].busy
             /\ ReadIsTrue'
             /\ Lifecycles'
             /\ Apart(fires')
  <2>1. Undisturbed /\ CommitFindings("worker", {})
    BY <1>4, OnlyWorkerCommits
  <2>2. ~evaluation'["worker"].busy /\ evaluation'["reprocess"] = evaluation["reprocess"]
    BY <1>1, <2>1 DEF CommitFindings, Ends, NoEvaluation, Evaluators
  <2>3. Lifecycles'
    BY <2>1, CommitLifecycle DEF Lifecycles
  <2>4. Apart(fires')
    <3>1. Apart(evaluation["worker"].fired)
      BY <2>1 DEF LifeInv, ReadIsTrue, CommitFindings, Ends
    <3>2. \A l \in Tracked : evaluation["worker"].fired[l] = 0 => fires'[l] = 0
      BY <2>1, CommitCounts
    <3> QED BY <3>1, <3>2 DEF Apart
  <2> QED BY <2>1, <2>2, <2>3, <2>4 DEF ReadIsTrue, LifeInv
<1>5. ASSUME NEW w \in Evaluators, EvaluationFails(w)
      PROVE  /\ ~evaluation'["reprocess"].busy
             /\ ReadIsTrue'
             /\ Lifecycles'
             /\ Apart(fires')
  <2>1. Undisturbed /\ UNCHANGED <<finding, fires, quiet>>
    BY <1>5 DEF EvaluationFails, Undisturbed
  <2>2. w = "worker"
    BY <1>5, <2>1 DEF EvaluationFails, Ends, Evaluators, LifeInv
  <2>3. ~evaluation'["worker"].busy /\ evaluation'["reprocess"] = evaluation["reprocess"]
    BY <1>1, <1>5, <2>2 DEF EvaluationFails, Ends, NoEvaluation, Evaluators
  <2> QED BY <2>1, <2>3 DEF LifeInv, ReadIsTrue, Lifecycles, Apart
<1>6. CASE MachineChanges \/ UNCHANGED findingVars
  <2>1. Undisturbed /\ UNCHANGED <<finding, evaluation, fires, quiet>>
    BY <1>6 DEF MachineChanges, findingVars, Undisturbed
  <2>2. \A l \in Tracked : OpenSlot(l)' = OpenSlot(l)
    BY <2>1 DEF OpenSlot
  <2> QED BY <2>1, <2>2 DEF LifeInv, ReadIsTrue, Lifecycles, Apart
<1> QED BY <1>2, <1>3, <1>4, <1>5, <1>6 DEF FindingNext

LEMMA LifeInvariant == FindingSpec => []LifeInv
BY LifeInvInit, LifeInvStep, PTL DEF FindingSpec

\* Restriction and leakage, which contradict each other, are never ACTIVE together as
\* long as only the worker evaluates and no savepoint is lost (NoContradiction).
THEOREM NeverContradicts == FindingSpec => []NoContradiction
<1>1. LifeInv => NoContradiction
  <2> SUFFICES ASSUME LifeInv, Undisturbed, {Restriction, Leakage} \subseteq Tracked,
                      Active(Restriction), Active(Leakage)
               PROVE  FALSE
    BY DEF NoContradiction
  <2>1. fires[Restriction] >= 1 /\ fires[Leakage] >= 1
    BY DEF Active, LifeInv, Lifecycles
  <2> QED BY <2>1 DEF LifeInv, Apart
<1> QED BY <1>1, LifeInvariant, PTL

\* A finding becomes ACTIVE only after the firings its policy asks for, and one that
\* was ACTIVE or RECOVERING is resolved only after two cycles without any.
LEMMA Debounced ==
    ASSUME LifeInv, [FindingNext]_findingVars, Undisturbed', NEW l \in Tracked, NEW s \in Slots
    PROVE  LET old == finding[l][s].state
               new == finding'[l][s].state
           IN  /\ new = "ACTIVE" /\ old \notin {"ACTIVE", "RECOVERING"}
                      => fires'[l] >= Required[l]
               /\ new = "RESOLVED" /\ old \in {"ACTIVE", "RECOVERING"} => quiet'[l] = 2
<1>1. CASE finding' = finding
  BY <1>1
<1>2. ASSUME NEW w \in Evaluators, NEW lost \in SUBSET Tracked, CommitFindings(w, lost)
      PROVE  Undisturbed /\ CommitFindings("worker", {})
  BY <1>2, OnlyWorkerCommits
<1>3. CASE Undisturbed /\ CommitFindings("worker", {})
  BY <1>3, CommitLifecycle
<1>4. \/ finding' = finding
      \/ \E w \in Evaluators, lost \in SUBSET Tracked : CommitFindings(w, lost)
  BY DEF FindingNext, WorkerBegins, ReprocessBegins, Begin, EvaluationFails, MachineChanges,
         findingVars
<1> QED BY <1>1, <1>2, <1>3, <1>4

\* However the signals alternate and the evaluations fail, no finding is ACTIVE sooner
\* and none is resolved sooner than its policy says (FindingsDebounced).
THEOREM FindingsStayDebounced == FindingSpec => FindingsDebounced
<1>1. LifeInv /\ [FindingNext]_findingVars =>
        [Undisturbed' =>
           \A l \in Tracked, s \in Slots :
              LET old == finding[l][s].state
                  new == finding'[l][s].state
              IN  /\ new = "ACTIVE" /\ old \notin {"ACTIVE", "RECOVERING"}
                         => fires'[l] >= Required[l]
                  /\ new = "RESOLVED" /\ old \in {"ACTIVE", "RECOVERING"} => quiet'[l] = 2
        ]_findingVars
  BY Debounced
<1> QED BY <1>1, LifeInvariant, PTL DEF FindingSpec, FindingsDebounced
=============================================================================
