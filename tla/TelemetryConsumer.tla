-------------------------- MODULE TelemetryConsumer --------------------------
(***************************************************************************)
(* The Kafka -> TimescaleDB consumer (backend/app/pipeline/consumer.py)    *)
(* with the repositories it writes through: a loop per topic that reads a  *)
(* batch, writes it in one transaction and only then commits the offsets,  *)
(* and that keeps a batch until both have worked.                          *)
(***************************************************************************)
EXTENDS Integers, FiniteSets, Sequences

CONSTANTS
    Sensors,
    MaxSeq,       \* bound: events per sensor
    Malformed,    \* events SchemaValidator rejects
    BatchSize,    \* pipeline_batch_size
    MaxFaults     \* bound: lost replies of the database and of Kafka, restarts

Event == Sensors \X (1 .. MaxSeq)
Topics == {"telemetry", "dlq"}

VARIABLES
    log,          \* the topics, one partition each
    committed,    \* per topic: records below the group's committed offset
    position,     \* per topic: records handed to the loop by getmany
    start,        \* per topic: position before the batch in hand
    phase,        \* per topic: what the loop does with the batch
    telemetry,    \* events with a row in `telemetry`
    quarantine,   \* events with rows in `telemetry_quarantine`
    faults

databaseVars == <<telemetry, quarantine>>
loopVars     == <<committed, position, start, phase>>
consumerVars == <<loopVars, databaseVars, faults>>

TypeOK ==
    /\ log \in [Topics -> Seq(Event)]
    /\ committed \in [Topics -> Nat]
    /\ {position, start} \subseteq [Topics -> Nat]
    /\ phase \in [Topics -> {"fetching", "persisting", "committing"}]
    /\ telemetry \subseteq Event
    /\ quarantine \subseteq Event
    /\ faults \in 0 .. MaxFaults

ConsumerInit ==
    /\ committed = [t \in Topics |-> 0]
    /\ position = [t \in Topics |-> 0]
    /\ start = [t \in Topics |-> 0]
    /\ phase = [t \in Topics |-> "fetching"]
    /\ telemetry = {}
    /\ quarantine = {}
    /\ faults = 0

Fault == faults < MaxFaults /\ faults' = faults + 1

-----------------------------------------------------------------------------
(* One batch                                                                *)

Batch(t) == {log[t][i] : i \in start[t] + 1 .. position[t]}

\* validate and enrich: what of the batch becomes a telemetry row, when the
\* asset hierarchy has a place for the sensors in known.  Nothing from the
\* DLQ topic does.
Insertable(t, known) ==
    {e \in Batch(t) : t = "telemetry" /\ e \notin Malformed /\ e[1] \in known}

\* mutant: an event that cannot be placed is only counted
SkipUnplaced(t) ==
    \E known \in SUBSET Sensors :
        /\ telemetry' = telemetry \cup Insertable(t, known)
        /\ quarantine' = quarantine \cup (Batch(t) \cap Malformed)

\* The transaction of _process_main_batch, or of _process_dlq_batch.  A row
\* that is already there stays as it is (ON CONFLICT DO NOTHING).  Tenants,
\* sensors and gateways come and go: each transaction finds its own hierarchy.
Transaction(t) ==
    \E known \in SUBSET Sensors :
        /\ telemetry' = telemetry \cup Insertable(t, known)
        /\ quarantine' = quarantine \cup (Batch(t) \ Insertable(t, known))

\* mutant: enable_auto_commit
FetchAndCommit(t) ==
    /\ phase[t] = "fetching"
    /\ \E n \in position[t] + 1 .. Len(log[t]) :
          /\ n - position[t] <= BatchSize
          /\ position' = [position EXCEPT ![t] = n]
          /\ committed' = [committed EXCEPT ![t] = n]
    /\ start' = [start EXCEPT ![t] = position[t]]
    /\ phase' = [phase EXCEPT ![t] = "persisting"]
    /\ UNCHANGED <<log, databaseVars, faults>>

\* getmany: some of the records not read yet
Fetch(t) ==
    /\ phase[t] = "fetching"
    /\ \E n \in position[t] + 1 .. Len(log[t]) :
          /\ n - position[t] <= BatchSize
          /\ position' = [position EXCEPT ![t] = n]
    /\ start' = [start EXCEPT ![t] = position[t]]
    /\ phase' = [phase EXCEPT ![t] = "persisting"]
    /\ UNCHANGED <<log, committed, databaseVars, faults>>

Persist(t) ==
    /\ phase[t] = "persisting"
    /\ Transaction(t)
    /\ phase' = [phase EXCEPT ![t] = "committing"]
    /\ UNCHANGED <<log, committed, position, start, faults>>

\* The transaction commits and the session raises all the same (the reply is
\* lost): the loop does the batch again.
PersistUnseen(t) ==
    /\ phase[t] = "persisting" /\ Fault
    /\ Transaction(t)
    /\ UNCHANGED <<log, loopVars>>

\* consumer.commit(): the positions of all that was handed out
CommitOffsets(t) ==
    /\ phase[t] = "committing"
    /\ committed' = [committed EXCEPT ![t] = position[t]]
    /\ phase' = [phase EXCEPT ![t] = "fetching"]
    /\ UNCHANGED <<log, position, start, databaseVars, faults>>

\* It raises, with or without effect, inside the same try: the whole batch is
\* done again.
CommitFails(t) ==
    /\ phase[t] = "committing" /\ Fault
    /\ committed' \in {committed, [committed EXCEPT ![t] = position[t]]}
    /\ phase' = [phase EXCEPT ![t] = "persisting"]
    /\ UNCHANGED <<log, position, start, databaseVars>>

\* A crash or a restart: both loops resume from the committed offsets.
Restart ==
    /\ Fault
    /\ position' = committed /\ start' = committed
    /\ phase' = [t \in Topics |-> "fetching"]
    /\ UNCHANGED <<log, committed, databaseVars>>

Loop(t) == Fetch(t) \/ Persist(t) \/ CommitOffsets(t)
Faulty(t) == PersistUnseen(t) \/ CommitFails(t)
ConsumerNext == (\E t \in Topics : Loop(t) \/ Faulty(t)) \/ Restart

-----------------------------------------------------------------------------
(* Properties                                                               *)

Stored(e) == e \in telemetry \cup quarantine

\* The offsets never pass a record that is neither in `telemetry` nor in
\* `telemetry_quarantine`, whatever fails between the two commits.
CommittedIsStored ==
    \A t \in Topics : \A i \in 1 .. committed[t] : Stored(log[t][i])
=============================================================================
