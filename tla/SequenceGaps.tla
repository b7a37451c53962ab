----------------------------- MODULE SequenceGaps -----------------------------
(***************************************************************************)
(* The context that the data quality rules of a single event keep for one  *)
(* sensor (data_quality/services/quality_engine.py): the time of the newest *)
(* reading seen and the sequence number expected next, from which the rule *)
(* sequence_gap tells that readings are missing.  The worker assesses the  *)
(* telemetry topic, on which readings are lost, repeated and out of order; *)
(* the reprocess command assesses stored readings again, in a transaction  *)
(* of its own, from the same row.                                          *)
(*                                                                         *)
(* The source clock need not follow the numbers: the edge counts on after  *)
(* a restart (sequence_state), but its source then starts at the time of   *)
(* day again, behind the simulated time that it had run ahead.             *)
(*                                                                         *)
(* The other rules judge a reading and change nothing that this one reads. *)
(***************************************************************************)
EXTENDS Integers, Sequences, SequencesExt, FiniteSetsExt

CONSTANTS
    Numbers,         \* the sequence numbers that the gateway gives the sensor
    SourceTime,      \* the source_timestamp of each, in any order
    EventBatch,      \* pipeline_batch_size
    MaxDeliveries,   \* bound: records on the topic
    MaxReruns,       \* bound: runs of the reprocess command
    MaxFaults        \* bound: errors and restarts

ASSUME GapAssumption ==
    /\ Numbers \subseteq Nat
    /\ SourceTime \in [Numbers -> Nat \ {0}]
    /\ EventBatch \in Nat \ {0}
    /\ MaxDeliveries \in Nat
    /\ MaxReruns \in Nat
    /\ MaxFaults \in Nat

VARIABLES
    deliveries,    \* the sensor's records on the topic, by sequence number
    position,      \* the committed offset
    context,       \* the sensor's row of sensor_quality_state
    gaps,          \* quality_issue: the sequence gaps
    run,           \* the transaction of the worker and of the reprocess command
    reruns,        \* how often the command was run
    faults,        \* errors and restarts so far
    processed,     \* history: the numbers whose assessment was committed
    overlapped     \* history: a row was written from a context no longer true

gapVars == <<deliveries, position, context, gaps, run, reruns, faults, processed,
             overlapped>>

Runs == {"worker", "reprocess"}
None == 0

\* last_source_timestamp_seen and expected_next_sequence, None for NULL; first is
\* history: the number from which the sensor has been followed
NoContext == [seen |-> None, expected |-> None, first |-> None]

\* read is the context as the event was begun with; row, what the transaction has
\* made of the context, which holds once it has written it and so locked the row
NoRun == [pc |-> "idle", upto |-> 0, todo |-> <<>>, read |-> NoContext, locked |-> FALSE,
          row |-> NoContext, gaps |-> {}, done |-> {}]

Context == [seen : Nat, expected : Nat, first : Nat]
Gap == [event : Numbers, missing : SUBSET Nat]

GapTypeOK ==
    /\ deliveries \in Seq(Numbers)
    /\ position \in 0 .. Len(deliveries)
    /\ context \in Context
    /\ gaps \in SUBSET Gap
    /\ run \in [Runs -> [pc : {"idle", "open", "read", "stored"}, upto : Nat,
                         todo : Seq(Numbers), read : Context, locked : BOOLEAN,
                         row : Context, gaps : SUBSET Gap, done : SUBSET Numbers]]
    /\ reruns \in 0 .. MaxReruns
    /\ faults \in 0 .. MaxFaults
    /\ processed \in SUBSET Numbers
    /\ overlapped \in BOOLEAN

GapInit ==
    /\ deliveries = <<>>
    /\ position = 0
    /\ context = NoContext
    /\ gaps = {}
    /\ run = [r \in Runs |-> NoRun]
    /\ reruns = 0
    /\ faults = 0
    /\ processed = {}
    /\ overlapped = FALSE

OneMoreFault == faults < MaxFaults /\ faults' = faults + 1

\* What a transaction sees: its own writes, or else what is committed now
Seen(r) == IF run[r].locked THEN run[r].row ELSE context

LockedByOther(r) == \E other \in Runs \ {r} : run[other].locked

-----------------------------------------------------------------------------
(* The rule and the update of the context. *)

\* check_sequence_gap: the numbers between the one expected and that of the event
MissingBefore(ctx, n) ==
    IF ctx.expected = None THEN {} ELSE ctx.expected .. n - 1

\* create_event_issue, ON CONFLICT DO NOTHING on the rule and the event
NewGaps(r, n) ==
    LET missing == MissingBefore(run[r].read, n)
        noted   == \E g \in gaps \cup run[r].gaps : g.event = n
    IN  IF missing = {} \/ noted THEN {} ELSE {[event |-> n, missing |-> missing]}

IsLatest(ctx, n) == ctx.seen = None \/ SourceTime[n] >= ctx.seen

\* mutant: every newest reading sets the number expected next
ExpectsAfterNewest(ctx, n) == IsLatest(ctx, n)

\* the number is only ever counted up
Expects(ctx, n) ==
    /\ IsLatest(ctx, n)
    /\ ctx.expected = None \/ n >= ctx.expected

\* upsert: of the row as it is now, only the fields decided on are set
Updated(row, ctx, n) ==
    [seen     |-> IF IsLatest(ctx, n) THEN SourceTime[n] ELSE row.seen,
     expected |-> IF Expects(ctx, n) THEN n + 1 ELSE row.expected,
     first    |-> IF ctx.expected = None THEN n ELSE row.first]

-----------------------------------------------------------------------------
(* The topic and the two transactions. *)

\* The gateway numbers its readings; the way to the topic loses, repeats and
\* reorders them.
Delivered ==
    /\ Len(deliveries) < MaxDeliveries
    /\ \E n \in Numbers : deliveries' = Append(deliveries, n)
    /\ UNCHANGED <<position, context, gaps, run, reruns, faults, processed, overlapped>>

\* the records of the worker's batch, up to one of them
Batch(upto) == [NoRun EXCEPT !.pc = "open", !.upto = upto,
                             !.todo = SubSeq(deliveries, position + 1, upto)]

WorkerFetches ==
    /\ run["worker"].pc = "idle"
    /\ position < Len(deliveries)
    /\ run' = [run EXCEPT !["worker"] = Batch(Min({Len(deliveries), position + EventBatch}))]
    /\ UNCHANGED <<deliveries, position, context, gaps, reruns, faults, processed,
                   overlapped>>

\* reprocess: the stored readings of a range of time, oldest first
RerunBegins ==
    /\ run["reprocess"].pc = "idle"
    /\ reruns < MaxReruns
    /\ reruns' = reruns + 1
    /\ \E from, to \in Range(deliveries) :
          LET rows == {n \in Range(deliveries) :
                          SourceTime[from] <= SourceTime[n] /\ SourceTime[n] <= SourceTime[to]}
          IN  \E order \in SetToSeqs(rows) :
                /\ order # <<>>
                /\ \A i, j \in DOMAIN order :
                      i < j => SourceTime[order[i]] <= SourceTime[order[j]]
                /\ run' = [run EXCEPT !["reprocess"] =
                                         [NoRun EXCEPT !.pc = "open", !.todo = order]]
    /\ UNCHANGED <<deliveries, position, context, gaps, faults, processed, overlapped>>

\* process_event: get_context
ReadContext(r) ==
    /\ run[r].pc = "open"
    /\ run[r].todo # <<>>
    /\ run' = [run EXCEPT ![r].pc = "read", ![r].read = Seen(r)]
    /\ UNCHANGED <<deliveries, position, context, gaps, reruns, faults, processed,
                   overlapped>>

\* the rest of process_event; the upsert waits for a transaction that holds the row
WriteContext(r) ==
    LET n == Head(run[r].todo)
    IN  /\ run[r].pc = "read"
        /\ ~LockedByOther(r)
        /\ run' = [run EXCEPT ![r].pc = "open", ![r].todo = Tail(@), ![r].locked = TRUE,
                              ![r].row = Updated(Seen(r), run[r].read, n),
                              ![r].gaps = @ \cup NewGaps(r, n), ![r].done = @ \cup {n}]
        /\ overlapped' = (overlapped \/ Seen(r) # run[r].read)
        /\ UNCHANGED <<deliveries, position, context, gaps, reruns, faults, processed>>

\* an exception in the savepoint of an event: the worker goes on with the next
EventSkipped ==
    /\ run["worker"].pc = "read"
    /\ OneMoreFault
    /\ run' = [run EXCEPT !["worker"].pc = "open", !["worker"].todo = Tail(@)]
    /\ UNCHANGED <<deliveries, position, context, gaps, reruns, processed, overlapped>>

\* session.commit()
RunCommits(r) ==
    /\ run[r].pc = "open"
    /\ run[r].todo = <<>>
    /\ context' = Seen(r)
    /\ gaps' = gaps \cup run[r].gaps
    /\ processed' = processed \cup run[r].done
    /\ run' = [run EXCEPT ![r] = IF r = "worker"
                                 THEN [NoRun EXCEPT !.pc = "stored", !.upto = run[r].upto]
                                 ELSE NoRun]
    /\ UNCHANGED <<deliveries, position, reruns, faults, overlapped>>

\* consumer.commit()
PositionCommitted ==
    /\ run["worker"].pc = "stored"
    /\ position' = run["worker"].upto
    /\ run' = [run EXCEPT !["worker"] = NoRun]
    /\ UNCHANGED <<deliveries, context, gaps, reruns, faults, processed, overlapped>>

\* an error of the worker's transaction, its commit or the offset commit: the same
\* records again
BatchRetried ==
    /\ run["worker"].pc # "idle"
    /\ OneMoreFault
    /\ run' = [run EXCEPT !["worker"] = Batch(run["worker"].upto)]
    /\ UNCHANGED <<deliveries, position, context, gaps, reruns, processed, overlapped>>

\* the worker restarts, or the command fails or is killed
RunLost(r) ==
    /\ run[r].pc # "idle"
    /\ OneMoreFault
    /\ run' = [run EXCEPT ![r] = NoRun]
    /\ UNCHANGED <<deliveries, position, context, gaps, reruns, processed, overlapped>>

GapNext ==
    \/ Delivered
    \/ WorkerFetches
    \/ RerunBegins
    \/ PositionCommitted
    \/ EventSkipped
    \/ BatchRetried
    \/ \E r \in Runs : ReadContext(r) \/ WriteContext(r) \/ RunCommits(r) \/ RunLost(r)

GapSpec == GapInit /\ [][GapNext]_gapVars

-----------------------------------------------------------------------------
(* Properties. *)

Named(n) == \E g \in gaps : n \in g.missing

\* Every number below the one expected next, from the first that was seen, was
\* assessed or is named by a gap: no reading is lost without a trace, whatever is
\* reordered, repeated, skipped, retried or assessed again, and wherever the source
\* clock goes.  And no number that was assessed is still to come, except one whose
\* reading is older than the newest: after a reading from the future the context
\* does not follow the numbers.  Only a context that was written after another
\* transaction had changed it may undo this.
NumbersAccounted ==
    ~overlapped =>
        /\ \A n \in processed : n < context.expected \/ SourceTime[n] < context.seen
        /\ \A n \in Numbers : context.first <= n /\ n < context.expected =>
              n \in processed \/ Named(n)

\* A gap names a number that was assessed when it was found only if that reading is
\* older than the newest: where the source clock has gone back, every reading is told
\* as a gap over all since then, though check_sequence_gap "only fires on a forward
\* jump" (completeness.py:49).  While the clock goes forward, gaps are real.
GapsAreReal ==
    [][~overlapped' =>
        \A r \in Runs : \A g \in run'[r].gaps \ run[r].gaps :
            \A n \in g.missing \cap (processed \cup run[r].done) :
                SourceTime[n] < Seen(r).seen]_gapVars
=============================================================================
