------------------------------ MODULE Baselines ------------------------------
(***************************************************************************)
(* Adaptive baselines: the versions of one lineage (sensor, strategy,      *)
(* context) in table baseline_profile, the contamination control that      *)
(* decides what an evaluation does to them (baselines/services/            *)
(* promotion.py), and the transactions that carry it out                   *)
(* (baselines/services/baseline_engine.py): the periodic worker and the    *)
(* backfill command, which may run beside it.                              *)
(*                                                                         *)
(* Statistics are reduced to a level.  A writer reads the current row and  *)
(* decides, later reads the next version if it creates a row, and later    *)
(* still writes by id and commits.                                         *)
(***************************************************************************)
EXTENDS Integers, FiniteSetsExt

CONSTANTS
    Levels,           \* what the statistics of a window can amount to
    Near,             \* <<new, reference>> within the divergence multiplier
    NoLevel,          \* no statistics, or too few samples
    RequiredCycles,   \* stability_gate.required_stable_cycles
    Firmwares,        \* firmware and controller versions, as one marker
    NoFirmware,       \* telemetry that names none
    MaxVersion,       \* bound: versions of the lineage
    MaxSignals,       \* bound: changes of what the sensor reports
    MaxBackfills      \* bound: runs of the backfill command

ASSUME BaselineAssumption ==
    /\ Near \subseteq Levels \X Levels
    /\ NoLevel \notin Levels
    /\ RequiredCycles \in Nat \ {0}
    /\ NoFirmware \notin Firmwares
    /\ MaxVersion \in Nat
    /\ MaxSignals \in Nat
    /\ MaxBackfills \in Nat

VARIABLES
    profile,    \* the rows of the lineage by version
    refresh,    \* the transaction of each writer
    signal,     \* what the samples of the window and the latest telemetry say
    signals,    \* how often signal has changed
    backfills,  \* backfill runs started
    recent      \* history: the last evaluations, most recent first

baselineVars == <<profile, refresh, signal, signals, backfills, recent>>

Versions == 1 .. MaxVersion
Writers == {"worker", "backfill"}
MaybeLevel == Levels \cup {NoLevel}
MaybeFirmware == Firmwares \cup {NoFirmware}

Terminal == {"SUPERSEDED", "INVALIDATED"}
Anchored == {"ACTIVE", "STALE"}
ProfileStates ==
    {"ABSENT", "INSUFFICIENT_DATA", "BUILDING"} \cup Anchored \cup Terminal

Row == [state : ProfileStates, statistics : MaybeLevel, candidate : MaybeLevel,
        cycles : 0 .. RequiredCycles, firmware : MaybeFirmware]

NewRow(state, statistics, candidate, cycles, firmware) ==
    [state |-> state, statistics |-> statistics, candidate |-> candidate,
     cycles |-> cycles, firmware |-> firmware]

AbsentRow == NewRow("ABSENT", NoLevel, NoLevel, 0, NoFirmware)

Actions == {"FREEZE", "CREATE_INSUFFICIENT", "START_CANDIDATE", "ADVANCE_CANDIDATE",
            "ACTIVATE", "PROMOTE", "REFINE_ACTIVE", "MARK_STALE", "NONE"}

Decision == [action : Actions, cycles : 0 .. RequiredCycles]

\* row: the version read, 0 for none; state: the state read; firmware: the one a
\* new row gets.  invalid: the version a change of firmware invalidates.
\* version: where a new row goes.
Transaction ==
    [pc : {"idle", "decided", "numbered"}, row : 0 .. MaxVersion,
     state : ProfileStates, firmware : MaybeFirmware, level : MaybeLevel,
     invalid : 0 .. MaxVersion, version : 0 .. MaxVersion + 1, decision : Decision]

Idle == [pc |-> "idle", row |-> 0, state |-> "ABSENT", firmware |-> NoFirmware,
         level |-> NoLevel, invalid |-> 0, version |-> 0,
         decision |-> [action |-> "NONE", cycles |-> 0]]

BaselineTypeOK ==
    /\ profile \in [Versions -> Row]
    /\ refresh \in [Writers -> Transaction]
    /\ signal \in [level : MaybeLevel, firmware : MaybeFirmware]
    /\ signals \in 0 .. MaxSignals
    /\ backfills \in 0 .. MaxBackfills
    /\ recent \in [1 .. RequiredCycles -> MaybeLevel]

BaselineInit ==
    /\ profile = [v \in Versions |-> AbsentRow]
    /\ refresh = [w \in Writers |-> Idle]
    /\ signal = [level |-> NoLevel, firmware |-> NoFirmware]
    /\ signals = 0
    /\ backfills = 0
    /\ recent = [i \in 1 .. RequiredCycles |-> NoLevel]

-----------------------------------------------------------------------------
(* The decision. *)

\* mutant: a candidate that moved on counts as stable
AdvanceAnyCandidate(row, level, confirmed) ==
    IF row.candidate = NoLevel
    THEN [action |-> "START_CANDIDATE", cycles |-> 1]
    ELSE IF row.cycles + 1 >= RequiredCycles
    THEN [action |-> confirmed, cycles |-> 0]
    ELSE [action |-> "ADVANCE_CANDIDATE", cycles |-> row.cycles + 1]

\* mutant: a candidate that is near the one before starts over
AlwaysRestart(row, level, confirmed) ==
    [action |-> "START_CANDIDATE", cycles |-> 1]

\* _advance_or_restart: stability is measured against the previous candidate
AdvanceOrRestart(row, level, confirmed) ==
    IF row.candidate = NoLevel \/ <<level, row.candidate>> \notin Near
    THEN [action |-> "START_CANDIDATE", cycles |-> 1]
    ELSE IF row.cycles + 1 >= RequiredCycles
    THEN [action |-> confirmed, cycles |-> 0]
    ELSE [action |-> "ADVANCE_CANDIDATE", cycles |-> row.cycles + 1]

\* decide(); row is AbsentRow when there is no current row
Decide(row, level) ==
    LET exists == row.state # "ABSENT"
        anchored == row.state \in Anchored /\ row.statistics # NoLevel
        Only(action) == [action |-> action, cycles |-> 0]
    IN  CASE level = NoLevel /\ ~exists -> Only("CREATE_INSUFFICIENT")
          [] level = NoLevel /\ exists -> Only("FREEZE")
          [] level # NoLevel /\ ~exists -> [action |-> "START_CANDIDATE", cycles |-> 1]
          [] level # NoLevel /\ exists /\ ~anchored ->
                AdvanceOrRestart(row, level, "ACTIVATE")
          [] level # NoLevel /\ anchored /\ <<level, row.statistics>> \in Near ->
                Only("REFINE_ACTIVE")
          [] level # NoLevel /\ anchored /\ <<level, row.statistics>> \notin Near ->
                AdvanceOrRestart(row, level, "PROMOTE")

\* get_current: the newest row that is in no terminal state, 0 when there is none
CurrentVersion ==
    LET current == {v \in Versions : profile[v].state \notin Terminal \cup {"ABSENT"}}
    IN  IF current = {} THEN 0 ELSE Max(current)

\* _next_version
NextVersion ==
    LET used == {v \in Versions : profile[v].state # "ABSENT"}
    IN  IF used = {} THEN 1 ELSE Max(used) + 1

\* _apply_config_change_check: both markers are known and differ
FirmwareChanged(row, firmware) ==
    /\ row.firmware # NoFirmware
    /\ firmware # NoFirmware
    /\ row.firmware # firmware

-----------------------------------------------------------------------------
(* The transactions. *)

\* refresh_sensor up to the decision; after a change of firmware it goes on
\* as if there were no row
ReadAndDecide(w, level) ==
    LET v   == CurrentVersion
        row == IF v = 0 THEN AbsentRow ELSE profile[v]
        new == FirmwareChanged(row, signal.firmware)
        old == IF new THEN AbsentRow ELSE row
    IN  /\ refresh[w].pc = "idle"
        /\ refresh' = [refresh EXCEPT ![w] =
             [pc |-> "decided", row |-> IF new THEN 0 ELSE v, state |-> old.state,
              firmware |-> IF old = AbsentRow THEN signal.firmware ELSE old.firmware,
              level |-> level,
              invalid |-> IF new /\ row.state \in Anchored THEN v ELSE 0,
              version |-> 0, decision |-> Decide(old, level)]]
        /\ UNCHANGED <<profile, signal, signals, recent>>

WorkerReads ==
    /\ ReadAndDecide("worker", signal.level)
    /\ UNCHANGED backfills

\* the backfill command evaluates another window; the firmware is still that
\* of the latest telemetry
BackfillReads ==
    /\ backfills < MaxBackfills
    /\ backfills' = backfills + 1
    /\ \E level \in MaybeLevel : ReadAndDecide("backfill", level)

\* _sweep_staleness: an ACTIVE row that was not evaluated for too long
SweepReads(v) ==
    /\ refresh["worker"].pc = "idle"
    /\ profile[v].state = "ACTIVE"
    /\ refresh' = [refresh EXCEPT !["worker"] =
         [Idle EXCEPT !.pc = "decided", !.row = v, !.state = "ACTIVE",
                      !.decision.action = "MARK_STALE"]]
    /\ UNCHANGED <<profile, signal, signals, backfills, recent>>

Creates(w) == refresh[w].row = 0

\* the UPDATE that invalidates a row comes before the INSERT and holds its lock
Locked(w, v) ==
    \E o \in Writers \ {w} : refresh[o].pc = "numbered" /\ refresh[o].invalid = v

\* create_initial reads the highest version
ReadNextVersion(w) ==
    /\ refresh[w].pc = "decided"
    /\ Creates(w)
    /\ refresh[w].invalid # 0 => ~Locked(w, refresh[w].invalid)
    /\ refresh' = [refresh EXCEPT ![w].pc = "numbered", ![w].version = NextVersion]
    /\ UNCHANGED <<profile, signal, signals, backfills, recent>>

\* create_initial: the row that CREATE_INSUFFICIENT or START_CANDIDATE inserts
InitialRow(t) ==
    IF t.decision.action = "CREATE_INSUFFICIENT"
    THEN NewRow("INSUFFICIENT_DATA", NoLevel, NoLevel, 0, t.firmware)
    ELSE NewRow("BUILDING", NoLevel, t.level, 1, t.firmware)

\* promote copies the firmware of the row that was read
PromotedRow(t) == NewRow("ACTIVE", t.level, NoLevel, 0, t.firmware)

\* update_in_place, and the part of promote that ends the old row: what is
\* written over the row as it is now, decided on the row as it was read
UpdatedRow(t, row) ==
    CASE t.decision.action = "START_CANDIDATE" ->
            [row EXCEPT !.candidate = t.level, !.cycles = 1,
                        !.state = IF t.state = "INSUFFICIENT_DATA" THEN "BUILDING"
                                  ELSE t.state]
      [] t.decision.action = "ADVANCE_CANDIDATE" ->
            [row EXCEPT !.candidate = t.level, !.cycles = t.decision.cycles]
      [] t.decision.action \in {"ACTIVATE", "REFINE_ACTIVE"} ->
            [row EXCEPT !.state = "ACTIVE", !.statistics = t.level,
                        !.candidate = NoLevel, !.cycles = 0]
      [] t.decision.action = "PROMOTE" -> [row EXCEPT !.state = "SUPERSEDED"]
      [] t.decision.action = "MARK_STALE" -> [row EXCEPT !.state = "STALE"]
      [] OTHER -> row

\* the rows as the transaction leaves them
Written(t) ==
    [v \in Versions |->
        IF v = t.invalid THEN [profile[v] EXCEPT !.state = "INVALIDATED"]
        ELSE IF t.row = 0 /\ v = t.version THEN InitialRow(t)
        ELSE IF t.decision.action = "PROMOTE" /\ v = t.row + 1 THEN PromotedRow(t)
        ELSE IF t.row # 0 /\ v = t.row THEN UpdatedRow(t, profile[v])
        ELSE profile[v]]

\* uq_baseline_profile_active
ActiveIndex(rows) ==
    \A u, v \in Versions : rows[u].state = "ACTIVE" /\ rows[v].state = "ACTIVE" => u = v

\* uq_baseline_profile_version, and the bound on versions
VersionFree(v) == v \in Versions /\ profile[v].state = "ABSENT"

Push(level) ==
    [i \in 1 .. RequiredCycles |-> IF i = 1 THEN level ELSE recent[i - 1]]

\* history: a row begins a new count, an evaluation without statistics is none
Remember(t) ==
    /\ recent' = CASE t.row = 0 ->
                        [i \in 1 .. RequiredCycles |-> IF i = 1 THEN t.level ELSE NoLevel]
                   [] t.row # 0 /\ t.level # NoLevel -> Push(t.level)
                   [] OTHER -> recent

Commit(w) ==
    LET t == refresh[w]
    IN  /\ t.pc = IF Creates(w) THEN "numbered" ELSE "decided"
        /\ Creates(w) => VersionFree(t.version)
        /\ t.decision.action = "PROMOTE" => VersionFree(t.row + 1)
        /\ t.row # 0 => ~Locked(w, t.row)
        /\ ActiveIndex(Written(t))
        /\ profile' = Written(t)
        /\ Remember(t)
        /\ refresh' = [refresh EXCEPT ![w] = Idle]
        /\ UNCHANGED <<signal, signals, backfills>>

\* a unique index, a deadlock or an error undoes the savepoint or the command
Rollback(w) ==
    /\ refresh[w].pc # "idle"
    /\ refresh' = [refresh EXCEPT ![w] = Idle]
    /\ UNCHANGED <<profile, signal, signals, backfills, recent>>

\* the machine, the quality of its data, or its firmware changes
SignalChanges ==
    /\ signals < MaxSignals
    /\ signals' = signals + 1
    /\ \E level \in MaybeLevel, firmware \in MaybeFirmware :
          /\ signal' = [level |-> level, firmware |-> firmware]
          /\ signal' # signal
    /\ UNCHANGED <<profile, refresh, backfills, recent>>

BaselineNext ==
    \/ WorkerReads
    \/ BackfillReads
    \/ \E v \in Versions : SweepReads(v)
    \/ \E w \in Writers : ReadNextVersion(w) \/ Commit(w) \/ Rollback(w)
    \/ SignalChanges

BaselineSpec == BaselineInit /\ [][BaselineNext]_baselineVars

\* Every transaction ends.  While the worker runs, an error of one cycle is not
\* one of every cycle: refreshes keep being read and, where they can, committed;
\* so is the mark on an ACTIVE row that is no longer refreshed.
BaselineFairness ==
    /\ WF_baselineVars(Commit("backfill") \/ Rollback("backfill"))
    /\ WF_baselineVars(Commit("worker") \/ Rollback("worker"))
    /\ SF_baselineVars(WorkerReads)
    /\ SF_baselineVars(ReadNextVersion("worker"))
    /\ SF_baselineVars(refresh["worker"].decision.action # "MARK_STALE" /\ Commit("worker"))
    /\ SF_baselineVars(refresh["worker"].decision.action = "MARK_STALE" /\ Commit("worker"))
    /\ SF_baselineVars(\E v \in Versions : v # CurrentVersion /\ SweepReads(v))

FairBaselines == BaselineSpec /\ BaselineFairness

-----------------------------------------------------------------------------
(* Properties.  Those that begin with backfills = 0 are about the worker by  *)
(* itself: writes go by id, so a refresh that raced with another writer may  *)
(* bring an ended version back.                                              *)

Anchors == {profile[v].statistics : v \in {u \in Versions : profile[u].state \in Anchored}}

\* The last evaluations were a settled level, each near the one before it and
\* none near the level given
SettledAwayFrom(level) ==
    \A i \in 1 .. RequiredCycles :
        /\ recent[i] # NoLevel
        /\ <<recent[i], level>> \notin Near
        /\ i < RequiredCycles => <<recent[i], recent[i + 1]>> \in Near

\* Contamination control: a level becomes the anchor only near the anchor before
\* it, or when it has settled away from that for as many evaluations as the
\* stability gate asks for, whatever blips, gaps in the data, sweeps, firmware
\* changes and rolled back transactions came between.
AnchorMovesConfirmed ==
    [][backfills' = 0 =>
         \A new \in Anchors' \ Anchors :
            \/ \E old \in Anchors : <<new, old>> \in Near
            \/ /\ recent'[1] = new
               /\ \A old \in Anchors \cup {NoLevel} : SettledAwayFrom(old)']_baselineVars

Served(level) ==
    \E v \in Versions : /\ profile[v].state = "ACTIVE"
                         /\ <<level, profile[v].statistics>> \in Near

\* Once the sensor has settled for good, an ACTIVE version near its level is
\* served again and again, also when a backfill left versions behind that the
\* unique index on ACTIVE makes the worker trip over.
SettledLevelIsServed ==
    <>[][FALSE]_signal => []<>(signal.level # NoLevel => Served(signal.level))
=============================================================================
