---------------------------- MODULE RecordsProofs ----------------------------
(***************************************************************************)
(* Theorems about the records that requests and workers look up and then   *)
(* change: the versions of a baseline, the condition a machine's evidence  *)
(* says, work orders, documents and emission factors; for any number of    *)
(* rows and of requests in progress at the same time.                      *)
(***************************************************************************)
EXTENDS MCRecords, FiniteSetTheorems, NaturalsInduction, WellFoundedInduction, TLAPS

-----------------------------------------------------------------------------
(* Sets of numbers. *)

\* The minimum of numbers exists.
LEMMA LeastOf ==
    ASSUME NEW T \in SUBSET Nat, T # {}
    PROVE  \E m \in T : \A y \in T : m <= y
<1>1. PICK m \in T : \A y \in T : ~(<<y, m>> \in OpToRel(<, Nat))
  BY NatLessThanWellFounded, WFMin
<1>2. \A y \in T : ~(y < m)
  BY <1>1 DEF OpToRel
<1> QED BY <1>2

\* The maximum that Max chooses exists in a bounded set,
LEMMA MaxOfSome ==
    ASSUME NEW n \in Nat, NEW S \in SUBSET (0 .. n), S # {}
    PROVE  Max(S) \in S /\ \A y \in S : Max(S) >= y
<1> DEFINE T == {m \in Nat : n - m \in S}
<1>1. T # {}
  <2>1. PICK s \in S : TRUE
    OBVIOUS
  <2>2. n - s \in Nat /\ n - (n - s) = s
    OBVIOUS
  <2>3. n - s \in T
    BY <2>2
  <2> QED BY <2>3
<1>2. PICK m \in T : \A y \in T : m <= y
  BY <1>1, LeastOf
<1>3. n - m \in S /\ \A y \in S : n - m >= y
  <2>1. ASSUME NEW y \in S PROVE n - m >= y
    <3>1. n - y \in T
      OBVIOUS
    <3>2. m <= n - y
      BY <3>1, <1>2
    <3> QED BY <3>2
  <2> QED BY <2>1
<1> QED BY <1>3 DEF Max

\* and in a finite one.
LEMMA MaxOfFinite ==
    ASSUME NEW S \in SUBSET Nat, IsFiniteSet(S), S # {}
    PROVE  Max(S) \in S /\ \A y \in S : Max(S) >= y
<1>1. PICK n \in Nat : Surjection(1 .. n, S) # {}
  BY FS_NatSurjection DEF ExistsSurjection
<1>0. PICK f \in [1 .. n -> S] : \A s \in S : \E i \in 1 .. n : f[i] = s
  BY <1>1 DEF Surjection
<1> DEFINE Bounded(k) == \E m \in Nat : \A i \in 1 .. k : f[i] <= m
           T == {k \in Nat : k <= n /\ ~Bounded(k)}
<1>2. Bounded(n)
  <2> SUFFICES ASSUME n \in T PROVE FALSE
    OBVIOUS
  <2>1. PICK k \in T : \A y \in T : k <= y
    BY LeastOf
  <2>2. k \in Nat /\ k <= n /\ ~Bounded(k)
    BY <2>1
  <2>3. k # 0
    BY <2>2
  <2>4. k - 1 \in Nat /\ k - 1 <= n /\ k \in 1 .. n /\ ~(k <= k - 1)
    BY <2>2, <2>3
  <2>5. Bounded(k - 1)
    BY <2>1, <2>4
  <2>6. PICK m \in Nat : \A i \in 1 .. k - 1 : f[i] <= m
    BY <2>5
  <2>7. \A i \in 1 .. n : f[i] \in Nat
    BY <1>0
  <2>8. PICK x \in Nat : x = f[k]
    BY <2>4, <2>7
  <2>9. PICK top \in Nat : m <= top /\ f[k] <= top
    <3>1. CASE m >= x
      BY <2>8, <3>1
    <3>2. CASE x > m
      BY <2>8, <3>2
    <3> QED BY <3>1, <3>2
  <2>10. ASSUME NEW i \in 1 .. k PROVE f[i] <= top
    <3>1. CASE i = k
      BY <2>9, <3>1
    <3>2. CASE i # k
      <4>1. i \in 1 .. k - 1 /\ i \in 1 .. n
        BY <2>4, <3>2
      <4>2. f[i] \in Nat /\ f[i] <= m
        BY <2>6, <2>7, <4>1
      <4> QED BY <2>9, <4>2
    <3> QED BY <3>1, <3>2
  <2> QED BY <2>2, <2>10
<1>3. PICK m \in Nat : \A i \in 1 .. n : f[i] <= m
  BY <1>2
<1>4. S \in SUBSET (0 .. m)
  BY <1>0, <1>3
<1> QED BY <1>4, MaxOfSome

-----------------------------------------------------------------------------
(* Baselines. *)

Live(v) == profile[v].state \notin Terminal \cup {"ABSENT"}
IsCurrent(v) == Live(v) /\ \A u \in Versions : Live(u) => u <= v

\* get_current and _next_version find what they look for.
LEMMA CurrentIs ==
    /\ CurrentVersion \in 0 .. MaxVersion
    /\ CurrentVersion = 0 => \A v \in Versions : ~Live(v)
    /\ CurrentVersion # 0 => IsCurrent(CurrentVersion)
<1> DEFINE current == {v \in Versions : Live(v)}
<1>1. CurrentVersion = IF current = {} THEN 0 ELSE Max(current)
  BY DEF CurrentVersion, Live
<1>2. current \in SUBSET (0 .. MaxVersion) /\ MaxVersion \in Nat
  BY BaselineAssumption DEF Versions
<1>3. CASE current = {}
  BY <1>1, <1>2, <1>3
<1>4. CASE current # {}
  <2>1. Max(current) \in current /\ \A y \in current : Max(current) >= y
    BY <1>2, <1>4, MaxOfSome
  <2>2. Max(current) \in Versions /\ Live(Max(current))
    BY <2>1
  <2>3. \A u \in Versions : Live(u) => u <= Max(current)
    BY <2>1, <2>2 DEF Versions
  <2> HIDE DEF current
  <2> QED BY <1>1, <1>4, <2>2, <2>3, BaselineAssumption DEF IsCurrent, Versions
<1> QED BY <1>3, <1>4

LEMMA NextIs ==
    /\ NextVersion \in 1 .. MaxVersion + 1
    /\ \A v \in Versions : profile[v].state # "ABSENT" => v < NextVersion
<1> DEFINE used == {v \in Versions : profile[v].state # "ABSENT"}
<1>1. NextVersion = IF used = {} THEN 1 ELSE Max(used) + 1
  BY DEF NextVersion
<1>2. used \in SUBSET (0 .. MaxVersion) /\ MaxVersion \in Nat
  BY BaselineAssumption DEF Versions
<1>3. CASE used = {}
  BY <1>1, <1>2, <1>3
<1>4. CASE used # {}
  <2>1. Max(used) \in used /\ \A y \in used : Max(used) >= y
    BY <1>2, <1>4, MaxOfSome
  <2>2. Max(used) \in Versions
    BY <2>1
  <2>3. \A v \in Versions : profile[v].state # "ABSENT" => v <= Max(used)
    BY <2>1, <2>2 DEF Versions
  <2> HIDE DEF used
  <2> QED BY <1>1, <1>4, <2>2, <2>3, BaselineAssumption DEF Versions
<1> QED BY <1>3, <1>4

LEMMA AdvanceType ==
    ASSUME NEW row \in Row, NEW level, NEW confirmed \in {"ACTIVATE", "PROMOTE"}
    PROVE  AdvanceOrRestart(row, level, confirmed) \in Decision
BY BaselineAssumption DEF AdvanceOrRestart, Decision, Actions, Row

\* decide(), case by case
LEMMA DecideIs ==
    ASSUME NEW row, NEW level
    PROVE  /\ level = NoLevel /\ row.state = "ABSENT" =>
                Decide(row, level) = [action |-> "CREATE_INSUFFICIENT", cycles |-> 0]
           /\ level = NoLevel /\ row.state # "ABSENT" =>
                Decide(row, level) = [action |-> "FREEZE", cycles |-> 0]
           /\ level # NoLevel /\ row.state = "ABSENT" =>
                Decide(row, level) = [action |-> "START_CANDIDATE", cycles |-> 1]
           /\ level # NoLevel /\ row.state # "ABSENT"
                /\ ~(row.state \in Anchored /\ row.statistics # NoLevel) =>
                Decide(row, level) = AdvanceOrRestart(row, level, "ACTIVATE")
           /\ level # NoLevel /\ row.state \in Anchored /\ row.statistics # NoLevel
                /\ <<level, row.statistics>> \in Near =>
                Decide(row, level) = [action |-> "REFINE_ACTIVE", cycles |-> 0]
           /\ level # NoLevel /\ row.state \in Anchored /\ row.statistics # NoLevel
                /\ <<level, row.statistics>> \notin Near =>
                Decide(row, level) = AdvanceOrRestart(row, level, "PROMOTE")
<1>1. row.state \in Anchored => row.state # "ABSENT"
  BY DEF Anchored
<1> QED BY <1>1 DEF Decide

LEMMA DecideType ==
    ASSUME NEW row \in Row, NEW level
    PROVE  Decide(row, level) \in Decision
<1>1. \A a \in Actions : [action |-> a, cycles |-> 0] \in Decision
  BY BaselineAssumption DEF Decision
<1>2. [action |-> "START_CANDIDATE", cycles |-> 1] \in Decision
  BY BaselineAssumption DEF Decision, Actions
<1>3. {"CREATE_INSUFFICIENT", "FREEZE", "REFINE_ACTIVE"} \subseteq Actions
  BY DEF Actions
<1> QED BY <1>1, <1>2, <1>3, DecideIs, AdvanceType

LEMMA RowTypes ==
    /\ AbsentRow \in Row
    /\ Idle \in Transaction
    /\ \A t \in Transaction : InitialRow(t) \in Row /\ PromotedRow(t) \in Row
    /\ \A t \in Transaction, row \in Row : UpdatedRow(t, row) \in Row
<1>1. AbsentRow \in Row /\ Idle \in Transaction
  BY BaselineAssumption
  DEF AbsentRow, NewRow, Row, Idle, Transaction, MaybeLevel, MaybeFirmware, ProfileStates,
      Decision, Actions
<1>2. \A t \in Transaction : InitialRow(t) \in Row /\ PromotedRow(t) \in Row
  BY BaselineAssumption
  DEF InitialRow, PromotedRow, NewRow, Row, Transaction, MaybeLevel, ProfileStates, Anchored
<1>3. ASSUME NEW t \in Transaction, NEW row \in Row PROVE UpdatedRow(t, row) \in Row
  <2>1. t.level \in MaybeLevel /\ t.decision.cycles \in 0 .. RequiredCycles
    BY DEF Transaction, Decision
  <2>2. {"BUILDING", "ACTIVE", "SUPERSEDED", "STALE"} \subseteq ProfileStates
    BY DEF ProfileStates, Anchored, Terminal
  <2>3. t.state \in ProfileStates /\ NoLevel \in MaybeLevel /\ 1 \in 0 .. RequiredCycles
        /\ 0 \in 0 .. RequiredCycles
    BY BaselineAssumption DEF Transaction, MaybeLevel
  <2> QED BY <2>1, <2>2, <2>3 DEF UpdatedRow, Row
<1> QED BY <1>1, <1>2, <1>3

LEMMA WrittenType ==
    ASSUME BaselineTypeOK, NEW t \in Transaction
    PROVE  Written(t) \in [Versions -> Row]
<1>1. ASSUME NEW v \in Versions PROVE Written(t)[v] \in Row
  <2>1. profile[v] \in Row /\ [profile[v] EXCEPT !.state = "INVALIDATED"] \in Row
    BY DEF BaselineTypeOK, Row, ProfileStates, Terminal
  <2>2. InitialRow(t) \in Row /\ PromotedRow(t) \in Row /\ UpdatedRow(t, profile[v]) \in Row
    BY <2>1, RowTypes
  <2> QED BY <2>1, <2>2 DEF Written
<1> QED BY <1>1 DEF Written

LEMMA SweepIs ==
    ASSUME NEW v \in Versions
    PROVE  LET t == [Idle EXCEPT !.pc = "decided", !.row = v, !.state = "ACTIVE",
                                 !.decision.action = "MARK_STALE"]
           IN  /\ t \in Transaction
               /\ t.pc = "decided" /\ t.row = v /\ t.level = NoLevel /\ t.invalid = 0
               /\ t.decision.action = "MARK_STALE"
<1>1. PICK d : d = Idle.decision
  OBVIOUS
<1>2. d = [action |-> "NONE", cycles |-> 0]
  BY <1>1 DEF Idle
<1>3. PICK e : e = [d EXCEPT !.action = "MARK_STALE"]
  OBVIOUS
<1>4. e \in Decision /\ e.action = "MARK_STALE"
  BY <1>2, <1>3, BaselineAssumption DEF Decision, Actions
<1>5. PICK idle : idle = Idle
  OBVIOUS
<1>6. idle \in Transaction /\ idle.level = NoLevel /\ idle.invalid = 0
  BY <1>5, RowTypes DEF Idle
<1>7. PICK t : t = [idle EXCEPT !.pc = "decided", !.row = v, !.state = "ACTIVE",
                                !.decision = e]
  OBVIOUS
<1>8. t \in Transaction
  <2>1. "ACTIVE" \in ProfileStates /\ v \in 0 .. MaxVersion
    BY BaselineAssumption DEF Versions, ProfileStates, Anchored
  <2> QED BY <1>4, <1>6, <1>7, <2>1 DEF Transaction
<1>9. /\ t.pc = "decided" /\ t.row = v /\ t.level = NoLevel /\ t.invalid = 0
      /\ t.decision.action = "MARK_STALE"
  BY <1>4, <1>6, <1>7 DEF Transaction
<1>10. [Idle EXCEPT !.pc = "decided", !.row = v, !.state = "ACTIVE",
                    !.decision.action = "MARK_STALE"] = t
  BY <1>1, <1>3, <1>5, <1>7
<1> QED BY <1>8, <1>9, <1>10

LEMMA ReadType ==
    ASSUME BaselineTypeOK, NEW w \in Writers, NEW level \in MaybeLevel,
           ReadAndDecide(w, level)
    PROVE  refresh' \in [Writers -> Transaction]
<1> DEFINE v   == CurrentVersion
           row == IF v = 0 THEN AbsentRow ELSE profile[v]
           new == FirmwareChanged(row, signal.firmware)
           old == IF new THEN AbsentRow ELSE row
<1>1. v \in 0 .. MaxVersion /\ row \in Row /\ old \in Row
  BY CurrentIs, RowTypes DEF BaselineTypeOK, Versions
<1>2. Decide(old, level) \in Decision
  BY <1>1, DecideType
<1>3. refresh' = [refresh EXCEPT ![w] =
         [pc |-> "decided", row |-> IF new THEN 0 ELSE v, state |-> old.state,
          firmware |-> IF old = AbsentRow THEN signal.firmware ELSE old.firmware,
          level |-> level,
          invalid |-> IF new /\ row.state \in Anchored THEN v ELSE 0,
          version |-> 0, decision |-> Decide(old, level)]]
  BY DEF ReadAndDecide
<1>4. old.state \in ProfileStates /\ old.firmware \in MaybeFirmware
      /\ signal.firmware \in MaybeFirmware
  BY <1>1 DEF Row, BaselineTypeOK
<1>5. 0 \in 0 .. MaxVersion /\ 0 \in 0 .. MaxVersion + 1
  BY BaselineAssumption
<1> HIDE DEF v, row, new, old
<1> QED BY <1>1, <1>2, <1>3, <1>4, <1>5 DEF Transaction, BaselineTypeOK

LEMMA BaselineTypeInit == BaselineInit => BaselineTypeOK
BY RowTypes, BaselineAssumption
DEF BaselineInit, BaselineTypeOK, MaybeLevel, MaybeFirmware

LEMMA BaselineTypeStep ==
    ASSUME BaselineTypeOK, [BaselineNext]_baselineVars
    PROVE  BaselineTypeOK'
<1> USE DEF BaselineTypeOK
<1>1. CASE UNCHANGED baselineVars
  BY <1>1 DEF baselineVars
<1>2. CASE WorkerReads
  <2>1. ReadAndDecide("worker", signal.level) /\ signal.level \in MaybeLevel
    BY <1>2 DEF WorkerReads
  <2>2. refresh' \in [Writers -> Transaction]
    BY <2>1, ReadType DEF Writers
  <2> QED BY <1>2, <2>1, <2>2 DEF WorkerReads, ReadAndDecide
<1>3. CASE BackfillReads
  <2>1. PICK level \in MaybeLevel : ReadAndDecide("backfill", level)
    BY <1>3 DEF BackfillReads
  <2>2. refresh' \in [Writers -> Transaction]
    BY <2>1, ReadType DEF Writers
  <2>3. backfills' \in 0 .. MaxBackfills
    BY <1>3, BaselineAssumption DEF BackfillReads
  <2> QED BY <2>1, <2>2, <2>3 DEF ReadAndDecide
<1>4. ASSUME NEW v \in Versions, SweepReads(v) PROVE BaselineTypeOK'
  <2> DEFINE t == [Idle EXCEPT !.pc = "decided", !.row = v, !.state = "ACTIVE",
                               !.decision.action = "MARK_STALE"]
  <2>1. t \in Transaction
    BY SweepIs
  <2> HIDE DEF t
  <2> QED BY <1>4, <2>1 DEF SweepReads, t
<1>5. ASSUME NEW w \in Writers, ReadNextVersion(w) PROVE BaselineTypeOK'
  <2>1. NextVersion \in 0 .. MaxVersion + 1
    BY NextIs, BaselineAssumption
  <2> QED BY <1>5, <2>1, ZenonT(60) DEF ReadNextVersion, Transaction
<1>6. ASSUME NEW w \in Writers, Commit(w) PROVE BaselineTypeOK'
  <2> DEFINE t == refresh[w]
  <2>1. t \in Transaction
    OBVIOUS
  <2>2. profile' \in [Versions -> Row]
    BY <1>6, <2>1, WrittenType DEF Commit
  <2>3. recent' \in [1 .. RequiredCycles -> MaybeLevel]
    <3>1. t.level \in MaybeLevel /\ NoLevel \in MaybeLevel
      BY <2>1 DEF Transaction, MaybeLevel
    <3>2. Push(t.level) \in [1 .. RequiredCycles -> MaybeLevel]
      <4>1. \A i \in 1 .. RequiredCycles : i # 1 => i - 1 \in 1 .. RequiredCycles
        BY BaselineAssumption
      <4> QED BY <3>1, <4>1 DEF Push
    <3>3. Remember(t)
      BY <1>6 DEF Commit
    <3> QED BY <3>1, <3>2, <3>3 DEF Remember
  <2> QED BY <1>6, <2>2, <2>3, RowTypes DEF Commit
<1>7. ASSUME NEW w \in Writers, Rollback(w) PROVE BaselineTypeOK'
  BY <1>7, RowTypes DEF Rollback
<1>8. CASE SignalChanges
  BY <1>8, BaselineAssumption DEF SignalChanges
<1> QED BY <1>1, <1>2, <1>3, <1>4, <1>5, <1>6, <1>7, <1>8 DEF BaselineNext

\* The versions of a baseline and the transactions of worker, sweep and backfill keep
\* their types, also when a backfill leaves two current rows.
THEOREM BaselineTypeCorrect == BaselineSpec => []BaselineTypeOK
BY BaselineTypeInit, BaselineTypeStep, PTL DEF BaselineSpec

\* The candidate of the current row is the last evaluation, and as many evaluations as
\* its count says were near each other and away from the anchor.
CandidateTracked(row) ==
    row.candidate # NoLevel =>
        /\ row.cycles >= 1
        /\ recent[1] = row.candidate
        /\ \A i \in 1 .. row.cycles :
              /\ recent[i] \in Levels
              /\ i < row.cycles => <<recent[i], recent[i + 1]>> \in Near
              /\ row.state \in Anchored => <<recent[i], row.statistics>> \notin Near

RowsTracked ==
    \A v \in Versions :
        /\ profile[v].state \in Anchored => IsCurrent(v) /\ profile[v].statistics # NoLevel
        /\ IsCurrent(v) => CandidateTracked(profile[v])

\* What the worker has read is still so, and its decision is the one about it.
RefreshHolds(t) ==
    /\ t.pc # "idle" /\ t.decision.action = "MARK_STALE" =>
        /\ t.row \in Versions /\ profile[t.row].state = "ACTIVE"
        /\ t.level = NoLevel /\ t.invalid = 0
    /\ t.pc # "idle" /\ t.decision.action # "MARK_STALE" /\ t.row # 0 =>
        /\ IsCurrent(t.row) /\ t.state = profile[t.row].state /\ t.invalid = 0
        /\ t.decision = Decide(profile[t.row], t.level)
    /\ t.pc # "idle" /\ t.row = 0 =>
        /\ t.decision = Decide(AbsentRow, t.level)
        /\ \A v \in Versions : profile[v].state \in Anchored => v = t.invalid
        /\ t.invalid # 0 => profile[t.invalid].state \in Anchored
    /\ t.pc = "numbered" =>
        t.row = 0 /\ \A v \in Versions : profile[v].state # "ABSENT" => v < t.version

AnchorInv ==
    backfills = 0 =>
        refresh["backfill"] = Idle /\ RowsTracked /\ RefreshHolds(refresh["worker"])

LEMMA OneCurrent ==
    ASSUME NEW u \in Versions, NEW v \in Versions, IsCurrent(u), IsCurrent(v)
    PROVE  u = v
BY BaselineAssumption DEF IsCurrent, Versions

LEMMA NotStale ==
    ASSUME NEW row, NEW level
    PROVE  Decide(row, level).action # "MARK_STALE"
<1>1. \A c \in {"ACTIVATE", "PROMOTE"} :
        AdvanceOrRestart(row, level, c).action \in {"START_CANDIDATE", "ADVANCE_CANDIDATE", c}
  BY DEF AdvanceOrRestart
<1>2. row.state \in Anchored => row.state # "ABSENT"
  BY DEF Anchored
<1>3. PICK d : d = Decide(row, level)
  OBVIOUS
<1>4. \/ d = [action |-> "CREATE_INSUFFICIENT", cycles |-> 0]
      \/ d = [action |-> "FREEZE", cycles |-> 0]
      \/ d = [action |-> "START_CANDIDATE", cycles |-> 1]
      \/ d = [action |-> "REFINE_ACTIVE", cycles |-> 0]
      \/ d = AdvanceOrRestart(row, level, "ACTIVATE")
      \/ d = AdvanceOrRestart(row, level, "PROMOTE")
  BY <1>2, <1>3, DecideIs
<1> QED BY <1>1, <1>3, <1>4

LEMMA PushIs ==
    ASSUME BaselineTypeOK, NEW level, recent' = Push(level)
    PROVE  /\ recent'[1] = level
           /\ \A i \in 1 .. RequiredCycles : i # 1 => recent'[i] = recent[i - 1]
BY BaselineAssumption DEF Push

\* One more evaluation near the candidate before it.
LEMMA OneMoreEvaluation ==
    ASSUME BaselineTypeOK, NEW row \in Row, NEW level \in Levels, CandidateTracked(row),
           row.candidate # NoLevel, <<level, row.candidate>> \in Near,
           row.state \in Anchored => <<level, row.statistics>> \notin Near,
           recent' = Push(level)
    PROVE  /\ row.cycles \in Nat /\ recent'[1] = level
           /\ \A i \in 1 .. RequiredCycles : i <= row.cycles + 1 =>
                 /\ recent'[i] \in Levels
                 /\ i < row.cycles + 1 /\ i < RequiredCycles =>
                       <<recent'[i], recent'[i + 1]>> \in Near
                 /\ row.state \in Anchored => <<recent'[i], row.statistics>> \notin Near
<1>1. row.cycles \in 1 .. RequiredCycles /\ RequiredCycles \in Nat \ {0}
  BY BaselineAssumption DEF CandidateTracked, Row
<1>2. recent'[1] = level /\ \A i \in 1 .. RequiredCycles : i # 1 => recent'[i] = recent[i - 1]
  BY PushIs
<1>3. ASSUME NEW i \in 1 .. RequiredCycles, i <= row.cycles + 1
      PROVE  /\ recent'[i] \in Levels
             /\ i < row.cycles + 1 /\ i < RequiredCycles =>
                   <<recent'[i], recent'[i + 1]>> \in Near
             /\ row.state \in Anchored => <<recent'[i], row.statistics>> \notin Near
  <2>1. CASE i = 1
    <3>1. i < RequiredCycles => 2 \in 1 .. RequiredCycles /\ recent'[2] = recent[1]
      BY <1>1, <1>2, <2>1
    <3> QED BY <1>2, <2>1, <3>1 DEF CandidateTracked
  <2>2. CASE i # 1
    <3>1. i - 1 \in 1 .. row.cycles /\ recent'[i] = recent[i - 1]
      BY <1>1, <1>2, <1>3, <2>2
    <3>2. i < RequiredCycles => recent'[i + 1] = recent[i] /\ (i - 1) + 1 = i
      BY <1>1, <1>2
    <3>3. i < row.cycles + 1 => i - 1 < row.cycles
      BY <1>1
    <3>4. /\ recent[i - 1] \in Levels
          /\ i - 1 < row.cycles => <<recent[i - 1], recent[(i - 1) + 1]>> \in Near
          /\ row.state \in Anchored => <<recent[i - 1], row.statistics>> \notin Near
      BY <3>1 DEF CandidateTracked
    <3> QED BY <3>1, <3>2, <3>3, <3>4
  <2> QED BY <2>1, <2>2
<1> QED BY <1>1, <1>2, <1>3

\* Writing the current row alone leaves it the current one.
LEMMA TrackedInPlace ==
    ASSUME BaselineTypeOK, RowsTracked, NEW r \in Versions, IsCurrent(r), NEW row,
           profile' = [profile EXCEPT ![r] = row],
           row.state \notin Terminal \cup {"ABSENT"},
           row.state \in Anchored => row.statistics # NoLevel,
           CandidateTracked(row)'
    PROVE  RowsTracked'
<1>1. \A v \in Versions : v # r => profile'[v] = profile[v]
  BY DEF BaselineTypeOK
<1>2. profile'[r] = row
  BY DEF BaselineTypeOK
<1>3. \A v \in Versions : Live(v)' <=> Live(v)
  BY <1>1, <1>2 DEF Live, IsCurrent
<1>4. \A v \in Versions : IsCurrent(v)' <=> IsCurrent(v)
  BY <1>3 DEF IsCurrent
<1>5. ASSUME NEW v \in Versions
      PROVE  /\ profile'[v].state \in Anchored => IsCurrent(v)' /\ profile'[v].statistics # NoLevel
             /\ IsCurrent(v)' => CandidateTracked(profile[v])'
  <2>1. CASE v = r
    BY <1>2, <1>4, <2>1
  <2>2. CASE v # r
    <3>1. ~IsCurrent(v)
      BY <2>2, OneCurrent
    <3>2. profile[v].state \notin Anchored
      BY <3>1 DEF RowsTracked
    <3> QED BY <1>1, <1>4, <2>2, <3>1, <3>2
  <2> QED BY <2>1, <2>2
<1> QED BY <1>5 DEF RowsTracked

\* What a commit leaves of the rows.
LEMMA WrittenIs ==
    ASSUME BaselineTypeOK, NEW t \in Transaction, profile' = Written(t)
    PROVE  /\ t.row = 0 =>
                \A v \in Versions :
                   /\ v = t.invalid => profile'[v] = [profile[v] EXCEPT !.state = "INVALIDATED"]
                   /\ v # t.invalid /\ v = t.version => profile'[v] = InitialRow(t)
                   /\ v # t.invalid /\ v # t.version /\ t.decision.action # "PROMOTE" =>
                         profile'[v] = profile[v]
           /\ t.row # 0 /\ t.invalid = 0 /\ t.decision.action # "PROMOTE" =>
                profile' = [profile EXCEPT ![t.row] = UpdatedRow(t, profile[t.row])]
           /\ t.row # 0 /\ t.invalid = 0 /\ t.decision.action = "PROMOTE" =>
                \A v \in Versions :
                   /\ v = t.row + 1 => profile'[v] = PromotedRow(t)
                   /\ v = t.row => profile'[v] = [profile[v] EXCEPT !.state = "SUPERSEDED"]
                   /\ v # t.row + 1 /\ v # t.row => profile'[v] = profile[v]
<1>0. 0 \notin Versions /\ DOMAIN profile' = Versions /\ DOMAIN profile = Versions
  BY BaselineAssumption DEF Versions, Written, BaselineTypeOK
<1>4. ASSUME NEW v \in Versions
      PROVE  /\ v = t.invalid => profile'[v] = [profile[v] EXCEPT !.state = "INVALIDATED"]
             /\ v # t.invalid /\ t.row = 0 /\ v = t.version => profile'[v] = InitialRow(t)
             /\ v # t.invalid /\ ~(t.row = 0 /\ v = t.version)
                  /\ t.decision.action = "PROMOTE" /\ v = t.row + 1 =>
                     profile'[v] = PromotedRow(t)
             /\ v # t.invalid /\ ~(t.row = 0 /\ v = t.version)
                  /\ ~(t.decision.action = "PROMOTE" /\ v = t.row + 1) =>
                     profile'[v] = IF t.row # 0 /\ v = t.row THEN UpdatedRow(t, profile[v])
                                   ELSE profile[v]
  BY DEF Written
<1>1. CASE t.row = 0
  BY <1>1, <1>4
<1>2. CASE t.row # 0 /\ t.invalid = 0 /\ t.decision.action # "PROMOTE"
  <2>1. \A v \in Versions :
            profile'[v] = IF v = t.row THEN UpdatedRow(t, profile[v]) ELSE profile[v]
    BY <1>0, <1>2, <1>4
  <2> QED BY <1>0, <1>2, <2>1 DEF BaselineTypeOK, Written
<1>3. CASE t.row # 0 /\ t.invalid = 0 /\ t.decision.action = "PROMOTE"
  <2>1. t.row \in Nat
    BY <1>3, BaselineAssumption DEF Transaction
  <2>2. \A v \in Versions :
            profile'[v] = IF v = t.row + 1 THEN PromotedRow(t)
                          ELSE IF v = t.row THEN UpdatedRow(t, profile[v]) ELSE profile[v]
    BY <1>0, <1>3, <1>4
  <2>3. \A row : UpdatedRow(t, row) = [row EXCEPT !.state = "SUPERSEDED"]
    BY <1>3 DEF UpdatedRow
  <2> QED BY <1>3, <2>1, <2>2, <2>3, SMTT(30)
<1> QED BY <1>1, <1>2, <1>3

\* A new row is the current one, and the first evaluation of it.
LEMMA NewRowWrites ==
    ASSUME BaselineTypeOK, AnchorInv, backfills = 0, Commit("worker"),
           refresh["worker"].row = 0
    PROVE  RowsTracked' /\ Anchors' = {}
<1> DEFINE t == refresh["worker"]
<1>1. /\ t \in Transaction /\ t.pc = "numbered" /\ VersionFree(t.version)
      /\ profile' = Written(t) /\ Remember(t)
  BY DEF Commit, Creates, BaselineTypeOK, Writers
<1>2. /\ t.decision = Decide(AbsentRow, t.level)
      /\ \A v \in Versions : profile[v].state \in Anchored => v = t.invalid
      /\ t.invalid # 0 => profile[t.invalid].state \in Anchored
      /\ \A v \in Versions : profile[v].state # "ABSENT" => v < t.version
  BY <1>1 DEF AnchorInv, RefreshHolds
<1>3. PICK n \in Versions : n = t.version /\ profile[n].state = "ABSENT"
  BY <1>1 DEF VersionFree
<1>4. n # t.invalid /\ 0 \notin Versions
  BY <1>2, <1>3, BaselineAssumption DEF Anchored, Versions
<1>5. t.decision = IF t.level = NoLevel
                   THEN [action |-> "CREATE_INSUFFICIENT", cycles |-> 0]
                   ELSE [action |-> "START_CANDIDATE", cycles |-> 1]
  BY <1>2, DecideIs, ZenonT(60) DEF AbsentRow, NewRow
<1>6. t.decision.action \in {"CREATE_INSUFFICIENT", "START_CANDIDATE"}
      /\ (t.level # NoLevel => t.decision.action = "START_CANDIDATE")
      /\ (t.level = NoLevel => t.decision.action = "CREATE_INSUFFICIENT")
  BY <1>5
<1>7. \A v \in Versions :
         /\ v = t.invalid => profile'[v] = [profile[v] EXCEPT !.state = "INVALIDATED"]
         /\ v = n => profile'[v] = InitialRow(t)
         /\ v # t.invalid /\ v # n => profile'[v] = profile[v]
  BY <1>1, <1>3, <1>4, <1>6, WrittenIs
<1>8. PICK row : /\ row = profile'[n] /\ row.state \in {"INSUFFICIENT_DATA", "BUILDING"}
                 /\ t.level # NoLevel => row.candidate = t.level /\ row.cycles = 1
                 /\ t.level = NoLevel => row.candidate = NoLevel
  <2>1. PICK row : row = InitialRow(t)
    OBVIOUS
  <2>2. row.state \in {"INSUFFICIENT_DATA", "BUILDING"}
    BY <2>1 DEF InitialRow, NewRow
  <2>3. t.level # NoLevel => row.candidate = t.level /\ row.cycles = 1
    BY <1>6, <2>1 DEF InitialRow, NewRow
  <2>4. t.level = NoLevel => row.candidate = NoLevel
    BY <1>6, <2>1 DEF InitialRow, NewRow
  <2>5. profile'[n] = InitialRow(t)
    BY <1>7
  <2> HIDE DEF t
  <2> QED BY <2>1, <2>2, <2>3, <2>4, <2>5
<1>9. ASSUME NEW v \in Versions, v # n
      PROVE  /\ profile'[v].state \notin Anchored
             /\ profile'[v].state # "ABSENT" => profile[v].state # "ABSENT"
  <2>1. CASE v = t.invalid
    <3>1. profile[v] \in Row /\ profile'[v] = [profile[v] EXCEPT !.state = "INVALIDATED"]
      BY <1>7, <2>1 DEF BaselineTypeOK
    <3>2. profile'[v].state = "INVALIDATED" /\ profile[v].state \in Anchored
      BY <1>2, <1>4, <2>1, <3>1 DEF Row
    <3> QED BY <3>2 DEF Anchored
  <2>2. CASE v # t.invalid
    BY <1>2, <1>7, <1>9, <2>2
  <2> QED BY <2>1, <2>2
<1>10. profile'[n].state \notin Anchored /\ Live(n)'
  BY <1>8 DEF Anchored, Live, Terminal
<1>11. \A v \in Versions : IsCurrent(v)' => v = n
  <2>1. ASSUME NEW v \in Versions, IsCurrent(v)', v # n PROVE FALSE
    <3>1. profile[v].state # "ABSENT"
      BY <1>9, <2>1 DEF IsCurrent, Live
    <3>2. n <= v
      BY <1>10, <2>1 DEF IsCurrent, Versions
    <3>3. v < n
      BY <1>2, <1>3, <3>1
    <3> QED BY <3>2, <3>3, BaselineAssumption DEF Versions
  <2> QED BY <2>1
<1>12. CandidateTracked(profile[n])'
  <2>1. recent'[1] = t.level
    BY <1>1, BaselineAssumption DEF Remember
  <2>2. t.level # NoLevel => t.level \in Levels
    BY <1>1 DEF Transaction, MaybeLevel
  <2>3. \A i \in 1 .. 1 : i = 1 /\ ~(i < 1)
    OBVIOUS
  <2>4. row.state \notin Anchored
    BY <1>8 DEF Anchored
  <2>5. CandidateTracked(row)'
    BY <1>8, <2>1, <2>2, <2>3, <2>4 DEF CandidateTracked
  <2> QED BY <1>8, <2>5 DEF CandidateTracked
<1> HIDE DEF t
<1>13. \A v \in Versions : profile'[v].state \notin Anchored
  BY <1>9, <1>10
<1>14. RowsTracked'
  BY <1>11, <1>12, <1>13 DEF RowsTracked
<1> QED BY <1>13, <1>14 DEF Anchors

\* The sweep ends no row and begins none.
LEMMA SweepWrites ==
    ASSUME BaselineTypeOK, AnchorInv, backfills = 0, Commit("worker"),
           refresh["worker"].decision.action = "MARK_STALE"
    PROVE  RowsTracked' /\ Anchors' \subseteq Anchors
<1> DEFINE t == refresh["worker"]
<1>1. /\ t \in Transaction /\ t.pc # "idle"
      /\ profile' = Written(t) /\ Remember(t)
  BY DEF Commit, BaselineTypeOK, Writers
<1>2. /\ RowsTracked /\ t.row \in Versions /\ profile[t.row].state = "ACTIVE"
      /\ t.level = NoLevel /\ t.invalid = 0
  BY <1>1 DEF AnchorInv, RefreshHolds
<1>3. PICK row : row = [profile[t.row] EXCEPT !.state = "STALE"]
  OBVIOUS
<1>4. UpdatedRow(t, profile[t.row]) = row
  BY <1>3 DEF UpdatedRow
<1>5. t.row # 0
  BY <1>2, BaselineAssumption DEF Versions
<1>6. profile' = [profile EXCEPT ![t.row] = row] /\ recent' = recent
  BY <1>1, <1>2, <1>4, <1>5, WrittenIs DEF Remember
<1>7. IsCurrent(t.row) /\ profile[t.row].statistics # NoLevel
  BY <1>2 DEF RowsTracked, Anchored
<1>8. PICK old \in Row : old = profile[t.row]
  BY <1>2 DEF BaselineTypeOK
<1>9. /\ row.state = "STALE" /\ row.statistics = old.statistics
      /\ row.candidate = old.candidate /\ row.cycles = old.cycles
  BY <1>3, <1>8 DEF Row
<1>10. CandidateTracked(old)
  BY <1>2, <1>7, <1>8 DEF RowsTracked
<1>11. CandidateTracked(row)'
  BY <1>2, <1>6, <1>8, <1>9, <1>10 DEF CandidateTracked, Anchored
<1>12. RowsTracked'
  BY <1>2, <1>6, <1>7, <1>8, <1>9, <1>11, TrackedInPlace DEF Terminal
<1>13. ASSUME NEW v \in Versions, profile'[v].state \in Anchored
       PROVE  profile[v].state \in Anchored /\ profile'[v].statistics = profile[v].statistics
  BY <1>2, <1>6, <1>8, <1>9, <1>13 DEF Anchored, BaselineTypeOK
<1> QED BY <1>12, <1>13 DEF Anchors

\* The decision d about the current row r goes into the rows and the history.
Rewrites(t, r, row, level, d) ==
    /\ IsCurrent(r) /\ row = profile[r] /\ RowsTracked /\ CandidateTracked(row)
    /\ row.state # "ABSENT" /\ row.state = t.state
    /\ row.state \in Anchored => row.statistics # NoLevel
    /\ d = Decide(row, level)
    /\ level # NoLevel => recent' = Push(level)
    /\ level = NoLevel => recent' = recent
    /\ d.action # "PROMOTE" => profile' = [profile EXCEPT ![r] = UpdatedRow(t, row)]
    /\ d.action = "PROMOTE" =>
          /\ r + 1 \in Versions
          /\ profile'[r] = [row EXCEPT !.state = "SUPERSEDED"]
          /\ profile'[r + 1] = NewRow("ACTIVE", level, NoLevel, 0, t.firmware)
          /\ \A v \in Versions : v # r /\ v # r + 1 => profile'[v] = profile[v]

\* What the decision about the row that is still the current one writes.
LEMMA InPlaceWrites ==
    ASSUME BaselineTypeOK, AnchorInv, backfills = 0, Commit("worker"),
           refresh["worker"].row # 0, refresh["worker"].decision.action # "MARK_STALE"
    PROVE  \E r \in Versions, row \in Row, level \in MaybeLevel, d \in Decision,
              t \in Transaction :
              /\ t = refresh["worker"] /\ r = t.row /\ level = t.level /\ d = t.decision
              /\ Rewrites(t, r, row, level, d)
<1> DEFINE t == refresh["worker"]
<1>1. /\ t \in Transaction /\ t.pc # "idle"
      /\ profile' = Written(t) /\ Remember(t)
      /\ t.decision.action = "PROMOTE" => VersionFree(t.row + 1)
  BY DEF Commit, BaselineTypeOK, Writers
<1>2. /\ RowsTracked /\ IsCurrent(t.row) /\ t.state = profile[t.row].state /\ t.invalid = 0
      /\ t.decision = Decide(profile[t.row], t.level)
  BY <1>1 DEF AnchorInv, RefreshHolds
<1>3. t.row \in Versions /\ t.level \in MaybeLevel /\ t.decision \in Decision
  BY <1>1, BaselineAssumption DEF Transaction, Versions
<1>4. PICK r \in Versions, row \in Row, level \in MaybeLevel, d \in Decision :
         r = t.row /\ level = t.level /\ d = t.decision /\ row = profile[r]
  BY <1>3 DEF BaselineTypeOK
<1>5. CandidateTracked(row) /\ row.state # "ABSENT" /\ row.state = t.state
  BY <1>2, <1>4 DEF RowsTracked, IsCurrent, Live
<1>6. row.state \in Anchored => row.statistics # NoLevel
  BY <1>2, <1>4 DEF RowsTracked
<1>7. (level # NoLevel => recent' = Push(level)) /\ (level = NoLevel => recent' = recent)
  BY <1>1, <1>4 DEF Remember
<1>8. d.action # "PROMOTE" => profile' = [profile EXCEPT ![r] = UpdatedRow(t, row)]
  BY <1>1, <1>2, <1>4, WrittenIs
<1>9. ASSUME d.action = "PROMOTE"
      PROVE  /\ r + 1 \in Versions
             /\ profile'[r] = [row EXCEPT !.state = "SUPERSEDED"]
             /\ profile'[r + 1] = NewRow("ACTIVE", level, NoLevel, 0, t.firmware)
             /\ \A v \in Versions : v # r /\ v # r + 1 => profile'[v] = profile[v]
  <2>1. r + 1 \in Versions /\ r # r + 1
    BY <1>1, <1>4, <1>9, BaselineAssumption DEF VersionFree, Versions
  <2> QED BY <1>1, <1>2, <1>4, <1>9, <2>1, WrittenIs DEF PromotedRow
<1> HIDE DEF t
<1>10. t = refresh["worker"]
  BY DEF t
<1>11. PICK u \in Transaction : u = t
  BY <1>1
<1>12. Rewrites(u, r, row, level, d)
  BY <1>2, <1>4, <1>5, <1>6, <1>7, <1>8, <1>9, <1>11 DEF Rewrites
<1> WITNESS r \in Versions, row \in Row, level \in MaybeLevel, d \in Decision,
            u \in Transaction
<1> QED BY <1>4, <1>10, <1>11, <1>12

LEMMA DecisionTells ==
    ASSUME NEW row \in Row, NEW level, NEW d, d = Decide(row, level), row.state # "ABSENT",
           row.state \in Anchored => row.statistics # NoLevel
    PROVE  /\ level = NoLevel => d.action = "FREEZE"
           /\ level # NoLevel => d.action \in {"START_CANDIDATE", "ADVANCE_CANDIDATE",
                                               "ACTIVATE", "PROMOTE", "REFINE_ACTIVE"}
           /\ d.action = "REFINE_ACTIVE" =>
                 row.state \in Anchored /\ <<level, row.statistics>> \in Near
           /\ d.action \in {"START_CANDIDATE", "ADVANCE_CANDIDATE", "PROMOTE"}
                 /\ row.state \in Anchored => <<level, row.statistics>> \notin Near
           /\ d.action \in {"ADVANCE_CANDIDATE", "ACTIVATE", "PROMOTE"} =>
                 row.candidate # NoLevel /\ <<level, row.candidate>> \in Near
           /\ d.action = "ADVANCE_CANDIDATE" =>
                 d.cycles = row.cycles + 1 /\ row.cycles + 1 < RequiredCycles
           /\ d.action \in {"ACTIVATE", "PROMOTE"} => row.cycles + 1 >= RequiredCycles
           /\ d.action = "ACTIVATE" => row.state \notin Anchored
           /\ d.action = "PROMOTE" => row.state \in Anchored
<1> DEFINE restart == row.candidate = NoLevel \/ <<level, row.candidate>> \notin Near
<1>1. row.cycles \in Nat /\ RequiredCycles \in Nat
  BY BaselineAssumption DEF Row
<1>2. ASSUME NEW c \in {"ACTIVATE", "PROMOTE"}, d = AdvanceOrRestart(row, level, c)
      PROVE  /\ d.action \in {"START_CANDIDATE", "ADVANCE_CANDIDATE", c}
             /\ d.action # "START_CANDIDATE" => ~restart
             /\ d.action = "ADVANCE_CANDIDATE" =>
                   d.cycles = row.cycles + 1 /\ row.cycles + 1 < RequiredCycles
             /\ d.action = c => row.cycles + 1 >= RequiredCycles
  <2>1. CASE restart
    <3>1. d = [action |-> "START_CANDIDATE", cycles |-> 1]
      BY <1>2, <2>1 DEF AdvanceOrRestart
    <3> QED BY <3>1
  <2>2. CASE ~restart /\ row.cycles + 1 >= RequiredCycles
    <3>1. d = [action |-> c, cycles |-> 0]
      BY <1>2, <2>2 DEF AdvanceOrRestart
    <3> QED BY <2>2, <3>1
  <2>3. CASE ~restart /\ ~(row.cycles + 1 >= RequiredCycles)
    <3>1. d = [action |-> "ADVANCE_CANDIDATE", cycles |-> row.cycles + 1]
      BY <1>2, <2>3 DEF AdvanceOrRestart
    <3>2. d.action = "ADVANCE_CANDIDATE" /\ d.cycles = row.cycles + 1
      BY <3>1
    <3> QED BY <1>1, <2>3, <3>2
  <2> QED BY <2>1, <2>2, <2>3
<1>3. CASE level = NoLevel
  <2>1. d = [action |-> "FREEZE", cycles |-> 0]
    BY <1>3, DecideIs
  <2> QED BY <1>3, <2>1
<1>4. CASE level # NoLevel /\ row.state \notin Anchored
  <2>1. d = AdvanceOrRestart(row, level, "ACTIVATE")
    BY <1>4, DecideIs
  <2> QED BY <1>2, <1>4, <2>1
<1>5. CASE level # NoLevel /\ row.state \in Anchored /\ <<level, row.statistics>> \in Near
  <2>1. d = [action |-> "REFINE_ACTIVE", cycles |-> 0]
    BY <1>5, DecideIs
  <2> QED BY <1>5, <2>1
<1>6. CASE level # NoLevel /\ row.state \in Anchored /\ <<level, row.statistics>> \notin Near
  <2>1. d = AdvanceOrRestart(row, level, "PROMOTE")
    BY <1>6, DecideIs
  <2> QED BY <1>2, <1>6, <2>1
<1> QED BY <1>3, <1>4, <1>5, <1>6

\* Only the current row may be the anchor.
LEMMA AnchorIsCurrent ==
    ASSUME RowsTracked, NEW r \in Versions, IsCurrent(r)
    PROVE  /\ profile[r].state \in Anchored => Anchors = {profile[r].statistics}
           /\ profile[r].state \notin Anchored => Anchors = {}
<1>1. \A v \in Versions : profile[v].state \in Anchored => v = r
  BY OneCurrent DEF RowsTracked
<1> QED BY <1>1 DEF Anchors

Moved ==
    \A new \in Anchors' \ Anchors :
        \/ \E old \in Anchors : <<new, old>> \in Near
        \/ /\ recent'[1] = new
           /\ \A old \in Anchors \cup {NoLevel} : SettledAwayFrom(old)'

\* What the current row is written with when it stays the current one
LEMMA RewrittenRow ==
    ASSUME BaselineTypeOK, NEW r \in Versions, NEW row \in Row, NEW level \in MaybeLevel,
           NEW d \in Decision, NEW t \in Transaction, t.decision = d, t.level = level,
           Rewrites(t, r, row, level, d), d.action # "PROMOTE",
           NEW new, new = UpdatedRow(t, row)
    PROVE  /\ new.state \notin Terminal \cup {"ABSENT"}
           /\ new.state \in Anchored => new.statistics # NoLevel
           /\ CandidateTracked(new)'
           /\ d.action \in {"ACTIVATE", "REFINE_ACTIVE"} =>
                 new.state = "ACTIVE" /\ new.statistics = level
           /\ d.action \notin {"ACTIVATE", "REFINE_ACTIVE"} =>
                 /\ new.state \in Anchored <=> row.state \in Anchored
                 /\ new.statistics = row.statistics
<1>1. /\ row.state \notin Terminal \cup {"ABSENT"} /\ CandidateTracked(row)
      /\ row.state = t.state /\ d = Decide(row, level)
      /\ row.state \in Anchored => row.statistics # NoLevel
      /\ level # NoLevel => recent' = Push(level)
      /\ level = NoLevel => recent' = recent
  BY DEF Rewrites, IsCurrent, Live
<1>2. NoLevel \notin Levels /\ (level # NoLevel => level \in Levels)
  BY BaselineAssumption DEF MaybeLevel
<1>3. CASE level = NoLevel
  <2>1. d.action = "FREEZE"
    BY <1>1, <1>3, DecisionTells
  <2>2. new = row /\ recent' = recent
    BY <1>1, <1>3, <2>1 DEF UpdatedRow
  <2> QED BY <1>1, <2>1, <2>2 DEF CandidateTracked
<1>4. CASE d.action = "START_CANDIDATE"
  <2>1. /\ level # NoLevel
        /\ row.state \in Anchored => <<level, row.statistics>> \notin Near
    BY <1>1, <1>4, DecisionTells
  <2>2. new = [row EXCEPT !.candidate = level, !.cycles = 1,
                          !.state = IF row.state = "INSUFFICIENT_DATA" THEN "BUILDING"
                                    ELSE row.state]
    BY <1>1, <1>4 DEF UpdatedRow
  <2>3. /\ new.candidate = level /\ new.cycles = 1 /\ new.statistics = row.statistics
        /\ new.state = IF row.state = "INSUFFICIENT_DATA" THEN "BUILDING" ELSE row.state
    BY <2>2 DEF Row
  <2>4. /\ new.state \notin Terminal \cup {"ABSENT"}
        /\ new.state \in Anchored <=> row.state \in Anchored
    BY <1>1, <2>3 DEF Terminal, Anchored
  <2>5. recent'[1] = level
    BY <1>1, <2>1, PushIs
  <2>6. \A i \in 1 .. 1 : i = 1 /\ ~(i < 1)
    OBVIOUS
  <2>7. CandidateTracked(new)'
    BY <1>2, <2>1, <2>3, <2>4, <2>5, <2>6 DEF CandidateTracked
  <2> QED BY <1>1, <1>4, <2>3, <2>4, <2>7
<1>5. CASE d.action = "ADVANCE_CANDIDATE"
  <2>1. /\ level # NoLevel /\ row.candidate # NoLevel /\ <<level, row.candidate>> \in Near
        /\ row.state \in Anchored => <<level, row.statistics>> \notin Near
        /\ d.cycles = row.cycles + 1 /\ row.cycles + 1 < RequiredCycles
    BY <1>1, <1>5, DecisionTells
  <2>2. new = [row EXCEPT !.candidate = level, !.cycles = d.cycles]
    BY <1>5 DEF UpdatedRow
  <2>3. /\ new.candidate = level /\ new.cycles = row.cycles + 1
        /\ new.statistics = row.statistics /\ new.state = row.state
    BY <2>1, <2>2 DEF Row
  <2>4. /\ row.cycles \in Nat /\ recent'[1] = level
        /\ \A i \in 1 .. RequiredCycles : i <= row.cycles + 1 =>
              /\ recent'[i] \in Levels
              /\ i < row.cycles + 1 /\ i < RequiredCycles =>
                    <<recent'[i], recent'[i + 1]>> \in Near
              /\ row.state \in Anchored => <<recent'[i], row.statistics>> \notin Near
    BY <1>1, <1>2, <2>1, OneMoreEvaluation
  <2>5. CandidateTracked(new)'
    <3>1. ASSUME NEW i \in 1 .. new.cycles
          PROVE  i \in 1 .. RequiredCycles /\ i <= row.cycles + 1 /\ i < RequiredCycles
      BY <2>1, <2>3, <2>4, BaselineAssumption
    <3>2. new.cycles >= 1
      BY <2>3, <2>4
    <3> QED BY <2>3, <2>4, <3>1, <3>2 DEF CandidateTracked
  <2> QED BY <1>1, <1>5, <2>3, <2>5
<1>6. CASE d.action \in {"ACTIVATE", "REFINE_ACTIVE"}
  <2>1. level # NoLevel
    BY <1>1, <1>6, DecisionTells
  <2>2. new = [row EXCEPT !.state = "ACTIVE", !.statistics = level,
                          !.candidate = NoLevel, !.cycles = 0]
    BY <1>6 DEF UpdatedRow
  <2>3. new.state = "ACTIVE" /\ new.statistics = level /\ new.candidate = NoLevel
    BY <2>2 DEF Row
  <2> QED BY <1>6, <2>1, <2>3 DEF Terminal, CandidateTracked
<1>7. level # NoLevel =>
         d.action \in {"START_CANDIDATE", "ADVANCE_CANDIDATE", "ACTIVATE", "REFINE_ACTIVE"}
  BY <1>1, DecisionTells
<1> QED BY <1>3, <1>4, <1>5, <1>6, <1>7

\* A candidate that has been confirmed as often as the gate asks for has settled.
LEMMA Settles ==
    ASSUME BaselineTypeOK, NEW row \in Row, NEW level \in Levels, CandidateTracked(row),
           row.candidate # NoLevel, <<level, row.candidate>> \in Near,
           row.state \in Anchored => <<level, row.statistics>> \notin Near,
           row.cycles + 1 >= RequiredCycles, recent' = Push(level)
    PROVE  /\ recent'[1] = level
           /\ SettledAwayFrom(NoLevel)'
           /\ row.state \in Anchored => SettledAwayFrom(row.statistics)'
<1>1. /\ row.cycles \in Nat /\ recent'[1] = level
      /\ \A i \in 1 .. RequiredCycles : i <= row.cycles + 1 =>
            /\ recent'[i] \in Levels
            /\ i < row.cycles + 1 /\ i < RequiredCycles =>
                  <<recent'[i], recent'[i + 1]>> \in Near
            /\ row.state \in Anchored => <<recent'[i], row.statistics>> \notin Near
  BY OneMoreEvaluation
<1>2. ASSUME NEW i \in 1 .. RequiredCycles
      PROVE  /\ recent'[i] \in Levels
             /\ i < RequiredCycles => <<recent'[i], recent'[i + 1]>> \in Near
             /\ row.state \in Anchored => <<recent'[i], row.statistics>> \notin Near
  BY <1>1, BaselineAssumption
<1>3. NoLevel \notin Levels /\ \A l : <<l, NoLevel>> \notin Near
  BY BaselineAssumption
<1>4. SettledAwayFrom(NoLevel)'
  BY <1>2, <1>3 DEF SettledAwayFrom
<1>5. ASSUME row.state \in Anchored PROVE SettledAwayFrom(row.statistics)'
  <2>1. PICK old : old = row.statistics
    OBVIOUS
  <2>2. SettledAwayFrom(old)'
    BY <1>2, <1>3, <1>5, <2>1 DEF SettledAwayFrom
  <2> QED BY <2>1, <2>2
<1> QED BY <1>1, <1>4, <1>5

LEMMA DecisionWrites ==
    ASSUME BaselineTypeOK, AnchorInv, backfills = 0, Commit("worker"),
           refresh["worker"].row # 0, refresh["worker"].decision.action # "MARK_STALE"
    PROVE  RowsTracked' /\ Moved
<1>1. PICK r \in Versions, row \in Row, level \in MaybeLevel, d \in Decision,
           t \in Transaction :
              /\ level = t.level /\ d = t.decision
              /\ Rewrites(t, r, row, level, d)
  BY InPlaceWrites
<1>2. /\ IsCurrent(r) /\ row = profile[r] /\ RowsTracked /\ CandidateTracked(row)
      /\ row.state # "ABSENT" /\ d = Decide(row, level)
      /\ row.state \in Anchored => row.statistics # NoLevel
      /\ level # NoLevel => recent' = Push(level)
  BY <1>1 DEF Rewrites
<1>3. /\ row.state \in Anchored => Anchors = {row.statistics}
      /\ row.state \notin Anchored => Anchors = {}
  BY <1>2, AnchorIsCurrent
<1>4. level # NoLevel => level \in Levels
  BY DEF MaybeLevel
<1>5. ASSUME d.action \in {"ACTIVATE", "PROMOTE"}
      PROVE  /\ recent'[1] = level
             /\ \A old \in Anchors \cup {NoLevel} : SettledAwayFrom(old)'
  <2>1. /\ level # NoLevel /\ row.candidate # NoLevel /\ <<level, row.candidate>> \in Near
        /\ row.state \in Anchored => <<level, row.statistics>> \notin Near
        /\ row.cycles + 1 >= RequiredCycles
    BY <1>2, <1>5, DecisionTells
  <2>2. /\ recent'[1] = level
        /\ SettledAwayFrom(NoLevel)'
        /\ row.state \in Anchored => SettledAwayFrom(row.statistics)'
    BY <1>2, <1>4, <2>1, Settles
  <2> QED BY <1>3, <2>2
<1>6. CASE d.action # "PROMOTE"
  <2>1. PICK new : new = UpdatedRow(t, row)
    OBVIOUS
  <2>2. /\ new.state \notin Terminal \cup {"ABSENT"}
        /\ new.state \in Anchored => new.statistics # NoLevel
        /\ CandidateTracked(new)'
        /\ d.action \in {"ACTIVATE", "REFINE_ACTIVE"} =>
              new.state = "ACTIVE" /\ new.statistics = level
        /\ d.action \notin {"ACTIVATE", "REFINE_ACTIVE"} =>
              /\ new.state \in Anchored <=> row.state \in Anchored
              /\ new.statistics = row.statistics
    BY <1>1, <1>6, <2>1, RewrittenRow
  <2>3. profile' = [profile EXCEPT ![r] = new]
    BY <1>1, <1>6, <2>1 DEF Rewrites
  <2>4. RowsTracked'
    BY <1>2, <2>2, <2>3, TrackedInPlace
  <2>5. \A x \in Anchors' : new.state \in Anchored /\ x = new.statistics
    <3>1. \A v \in Versions : v # r => profile[v].state \notin Anchored
      BY <1>2, OneCurrent DEF RowsTracked
    <3>2. profile'[r] = new /\ \A v \in Versions : v # r => profile'[v] = profile[v]
      BY <2>3 DEF BaselineTypeOK
    <3> QED BY <3>1, <3>2 DEF Anchors
  <2>6. Moved
    <3>1. CASE d.action = "ACTIVATE"
      BY <1>5, <2>2, <2>5, <3>1 DEF Moved
    <3>2. CASE d.action = "REFINE_ACTIVE"
      <4>1. row.state \in Anchored /\ <<level, row.statistics>> \in Near
        BY <1>2, <3>2, DecisionTells
      <4> QED BY <1>3, <2>2, <2>5, <3>2, <4>1 DEF Moved
    <3>3. CASE d.action \notin {"ACTIVATE", "REFINE_ACTIVE"}
      BY <1>3, <2>2, <2>5, <3>3 DEF Moved
    <3> QED BY <3>1, <3>2, <3>3
  <2> QED BY <2>4, <2>6
<1>7. CASE d.action = "PROMOTE"
  <2>1. /\ r + 1 \in Versions
        /\ profile'[r] = [row EXCEPT !.state = "SUPERSEDED"]
        /\ profile'[r + 1] = NewRow("ACTIVE", level, NoLevel, 0, t.firmware)
        /\ \A v \in Versions : v # r /\ v # r + 1 => profile'[v] = profile[v]
    BY <1>1, <1>7 DEF Rewrites
  <2>2. level # NoLevel
    BY <1>2, <1>7, DecisionTells
  <2>3. r \in Nat /\ \A v \in Versions : v \in Nat
    BY DEF Versions
  <2>4. profile'[r].state = "SUPERSEDED"
    BY <2>1 DEF Row
  <2>5. PICK new : /\ new = profile'[r + 1] /\ new.state = "ACTIVE"
                   /\ new.statistics = level /\ new.candidate = NoLevel
    BY <2>1 DEF NewRow
  <2>6. \A v \in Versions : v # r /\ v # r + 1 =>
            profile'[v].state \notin Anchored /\ (Live(v)' => v <= r)
    <3>1. \A v \in Versions : v # r => profile[v].state \notin Anchored
      BY <1>2, OneCurrent DEF RowsTracked
    <3>2. \A v \in Versions : Live(v) => v <= r
      BY <1>2 DEF IsCurrent
    <3> QED BY <2>1, <3>1, <3>2 DEF Live
  <2>7. ~Live(r)' /\ Live(r + 1)'
    <3>1. "ACTIVE" \notin Terminal \cup {"ABSENT"} /\ "SUPERSEDED" \in Terminal
      BY DEF Terminal
    <3>2. PICK n : n = r + 1
      OBVIOUS
    <3> QED BY <2>4, <2>5, <3>1, <3>2 DEF Live
  <2>8. PICK n \in Versions : n = r + 1
    BY <2>1
  <2>9. Live(n)' /\ \A v \in Versions : Live(v)' => v <= n
    BY <2>3, <2>6, <2>7, <2>8
  <2>10. IsCurrent(n)' /\ \A v \in Versions : IsCurrent(v)' => v = n
    <3>1. IsCurrent(n)'
      BY <2>9 DEF IsCurrent, Versions
    <3>2. ASSUME NEW v \in Versions, IsCurrent(v)' PROVE v = n
      <4>1. n <= v /\ v <= n
        BY <2>9, <3>2 DEF IsCurrent, Versions
      <4> QED BY <2>3, <2>8, <4>1
    <3> QED BY <3>1, <3>2
  <2>11. RowsTracked'
    <3>1. ASSUME NEW v \in Versions
          PROVE  /\ profile'[v].state \in Anchored =>
                       IsCurrent(v)' /\ profile'[v].statistics # NoLevel
                 /\ IsCurrent(v)' => CandidateTracked(profile[v])'
      <4>1. CASE v = n
        BY <2>2, <2>5, <2>8, <2>10, <4>1 DEF CandidateTracked
      <4>2. CASE v = r
        BY <2>4, <2>8, <2>10, <2>3, <4>2 DEF Anchored
      <4>3. CASE v # r /\ v # n
        BY <2>6, <2>8, <2>10, <4>3
      <4> QED BY <4>1, <4>2, <4>3
    <3> QED BY <3>1 DEF RowsTracked
  <2>12. \A x \in Anchors' : x = level
    <3>1. ASSUME NEW v \in Versions, profile'[v].state \in Anchored PROVE v = n
      BY <2>4, <2>6, <2>8, <3>1 DEF Anchored
    <3> QED BY <2>5, <2>8, <3>1 DEF Anchors
  <2>13. Moved
    BY <1>5, <1>7, <2>12 DEF Moved
  <2> QED BY <2>11, <2>13
<1> QED BY <1>6, <1>7

\* What a read of the rows leads to.
LEMMA ReadHolds ==
    ASSUME BaselineTypeOK, RowsTracked, NEW level, ReadAndDecide("worker", level)
    PROVE  RefreshHolds(refresh["worker"])'
<1> DEFINE v   == CurrentVersion
           row == IF v = 0 THEN AbsentRow ELSE profile[v]
           new == FirmwareChanged(row, signal.firmware)
           old == IF new THEN AbsentRow ELSE row
<1>1. PICK t :
        /\ t = [pc |-> "decided", row |-> IF new THEN 0 ELSE v, state |-> old.state,
                firmware |-> IF old = AbsentRow THEN signal.firmware ELSE old.firmware,
                level |-> level,
                invalid |-> IF new /\ row.state \in Anchored THEN v ELSE 0,
                version |-> 0, decision |-> Decide(old, level)]
        /\ refresh' = [refresh EXCEPT !["worker"] = t]
  BY DEF ReadAndDecide
<1>2. /\ t.pc = "decided" /\ t.row = (IF new THEN 0 ELSE v) /\ t.state = old.state
      /\ t.level = level /\ t.invalid = (IF new /\ row.state \in Anchored THEN v ELSE 0)
      /\ t.decision = Decide(old, level)
  BY <1>1
<1>3. refresh'["worker"] = t /\ profile' = profile
  BY <1>1 DEF ReadAndDecide, BaselineTypeOK, Writers
<1>4. t.decision.action # "MARK_STALE"
  BY <1>2, NotStale
<1>5. /\ v \in 0 .. MaxVersion
      /\ v = 0 => \A u \in Versions : ~Live(u)
      /\ v # 0 => IsCurrent(v) /\ v \in Versions
  BY CurrentIs DEF Versions
<1>6. v = 0 => ~new
  BY DEF FirmwareChanged, AbsentRow, NewRow
<1>7. \A u \in Versions : profile[u].state \in Anchored => u = v /\ v # 0
  <2>1. ASSUME NEW u \in Versions, profile[u].state \in Anchored PROVE u = v /\ v # 0
    <3>1. IsCurrent(u)
      BY <2>1 DEF RowsTracked
    <3>2. v # 0
      BY <1>5, <3>1 DEF IsCurrent
    <3> QED BY <1>5, <3>1, <3>2, OneCurrent
  <2> QED BY <2>1
<1> HIDE DEF v, new
<1>8. t.row # 0 => /\ IsCurrent(t.row) /\ t.state = profile[t.row].state /\ t.invalid = 0
                   /\ t.decision = Decide(profile[t.row], t.level)
  BY <1>2, <1>5
<1>9. t.row = 0 => /\ t.decision = Decide(AbsentRow, t.level)
                   /\ \A u \in Versions : profile[u].state \in Anchored => u = t.invalid
                   /\ t.invalid # 0 => profile[t.invalid].state \in Anchored
  <2>1. CASE new
    BY <1>2, <1>5, <1>6, <1>7, <2>1
  <2>2. CASE ~new
    BY <1>2, <1>7, <2>2
  <2> QED BY <2>1, <2>2
<1> HIDE DEF row, old
<1>10. RefreshHolds(t)
  BY <1>2, <1>4, <1>8, <1>9 DEF RefreshHolds
<1>11. RefreshHolds(t)'
  BY <1>3, <1>10 DEF RefreshHolds, IsCurrent, Live
<1> QED BY <1>3, <1>11 DEF RefreshHolds

LEMMA AnchorInit == BaselineInit => AnchorInv
<1> SUFFICES ASSUME BaselineInit PROVE AnchorInv
  OBVIOUS
<1>1. refresh["backfill"] = Idle /\ refresh["worker"] = Idle
  BY DEF BaselineInit, Writers
<1>2. \A v \in Versions : profile[v].state = "ABSENT"
  BY DEF BaselineInit, AbsentRow, NewRow
<1>3. RowsTracked
  BY <1>2 DEF RowsTracked, Anchored, IsCurrent, Live
<1>4. PICK t : t = Idle
  OBVIOUS
<1>5. t.pc = "idle"
  BY <1>4 DEF Idle
<1>6. RefreshHolds(t)
  BY <1>5 DEF RefreshHolds
<1> QED BY <1>1, <1>3, <1>4, <1>6 DEF AnchorInv

LEMMA IdleHolds ==
    ASSUME refresh'["worker"] = Idle
    PROVE  RefreshHolds(refresh["worker"])'
<1>1. PICK t : t = Idle
  OBVIOUS
<1>2. t.pc = "idle"
  BY <1>1 DEF Idle
<1> QED BY <1>1, <1>2 DEF RefreshHolds

LEMMA AnchorStep ==
    ASSUME BaselineTypeOK, AnchorInv, [BaselineNext]_baselineVars
    PROVE  AnchorInv' /\ (backfills' = 0 => Moved)
<1> SUFFICES ASSUME backfills' = 0 PROVE AnchorInv' /\ Moved
  BY DEF AnchorInv
<1>0. backfills = 0
  <2>1. backfills' = backfills \/ (backfills' = backfills + 1 /\ backfills \in Nat)
    <3>1. CASE BackfillReads
      BY <3>1 DEF BackfillReads, BaselineTypeOK
    <3>2. CASE ~BackfillReads
      BY <3>2 DEF BaselineNext, WorkerReads, SweepReads, ReadNextVersion, Commit, Rollback,
                  SignalChanges, baselineVars
    <3> QED BY <3>1, <3>2
  <2> QED BY <2>1
<1>1. /\ refresh["backfill"] = Idle /\ RowsTracked /\ RefreshHolds(refresh["worker"])
      /\ refresh["backfill"].pc = "idle"
  BY <1>0 DEF AnchorInv, Idle
<1>2. ASSUME profile' = profile, recent' = recent, RefreshHolds(refresh["worker"])',
             refresh'["backfill"] = Idle
      PROVE  AnchorInv' /\ Moved
  <2>1. RowsTracked'
    BY <1>1, <1>2 DEF RowsTracked, IsCurrent, Live, CandidateTracked
  <2>2. Anchors' = Anchors
    BY <1>2 DEF Anchors
  <2> QED BY <1>2, <2>1, <2>2 DEF AnchorInv, Moved
<1>3. CASE UNCHANGED baselineVars \/ SignalChanges
  <2>1. UNCHANGED <<profile, refresh, recent>>
    BY <1>3 DEF baselineVars, SignalChanges
  <2>2. RefreshHolds(refresh["worker"])'
    BY <1>1, <2>1 DEF RefreshHolds, IsCurrent, Live
  <2> QED BY <1>1, <1>2, <2>1, <2>2
<1>4. CASE WorkerReads
  <2>1. ReadAndDecide("worker", signal.level)
    BY <1>4 DEF WorkerReads
  <2>2. RefreshHolds(refresh["worker"])'
    BY <1>1, <2>1, ReadHolds
  <2>3. refresh'["backfill"] = refresh["backfill"] /\ UNCHANGED <<profile, recent>>
    BY <2>1 DEF ReadAndDecide, BaselineTypeOK, Writers
  <2> QED BY <1>1, <1>2, <2>2, <2>3
<1>5. CASE BackfillReads
  BY <1>0, <1>5 DEF BackfillReads
<1>6. ASSUME NEW v \in Versions, SweepReads(v) PROVE AnchorInv' /\ Moved
  <2>1. PICK t : /\ refresh' = [refresh EXCEPT !["worker"] = t]
                 /\ t.pc = "decided" /\ t.row = v /\ t.level = NoLevel /\ t.invalid = 0
                 /\ t.decision.action = "MARK_STALE"
    BY <1>6, SweepIs DEF SweepReads
  <2>2. /\ refresh'["worker"] = t /\ refresh'["backfill"] = refresh["backfill"]
        /\ UNCHANGED <<profile, recent>> /\ profile[v].state = "ACTIVE"
    BY <1>6, <2>1 DEF SweepReads, BaselineTypeOK, Writers
  <2>3. v # 0
    BY BaselineAssumption DEF Versions
  <2>4. RefreshHolds(t)'
    BY <2>1, <2>2, <2>3 DEF RefreshHolds
  <2>5. RefreshHolds(refresh["worker"])'
    BY <2>2, <2>4 DEF RefreshHolds
  <2> QED BY <1>1, <1>2, <2>2, <2>5
<1>7. ASSUME NEW w \in Writers, ReadNextVersion(w) PROVE AnchorInv' /\ Moved
  <2>1. w = "worker"
    BY <1>1, <1>7 DEF ReadNextVersion, Writers
  <2>2. PICK t \in Transaction : t = refresh["worker"]
    BY DEF BaselineTypeOK, Writers
  <2>3. PICK n : n = NextVersion
    OBVIOUS
  <2>4. PICK u : u = [t EXCEPT !.pc = "numbered", !.version = n]
    OBVIOUS
  <2>5. /\ u.pc = "numbered" /\ u.version = n /\ u.row = t.row /\ u.state = t.state
        /\ u.level = t.level /\ u.invalid = t.invalid /\ u.decision = t.decision
    BY <2>2, <2>4 DEF Transaction
  <2>6. /\ refresh'["worker"] = u /\ refresh'["backfill"] = refresh["backfill"]
        /\ UNCHANGED <<profile, recent>> /\ t.pc = "decided" /\ t.row = 0
    BY <1>7, <2>1, <2>2, <2>3, <2>4 DEF ReadNextVersion, Creates, BaselineTypeOK, Writers
  <2>7. RefreshHolds(t)
    BY <1>1, <2>2
  <2>8. RefreshHolds(u)
    BY <2>3, <2>5, <2>6, <2>7, NextIs DEF RefreshHolds
  <2>9. RefreshHolds(u)'
    BY <2>6, <2>8 DEF RefreshHolds, IsCurrent, Live
  <2>10. RefreshHolds(refresh["worker"])'
    BY <2>6, <2>9 DEF RefreshHolds
  <2> QED BY <1>1, <1>2, <2>6, <2>10
<1>8. ASSUME NEW w \in Writers, Commit(w) PROVE AnchorInv' /\ Moved
  <2>1. w = "worker"
    BY <1>1, <1>8 DEF Commit, Creates, Writers
  <2>2. Commit("worker")
    BY <1>8, <2>1
  <2>3. RowsTracked' /\ Moved
    <3>1. CASE refresh["worker"].row = 0
      BY <1>0, <2>2, <3>1, NewRowWrites DEF Moved
    <3>2. CASE refresh["worker"].decision.action = "MARK_STALE"
      BY <1>0, <2>2, <3>2, SweepWrites DEF Moved
    <3>3. CASE refresh["worker"].row # 0 /\ refresh["worker"].decision.action # "MARK_STALE"
      BY <1>0, <2>2, <3>3, DecisionWrites
    <3> QED BY <3>1, <3>2, <3>3
  <2>4. refresh'["worker"] = Idle /\ refresh'["backfill"] = refresh["backfill"]
    BY <2>2 DEF Commit, BaselineTypeOK, Writers
  <2> QED BY <1>1, <2>3, <2>4, IdleHolds DEF AnchorInv
<1>9. ASSUME NEW w \in Writers, Rollback(w) PROVE AnchorInv' /\ Moved
  <2>1. w = "worker"
    BY <1>1, <1>9 DEF Rollback, Writers
  <2>2. /\ refresh'["worker"] = Idle /\ refresh'["backfill"] = refresh["backfill"]
        /\ UNCHANGED <<profile, recent>>
    BY <1>9, <2>1 DEF Rollback, BaselineTypeOK, Writers
  <2> QED BY <1>1, <1>2, <2>2, IdleHolds
<1> QED BY <1>3, <1>4, <1>5, <1>6, <1>7, <1>8, <1>9 DEF BaselineNext

\* Contamination control: while no backfill runs beside the worker, the anchor moves only
\* near the one before it or to a level that has settled away from it for as many
\* evaluations as the stability gate asks for, whatever the levels, what counts as near,
\* the gate, the firmware versions, sweeps and rollbacks.
THEOREM AnchorStaysConfirmed == BaselineSpec => AnchorMovesConfirmed
<1>1. BaselineTypeOK /\ AnchorInv /\ [BaselineNext]_baselineVars => BaselineTypeOK' /\ AnchorInv'
  BY BaselineTypeStep, AnchorStep
<1>2. BaselineInit => BaselineTypeOK /\ AnchorInv
  BY BaselineTypeInit, AnchorInit
<1>3. BaselineTypeOK /\ AnchorInv /\ [BaselineNext]_baselineVars =>
        [backfills' = 0 =>
           \A new \in Anchors' \ Anchors :
              \/ \E old \in Anchors : <<new, old>> \in Near
              \/ /\ recent'[1] = new
                 /\ \A old \in Anchors \cup {NoLevel} : SettledAwayFrom(old)']_baselineVars
  BY AnchorStep DEF Moved
<1> QED BY <1>1, <1>2, <1>3, PTL DEF BaselineSpec, AnchorMovesConfirmed

-----------------------------------------------------------------------------
(* The synthesis of a condition. *)

SourceTypes == {"RULE_FINDING", "STATE_ESTIMATE", "ML_RESULT"}

EvidenceOfRows == evidence \subseteq Rows

LEMMA LevelValues == Level("LOW") = 1 /\ Level("MODERATE") = 2 /\ Level("HIGH") = 3
<1>1. DOMAIN Confidences = {1, 2, 3}
  BY DEF Confidences
<1>2. Confidences[1] = "LOW" /\ Confidences[2] = "MODERATE" /\ Confidences[3] = "HIGH"
  BY DEF Confidences
<1> QED BY <1>1, <1>2 DEF Level

LEMMA Ranks ==
    /\ Rank("INFO") = 1 /\ Rank("WARNING") = 2 /\ Rank("HIGH") = 3 /\ Rank("CRITICAL") = 4
    /\ \A i \in 1 .. 4 : Rank(SeverityOrder[i]) = i
<1>1. DOMAIN SeverityOrder = {1, 2, 3, 4}
  BY DEF SeverityOrder
<1>2. /\ SeverityOrder[1] = "INFO" /\ SeverityOrder[2] = "WARNING"
      /\ SeverityOrder[3] = "HIGH" /\ SeverityOrder[4] = "CRITICAL"
  BY DEF SeverityOrder
<1>3. /\ Rank("INFO") = 1 /\ Rank("WARNING") = 2 /\ Rank("HIGH") = 3
      /\ Rank("CRITICAL") = 4
  BY <1>1, <1>2 DEF Rank
<1> QED BY <1>2, <1>3

LEMMA MaxOfRanks ==
    ASSUME NEW S \in SUBSET (1 .. 4), S # {}
    PROVE  Max(S) \in S /\ \A i \in S : Max(S) >= i
<1>1. PICK m \in S : \A i \in S : m >= i
  <2>0. \A i \in S : i = 1 \/ i = 2 \/ i = 3 \/ i = 4
    OBVIOUS
  <2>1. CASE 4 \in S BY <2>0, <2>1
  <2>2. CASE 4 \notin S /\ 3 \in S BY <2>0, <2>2
  <2>3. CASE 4 \notin S /\ 3 \notin S /\ 2 \in S BY <2>0, <2>3
  <2>4. CASE 4 \notin S /\ 3 \notin S /\ 2 \notin S
    <3>1. S = {1} BY <2>0, <2>4
    <3> QED BY <3>1
  <2> QED BY <2>1, <2>2, <2>3, <2>4
<1> QED BY <1>1 DEF Max

\* What a vote of row for an established hypothesis leaves alone: the hypotheses.
LEMMA VoteAddsNoHypothesis ==
    ASSUME NEW E, NEW row, NEW type \in Hypotheses(E),
           Votes(row), HintOf(row) \in MatchingHints(type), Normal \notin Voted(E)
    PROVE  /\ Hypotheses(E \cup {row}) = Hypotheses(E)
           /\ Normal \notin Voted(E \cup {row})
<1> DEFINE V == Voted(E) \ {Normal}
           W == Voted(E \cup {row}) \ {Normal}
<1>1. Voted(E \cup {row}) = Voted(E) \cup {HintOf(row)}
  BY DEF Voted
<1>2. type \in V /\ Specifics(type) \cap V = {}
  BY DEF Hypotheses
<1>3. \/ HintOf(row) = type
      \/ HintOf(row) \in {Delivery, Bearing} /\ type \in Specifics(HintOf(row))
  BY DEF MatchingHints
<1>4. HintOf(row) # Normal
  BY <1>2, <1>3 DEF Delivery, Bearing, Normal
<1>5. W = V \cup {HintOf(row)} /\ Normal \notin Voted(E \cup {row})
  BY <1>1, <1>4
<1>6. CASE HintOf(row) = type
  <2>1. W = V
    BY <1>2, <1>5, <1>6
  <2> QED BY <1>5, <2>1 DEF Hypotheses
<1>7. CASE HintOf(row) \in {Delivery, Bearing} /\ type \in Specifics(HintOf(row))
  <2>1. \A t : HintOf(row) \notin Specifics(t)
    BY <1>7 DEF Specifics, Delivery, Bearing, RestrictionPattern, Blockage, LeakagePattern,
                PumpPerformance, LowLubricant, IndependentBearing
  <2>2. \A t : Specifics(t) \cap W = Specifics(t) \cap V
    BY <1>5, <2>1
  <2>3. Specifics(HintOf(row)) \cap W # {}
    BY <1>2, <1>5, <1>7
  <2>4. \A t : t \in W /\ Specifics(t) \cap W = {} <=> t \in V /\ Specifics(t) \cap V = {}
    BY <1>5, <2>2, <2>3
  <2>5. /\ Hypotheses(E \cup {row}) = {t \in W : Specifics(t) \cap W = {}}
        /\ Hypotheses(E) = {t \in V : Specifics(t) \cap V = {}}
    BY DEF Hypotheses
  <2> QED BY <1>5, <2>4, <2>5
<1> QED BY <1>3, <1>6, <1>7

\* The verdict on one hypothesis grows with the votes for it.
LEMMA SingleGrows ==
    ASSUME NEW E \in SUBSET Rows, NEW row \in Rows, NEW type,
           Votes(row), HintOf(row) \in MatchingHints(type)
    PROVE  LET before == SingleHypothesis(E, type)
               after  == SingleHypothesis(E \cup {row}, type)
           IN  /\ before.type = type /\ after.type = type
               /\ Level(after.confidence) >= Level(before.confidence)
               /\ \/ \A x \in For(E, type) : x.source # "RULE_FINDING"
                  \/ Rank(after.severity) >= Rank(before.severity)
<1> DEFINE voters(D) == {x \in For(D, type) : Votes(x)}
           strong(D) == {x \in voters(D) : StrengthOf(x) = "STRONG"}
           sources(D) == {x.source : x \in voters(D)}
           confidence(D) == CASE strong(D) # {} /\ Cardinality(sources(D)) >= 2 -> "HIGH"
                              [] strong(D) # {} \/ Cardinality(sources(D)) >= 2 -> "MODERATE"
                              [] OTHER -> "LOW"
           ranks(D) == {Rank(x.severity) :
                          x \in {y \in For(D, type) : y.source = "RULE_FINDING"}}
           F == E \cup {row}
<1>1. \A D : SingleHypothesis(D, type) = Verdict(type, SeverityFor(D, type), confidence(D))
  BY DEF SingleHypothesis
<1>2. \A D : /\ SingleHypothesis(D, type).type = type
             /\ SingleHypothesis(D, type).severity = SeverityFor(D, type)
             /\ SingleHypothesis(D, type).confidence = confidence(D)
  <2> HIDE DEF confidence
  <2> QED BY <1>1 DEF Verdict
<1>3. For(E, type) \subseteq For(F, type) /\ For(F, type) \subseteq Rows
  BY DEF For
<1>4. strong(E) \subseteq strong(F) /\ sources(E) \subseteq sources(F)
  BY <1>3
<1>5. /\ Cardinality(sources(E)) <= Cardinality(sources(F))
      /\ Cardinality(sources(E)) \in Nat /\ Cardinality(sources(F)) \in Nat
  <2>1. sources(F) \subseteq SourceTypes
    BY <1>3, DecisionAssumption DEF SourceTypes
  <2>2. IsFiniteSet(SourceTypes)
    <3>1. IsFiniteSet({"RULE_FINDING"})
      BY FS_Singleton
    <3>2. IsFiniteSet({"RULE_FINDING", "STATE_ESTIMATE"})
      <4>1. {"RULE_FINDING", "STATE_ESTIMATE"} = {"RULE_FINDING"} \cup {"STATE_ESTIMATE"}
        OBVIOUS
      <4> QED BY <3>1, <4>1, FS_AddElement
    <3>3. SourceTypes = {"RULE_FINDING", "STATE_ESTIMATE"} \cup {"ML_RESULT"}
      BY DEF SourceTypes
    <3> QED BY <3>2, <3>3, FS_AddElement
  <2>3. IsFiniteSet(sources(F))
    BY <2>1, <2>2, FS_Subset
  <2>4. IsFiniteSet(sources(E)) /\ Cardinality(sources(E)) <= Cardinality(sources(F))
    BY <1>4, <2>3, FS_Subset
  <2> QED BY <2>3, <2>4, FS_CardinalityType
<1>6. Level(confidence(F)) >= Level(confidence(E))
  <2> HIDE DEF strong, sources
  <2> QED BY <1>4, <1>5, LevelValues
<1>7. ASSUME NEW x \in For(E, type), x.source = "RULE_FINDING"
      PROVE  Rank(SeverityFor(F, type)) >= Rank(SeverityFor(E, type))
  <2>1. ranks(E) \subseteq ranks(F) /\ ranks(E) # {}
    BY <1>3, <1>7
  <2>2. ranks(F) \subseteq 1 .. 4
    <3>1. ASSUME NEW y \in For(F, type), y.source = "RULE_FINDING"
          PROVE  Rank(y.severity) \in 1 .. 4
      <4>1. y.severity \in {"INFO", "WARNING", "HIGH", "CRITICAL"}
        BY <1>3, <3>1, DecisionAssumption
      <4> QED BY <4>1, Ranks
    <3> QED BY <3>1
  <2>3. \A D : SeverityFor(D, type) = IF ranks(D) = {} THEN DefaultSeverity(type)
                                      ELSE SeverityOrder[Max(ranks(D))]
    BY DEF SeverityFor
  <2>4. /\ SeverityFor(E, type) = SeverityOrder[Max(ranks(E))]
        /\ SeverityFor(F, type) = SeverityOrder[Max(ranks(F))]
    BY <2>1, <2>3
  <2> HIDE DEF ranks
  <2>5. Max(ranks(E)) \in 1 .. 4 /\ Max(ranks(F)) \in 1 .. 4 /\ Max(ranks(F)) >= Max(ranks(E))
    <3>1. Max(ranks(E)) \in ranks(E)
      BY <2>1, <2>2, MaxOfRanks
    <3>2. Max(ranks(F)) \in ranks(F) /\ \A i \in ranks(F) : Max(ranks(F)) >= i
      BY <2>1, <2>2, MaxOfRanks
    <3> QED BY <2>1, <2>2, <3>1, <3>2
  <2> QED BY <2>4, <2>5, Ranks
<1> QED BY <1>2, <1>6, <1>7

\* A verdict that names a condition is that of its one hypothesis, or of the gate.
LEMMA EstablishedBy ==
    ASSUME NEW E, Synthesize(E, "usable").type \notin {Normal, Ambiguous, Insufficient}
    PROVE  LET types == Hypotheses(E)
               other == types \ {Bearing, IndependentBearing}
               type  == CHOOSE t \in types : t \in other \/ other = {}
           IN  /\ Normal \notin Voted(E) /\ types # {} /\ type \in types
               /\ \/ Cardinality(types) = 1
                  \/ /\ Cardinality(other) = 1
                     /\ Cardinality(types \cap {Bearing, IndependentBearing}) = 1
<1> DEFINE types == Hypotheses(E)
           bearing == types \cap {Bearing, IndependentBearing}
           other == types \ {Bearing, IndependentBearing}
           one == \/ Cardinality(types) = 1
                  \/ Cardinality(other) = 1 /\ Cardinality(bearing) = 1
<1>1. types # {}
  <2>1. SUFFICES ASSUME types = {} PROVE FALSE
    OBVIOUS
  <2>2. Synthesize(E, "usable") = NothingAbnormal(E)
    <3>1. ~one
      <4>1. other = {} /\ bearing = {}
        BY <2>1
      <4> QED BY <2>1, <4>1, FS_EmptySet
    <3>2. other = types \ bearing
      OBVIOUS
    <3> HIDE DEF other
    <3> QED BY <2>1, <3>1, <3>2 DEF Synthesize
  <2>3. Voted({}) = {}
    BY DEF Voted
  <2>4. NothingAbnormal(E).type \in {Normal, Insufficient}
    BY <2>3 DEF NothingAbnormal, Verdict
  <2> QED BY <2>2, <2>4
<1>2. Normal \notin Voted(E) /\ one
  <2>1. SUFFICES ASSUME ~(Normal \notin Voted(E) /\ one) PROVE FALSE
    OBVIOUS
  <2>2. other = types \ bearing
    OBVIOUS
  <2>3. Synthesize(E, "usable") = Disagreement(E)
    BY <1>1, <2>1, <2>2 DEF Synthesize
  <2> QED BY <2>3 DEF Disagreement, Verdict
<1>3. \E t \in types : t \in other \/ other = {}
  <2>1. CASE other = {} BY <1>1, <2>1
  <2>2. CASE other # {} BY <2>2
  <2> QED BY <2>1, <2>2
<1> QED BY <1>1, <1>2, <1>3

\* Corroboration (synthesis.py, the docstring of _GENERIC_TO_SPECIFIC_FAMILY): for any
\* rows of evidence, another row that speaks for the condition they establish changes
\* it to no other and weakens neither confidence nor the severity findings gave it.
THEOREM CorroborationHolds == DecisionSpec => []Corroboration
<1>1. DecisionInit => EvidenceOfRows
  BY DEF DecisionInit, EvidenceOfRows
<1>2. EvidenceOfRows /\ [DecisionNext]_decisionVars => EvidenceOfRows'
  <2> SUFFICES ASSUME EvidenceOfRows, [DecisionNext]_decisionVars PROVE EvidenceOfRows'
    OBVIOUS
  <2>1. CASE EvidenceChanges(Rows)
    BY <2>1 DEF EvidenceChanges, EvidenceOfRows, SymDiff
  <2>2. CASE CoverageChanges
    BY <2>2 DEF CoverageChanges, EvidenceOfRows
  <2>3. CASE \E r \in Requesters : Evaluates(r)
    BY <2>3 DEF Evaluates, Assess, SupersedeBegins, SupersedeEnds, CommitDecision, RequestFails,
                EvidenceOfRows
  <2>4. CASE UNCHANGED decisionVars
    BY <2>4 DEF decisionVars, EvidenceOfRows
  <2> QED BY <2>1, <2>2, <2>3, <2>4 DEF DecisionNext
<1>3. EvidenceOfRows => Corroboration
  <2> SUFFICES ASSUME EvidenceOfRows, NEW row \in Rows,
                      Synthesize(evidence, coverage).type \notin {Normal, Ambiguous, Insufficient},
                      Votes(row),
                      HintOf(row) \in MatchingHints(Synthesize(evidence, coverage).type)
               PROVE  LET before == Synthesize(evidence, coverage)
                          after  == Synthesize(evidence \cup {row}, coverage)
                      IN  /\ after.type = before.type
                          /\ Level(after.confidence) >= Level(before.confidence)
                          /\ \/ \A x \in For(evidence, before.type) : x.source # "RULE_FINDING"
                             \/ Rank(after.severity) >= Rank(before.severity)
    BY DEF Corroboration
  <2> DEFINE F == evidence \cup {row}
  <2>1. CASE coverage = "unusable"
    <3>1. \A D : Synthesize(D, coverage) = Verdict(QualityLimitation, "INFO", "MODERATE")
      BY <2>1 DEF Synthesize
    <3> QED BY <3>1, LevelValues, Ranks DEF Verdict
  <2>2. CASE coverage = "usable"
    <3> DEFINE types == Hypotheses(evidence)
               bearing == types \cap {Bearing, IndependentBearing}
               other == types \ bearing
               type == CHOOSE t \in types : t \in other \/ other = {}
    <3>1. /\ Normal \notin Voted(evidence) /\ types # {} /\ type \in types
          /\ \/ Cardinality(types) = 1
             \/ Cardinality(other) = 1 /\ Cardinality(bearing) = 1
      <4>1. other = types \ {Bearing, IndependentBearing}
        OBVIOUS
      <4> QED BY <2>2, <4>1, EstablishedBy
    <3>2. Synthesize(evidence, coverage) = SingleHypothesis(evidence, type)
      BY <2>2, <3>1 DEF Synthesize
    <3>3. evidence \in SUBSET Rows
      BY DEF EvidenceOfRows
    <3>4. Synthesize(evidence, coverage).type = type
      BY <3>2 DEF SingleHypothesis, Verdict
    <3>5. Hypotheses(F) = types /\ Normal \notin Voted(F)
      BY <3>1, <3>4, VoteAddsNoHypothesis
    <3>6. Synthesize(F, coverage) = SingleHypothesis(F, type)
      BY <2>2, <3>1, <3>5 DEF Synthesize
    <3> HIDE DEF type
    <3> QED BY <3>2, <3>3, <3>4, <3>6, SingleGrows
  <2>3. CASE coverage \notin {"unusable", "usable"}
    <3>1. Synthesize(evidence, coverage).type \in {Insufficient, Ambiguous}
      BY <2>3 DEF Synthesize, Disagreement, Verdict
    <3> QED BY <3>1
  <2> QED BY <2>1, <2>2, <2>3
<1> QED BY <1>1, <1>2, <1>3, PTL DEF DecisionSpec

-----------------------------------------------------------------------------
(* Work orders. *)

Drafting ==
    [pc : {"idle", "begun", "missing", "drafted", "failed", "crashed"},
     via : {"none", "endpoint", "chat"},
     of : DraftCases \cup {NoReference}, reference : ReferenceOrNone, new : BOOLEAN]

OneOrderPerCase == \A o, p \in orders : o.of = p.of => o = p

\* A request under way has a case, and one that goes to be answered a reference.
CaseKnown(t) ==
    /\ t.pc # "idle" => t.of \in DraftCases
    /\ t.pc = "drafted" => t.reference \in References
    /\ t.new => t.pc = "drafted"

\* What it will answer stands in the table, or is the row it has inserted.
WillAgree(t) ==
    /\ t.pc = "drafted" /\ ~t.new => [of |-> t.of, reference |-> t.reference] \in orders
    /\ t.new => Committed(t.of) = {}

\* The index lets one insert of a case through at a time.
OneInsertPerCase ==
    \A c, d \in Clients : draft[c].new /\ draft[d].new /\ draft[c].of = draft[d].of => c = d

WorkOrderInv ==
    /\ WorkOrderTypeOK
    /\ told \subseteq orders
    /\ OneOrderPerCase
    /\ \A c \in Clients : CaseKnown(draft[c]) /\ WillAgree(draft[c])
    /\ OneInsertPerCase

LEMMA WorkOrderStarts == WorkOrderInit => WorkOrderInv
BY DEF WorkOrderInit, WorkOrderInv, WorkOrderTypeOK, OneOrderPerCase, CaseKnown, WillAgree,
       OneInsertPerCase, NoDraft, ReferenceOrNone

\* A step that changes one request only.
LEMMA GoesOn ==
    ASSUME WorkOrderInv, NEW c \in Clients, NEW t \in Drafting, Goes(c, t),
           CaseKnown(t), WillAgree(t),
           t.new => \A d \in Clients \ {c} : ~(draft[d].new /\ draft[d].of = t.of)
    PROVE  WorkOrderInv'
<1> USE DEF WorkOrderInv
<1>1. draft \in [Clients -> Drafting]
  BY DEF WorkOrderTypeOK, Drafting
<1>2. /\ \A d \in Clients : draft'[d] = IF d = c THEN t ELSE draft[d]
      /\ draft' \in [Clients -> Drafting]
      /\ UNCHANGED <<orders, told>>
  BY <1>1 DEF Goes
<1>3. WorkOrderTypeOK'
  BY <1>2 DEF WorkOrderTypeOK, Drafting, ReferenceOrNone
<1>4. OneOrderPerCase' /\ (told \subseteq orders)'
  BY <1>2 DEF OneOrderPerCase
<1>5. \A d \in Clients : (CaseKnown(draft[d]) /\ WillAgree(draft[d]))'
  BY <1>2 DEF CaseKnown, WillAgree, Committed
<1>6. OneInsertPerCase'
  BY <1>2 DEF OneInsertPerCase
<1> QED BY <1>3, <1>4, <1>5, <1>6

\* The end of a request: its row, if it has inserted one, and its answer.
LEMMA TellsTheOrder ==
    ASSUME WorkOrderInv, NEW c \in Clients, Tells(c), draft[c].pc = "drafted"
    PROVE  WorkOrderInv'
<1> DEFINE row == [of |-> draft[c].of, reference |-> draft[c].reference]
<1> USE DEF WorkOrderInv
<1>1. draft \in [Clients -> Drafting] /\ NoDraft \in Drafting
  BY DEF WorkOrderTypeOK, Drafting, NoDraft, ReferenceOrNone
<1>2. /\ \A d \in Clients : draft'[d] = IF d = c THEN NoDraft ELSE draft[d]
      /\ draft' \in [Clients -> Drafting]
  BY <1>1 DEF Tells
<1>3. row \in [of : DraftCases, reference : References]
  BY DEF CaseKnown
<1>4. /\ draft[c].new => orders' = orders \cup {row} /\ Committed(draft[c].of) = {}
      /\ ~draft[c].new => orders' = orders /\ row \in orders
      /\ told' = told \cup {row}
  BY DEF Tells, Inserted, WillAgree
<1>5. WorkOrderTypeOK'
  BY <1>2, <1>3, <1>4 DEF WorkOrderTypeOK, Drafting
<1>6. (told \subseteq orders)'
  BY <1>4
<1>7. OneOrderPerCase'
  BY <1>4 DEF OneOrderPerCase, Committed
<1>8. ASSUME NEW d \in Clients
      PROVE  (CaseKnown(draft[d]) /\ WillAgree(draft[d]))'
  <2>1. CASE d = c
    BY <1>2, <2>1 DEF CaseKnown, WillAgree, NoDraft
  <2>2. CASE d # c
    <3>1. draft'[d] = draft[d]
      BY <1>2, <2>2
    <3>2. draft[c].new /\ draft[d].new => draft[d].of # draft[c].of
      BY <2>2 DEF OneInsertPerCase
    <3> QED BY <1>4, <3>1, <3>2 DEF CaseKnown, WillAgree, Committed
  <2> QED BY <2>1, <2>2
<1>9. OneInsertPerCase'
  BY <1>2 DEF OneInsertPerCase, NoDraft
<1> QED BY <1>5, <1>6, <1>7, <1>8, <1>9

LEMMA WorkOrderStep == WorkOrderInv /\ [WorkOrderNext]_workOrderVars => WorkOrderInv'
<1> SUFFICES ASSUME WorkOrderInv, [WorkOrderNext]_workOrderVars
             PROVE  WorkOrderInv'
  OBVIOUS
<1>1. CASE UNCHANGED workOrderVars
  BY <1>1 DEF workOrderVars, WorkOrderInv, WorkOrderTypeOK, OneOrderPerCase, CaseKnown,
              WillAgree, Committed, OneInsertPerCase
<1>2. ASSUME NEW c \in Clients, DraftStep(c)
      PROVE  WorkOrderInv'
  <2>0. draft[c] \in Drafting /\ CaseKnown(draft[c]) /\ WillAgree(draft[c])
    BY DEF WorkOrderInv, WorkOrderTypeOK, Drafting
  <2>1. CASE DraftRequested(c)
    <3>1. PICK via \in {"endpoint", "chat"}, k \in DraftCases :
             Goes(c, [NoDraft EXCEPT !.pc = "begun", !.via = via, !.of = k])
      BY <2>1 DEF DraftRequested
    <3> DEFINE t == [NoDraft EXCEPT !.pc = "begun", !.via = via, !.of = k]
    <3>2. t \in Drafting /\ CaseKnown(t) /\ WillAgree(t) /\ ~t.new
      BY DEF NoDraft, Drafting, ReferenceOrNone, CaseKnown, WillAgree
    <3> HIDE DEF t
    <3> QED BY <3>1, <3>2, GoesOn DEF t
  <2>2. CASE TurnWithoutDraft(c) \/ DraftRolledBack(c)
    <3>1. NoDraft \in Drafting /\ CaseKnown(NoDraft) /\ WillAgree(NoDraft) /\ ~NoDraft.new
      BY DEF NoDraft, Drafting, ReferenceOrNone, CaseKnown, WillAgree
    <3>2. Goes(c, NoDraft)
      BY <2>2 DEF TurnWithoutDraft, DraftRolledBack
    <3> QED BY <3>1, <3>2, GoesOn
  <2>3. CASE LooksUp(c)
    <3>1. draft[c].pc = "begun"
      BY <2>3 DEF LooksUp
    <3>2. CASE Committed(draft[c].of) = {}
      <4> DEFINE t == [draft[c] EXCEPT !.pc = "missing"]
      <4>1. t \in Drafting /\ CaseKnown(t) /\ WillAgree(t) /\ ~t.new
        BY <2>0, <3>1 DEF Drafting, CaseKnown, WillAgree
      <4>2. Goes(c, t)
        BY <2>3, <3>2 DEF LooksUp
      <4> HIDE DEF t
      <4> QED BY <4>1, <4>2, GoesOn
    <3>3. CASE Committed(draft[c].of) # {}
      <4>1. PICK o \in Committed(draft[c].of) :
               Goes(c, [draft[c] EXCEPT !.pc = "drafted", !.reference = o.reference])
        BY <2>3, <3>3 DEF LooksUp
      <4> DEFINE t == [draft[c] EXCEPT !.pc = "drafted", !.reference = o.reference]
      <4>2. /\ o \in orders /\ o.of = draft[c].of
            /\ o \in [of : DraftCases, reference : References]
        BY DEF Committed, WorkOrderInv, WorkOrderTypeOK
      <4>3. ~draft[c].new
        BY <2>0, <3>1 DEF CaseKnown
      <4>4. o = [of |-> draft[c].of, reference |-> o.reference]
        BY <4>2
      <4>5. t \in Drafting /\ CaseKnown(t) /\ WillAgree(t) /\ ~t.new
        BY <2>0, <4>2, <4>3, <4>4 DEF Drafting, ReferenceOrNone, CaseKnown, WillAgree
      <4> HIDE DEF t
      <4> QED BY <4>1, <4>5, GoesOn DEF t
    <3> QED BY <3>2, <3>3
  <2>4. CASE Inserts(c)
    <3>1. draft[c].pc = "missing" /\ ~InsertUnderWay(draft[c].of)
      BY <2>4 DEF Inserts
    <3>2. CASE InsertAllowed(draft[c].of)
      <4> DEFINE ref == CHOOSE r \in FreshReferences : TRUE
                 t == [draft[c] EXCEPT !.pc = "drafted", !.new = TRUE, !.reference = ref]
      <4>1. FreshReferences # {} /\ Goes(c, t)
        BY <2>4, <3>2 DEF Inserts
      <4>2. ref \in References
        BY <4>1 DEF FreshReferences
      <4> HIDE DEF ref
      <4>3. t \in Drafting /\ CaseKnown(t) /\ WillAgree(t)
        BY <2>0, <3>1, <3>2, <4>2
        DEF Drafting, ReferenceOrNone, CaseKnown, WillAgree, InsertAllowed
      <4>4. \A d \in Clients \ {c} : ~(draft[d].new /\ draft[d].of = t.of)
        BY <2>0, <3>1 DEF InsertUnderWay, Drafting
      <4> HIDE DEF t
      <4> QED BY <4>1, <4>3, <4>4, GoesOn
    <3>3. CASE ~InsertAllowed(draft[c].of)
      <4> DEFINE t == [draft[c] EXCEPT !.pc = "failed"]
      <4>1. Goes(c, t)
        BY <2>4, <3>3 DEF Inserts
      <4>2. t \in Drafting /\ CaseKnown(t) /\ WillAgree(t) /\ ~t.new
        BY <2>0, <3>1 DEF Drafting, CaseKnown, WillAgree
      <4> HIDE DEF t
      <4> QED BY <4>1, <4>2, GoesOn
    <3> QED BY <3>2, <3>3
  <2>5. CASE EndpointAnswers(c) \/ TurnAnswers(c)
    BY <2>5, TellsTheOrder DEF EndpointAnswers, TurnAnswers
  <2>6. CASE TurnCrashes(c)
    <3> DEFINE t == [draft[c] EXCEPT !.pc = "crashed"]
    <3>1. Goes(c, t) /\ draft[c].pc = "failed"
      BY <2>6 DEF TurnCrashes
    <3>2. t \in Drafting /\ CaseKnown(t) /\ WillAgree(t) /\ ~t.new
      BY <2>0, <3>1 DEF Drafting, CaseKnown, WillAgree
    <3> HIDE DEF t
    <3> QED BY <3>1, <3>2, GoesOn
  <2> QED BY <1>2, <2>1, <2>2, <2>3, <2>4, <2>5, <2>6 DEF DraftStep
<1> QED BY <1>1, <1>2 DEF WorkOrderNext

\* docs/CMMS_INTEGRATION.md, Idempotency, for any cases, references and requests: every
\* reference that was answered or stands in a message is that of the case's one work order.
THEOREM OneReferencePerCase == WorkOrderSpec => []ReferencesAgree
<1>1. WorkOrderInv => ReferencesAgree
  BY DEF WorkOrderInv, ReferencesAgree, OneOrderPerCase
<1> QED BY WorkOrderStarts, WorkOrderStep, <1>1, PTL DEF WorkOrderSpec

-----------------------------------------------------------------------------
(* Documents. *)

Editing ==
    [pc : {"idle", "read", "found", "saved", "conflict"},
     op : {"none", "ingest", "seed", "move", "approve"},
     row : Documents \cup {NoRow}, to : DocumentStatus, prior : Documents \cup {NoRow},
     version : DocumentVersions \cup {NoRow}, stale : BOOLEAN]

\* The time of an approval is a maximum over all rows; nothing but the order of
\* PriorVersion depends on it, so its type is left to KnowledgeTypeCorrect.
IsRow(r) == r = [status |-> r.status, version |-> r.version, approved_at |-> r.approved_at]

\* An editor has the row it writes, the seed works on global documents only, and
\* no move approves.
EditFits(t) ==
    /\ t.pc \in {"found", "saved"} => t.op \in {"approve", "seed"}
    /\ t.pc = "saved" => t.op = "approve"
    /\ t.pc # "idle" /\ t.op \in {"approve", "move"} => t.row \in Documents
    /\ t.op = "move" => t.to # "APPROVED"
    /\ t.op = "ingest" => ~global
    /\ t.op = "seed" => global

\* What an editor that was not overtaken has read is still so: apart from the prior
\* version there are no more approved ones than those overtaken, and the version
\* that the seed is about to add does not exist.
ReadingHolds(t) ==
    ~t.stale /\ global =>
        /\ t.pc \in {"found", "saved"} => Cardinality(Approved \ {t.prior}) <= overtaken
        /\ t.pc \in {"read", "found"} /\ t.op = "seed" => OfVersion(t.version) = {}

\* Only one approval at a time is between its UPDATE and its commit; the index has
\* seen to it that nothing else of the tenant is approved.
SavedAlone ==
    \A e \in Editors : edit[e].pc = "saved" =>
        /\ \A o \in Editors : edit[o].pc = "saved" => o = e
        /\ ~global => Approved \subseteq {edit[e].row}

Few(S) ==
    /\ global => Cardinality(S) <= 1 + overtaken
    /\ ~global => \A d, o \in S : d = o

KnowledgeInv ==
    /\ global \in BOOLEAN /\ overtaken \in Nat
    /\ edit \in [Editors -> Editing]
    /\ DOMAIN document = Documents
    /\ \A d \in Documents : IsRow(document[d])
    /\ \A e \in Editors : EditFits(edit[e]) /\ ReadingHolds(edit[e])
    /\ SavedAlone
    /\ Few(Approved)
    /\ \A v \in DocumentVersions : Few(OfVersion(v))

LEMMA FiniteParts ==
    ASSUME NEW S, S \subseteq Documents
    PROVE  IsFiniteSet(S) /\ Cardinality(S) \in Nat
BY KnowledgeAssumption, FS_Subset, FS_CardinalityType

LEMMA Smaller ==
    ASSUME NEW S, NEW T, S \subseteq Documents, T \subseteq S
    PROVE  Cardinality(T) <= Cardinality(S)
BY FiniteParts, FS_Subset

LEMMA OneMore ==
    ASSUME NEW S, NEW T, NEW x, S \subseteq Documents, T \subseteq S \cup {x}
    PROVE  Cardinality(T) <= Cardinality(S) + 1
<1>1. IsFiniteSet(S) /\ Cardinality(S) \in Nat
  BY FiniteParts
<1>2. IsFiniteSet(S \cup {x}) /\ Cardinality(S \cup {x}) <= Cardinality(S) + 1
  BY <1>1, FS_AddElement
<1>3. Cardinality(T) <= Cardinality(S \cup {x})
  BY <1>2, FS_Subset
<1>4. Cardinality(T) \in Nat /\ Cardinality(S \cup {x}) \in Nat
  BY <1>2, FS_Subset, FS_CardinalityType
<1> QED BY <1>1, <1>2, <1>3, <1>4

LEMMA FewSmaller ==
    ASSUME NEW S, NEW T, S \subseteq Documents, T \subseteq S, Few(S), overtaken \in Nat
    PROVE  Few(T)
BY FiniteParts, Smaller DEF Few

LEMMA KnowledgeStarts == KnowledgeInit => KnowledgeInv
<1> SUFFICES ASSUME KnowledgeInit PROVE KnowledgeInv
  OBVIOUS
<1>1. Approved = {} /\ \A v \in DocumentVersions : OfVersion(v) = {}
  BY KnowledgeAssumption DEF KnowledgeInit, Approved, OfVersion, NoDocument
<1>2. Few({})
  BY FS_EmptySet DEF Few, KnowledgeInit
<1>3. NoEdit \in Editing /\ NoEdit.pc = "idle" /\ NoEdit.op = "none"
  BY DEF NoEdit, Editing, DocumentStatus
<1>4. \A e \in Editors : EditFits(edit[e]) /\ ReadingHolds(edit[e]) /\ edit[e].pc # "saved"
  BY <1>3 DEF KnowledgeInit, EditFits, ReadingHolds
<1>5. \A d \in Documents : IsRow(document[d])
  BY DEF KnowledgeInit, IsRow, NoDocument
<1> QED BY <1>1, <1>2, <1>3, <1>4, <1>5 DEF KnowledgeInv, KnowledgeInit, SavedAlone

\* A step that changes one editor only.
LEMMA EditGoesOn ==
    ASSUME KnowledgeInv, NEW e \in Editors, NEW t \in Editing, Edits(e, t),
           EditFits(t), ReadingHolds(t),
           t.pc = "saved" => /\ \A o \in Editors : edit[o].pc # "saved"
                             /\ ~global => Approved \subseteq {t.row}
    PROVE  KnowledgeInv'
<1> USE DEF KnowledgeInv
<1>1. /\ \A o \in Editors : edit'[o] = IF o = e THEN t ELSE edit[o]
      /\ edit' \in [Editors -> Editing]
      /\ UNCHANGED <<global, document, overtaken>>
  BY DEF Edits
<1>2. Approved' = Approved /\ \A v : OfVersion(v)' = OfVersion(v)
  BY <1>1 DEF Approved, OfVersion
<1>3. \A o \in Editors : (EditFits(edit[o]) /\ ReadingHolds(edit[o]))'
  <2> TAKE o \in Editors
  <2>1. EditFits(edit'[o]) /\ ReadingHolds(edit'[o])
    BY <1>1
  <2> QED BY <1>1, <1>2, <2>1 DEF EditFits, ReadingHolds
<1>4. SavedAlone'
  BY <1>1, <1>2 DEF SavedAlone
<1>5. Few(Approved)' /\ \A v \in DocumentVersions : Few(OfVersion(v))'
  BY <1>1, <1>2 DEF Few
<1> QED BY <1>1, <1>3, <1>4, <1>5


\* A step that ends an edit, which approves nothing and adds no version that a global
\* document may have.
LEMMA RowsShrink ==
    ASSUME KnowledgeInv, NEW e \in Editors,
           edit' = [edit EXCEPT ![e] = NoEdit], UNCHANGED <<global, overtaken>>,
           DOMAIN document' = Documents,
           \A d \in Documents : IsRow(document'[d]),
           Approved' \subseteq Approved,
           \A v \in DocumentVersions : Few(OfVersion(v))',
           global => \A v \in DocumentVersions \cup {NoRow} : OfVersion(v)' = OfVersion(v)
    PROVE  KnowledgeInv'
<1> USE DEF KnowledgeInv
<1>1. NoEdit \in Editing /\ NoEdit.pc = "idle" /\ NoEdit.op = "none"
  BY DEF NoEdit, Editing, DocumentStatus
<1>2. /\ \A o \in Editors : edit'[o] = IF o = e THEN NoEdit ELSE edit[o]
      /\ edit' \in [Editors -> Editing]
  BY <1>1
<1>3. ASSUME NEW o \in Editors
      PROVE  (EditFits(edit[o]) /\ ReadingHolds(edit[o]))'
  <2>1. CASE o = e
    BY <1>1, <1>2, <2>1 DEF EditFits, ReadingHolds
  <2>2. CASE o # e
    <3>1. edit'[o] = edit[o] /\ EditFits(edit[o]) /\ ReadingHolds(edit[o])
      BY <1>2, <2>2
    <3> DEFINE before == Approved \ {edit[o].prior}
               after == Approved' \ {edit[o].prior}
    <3>2. before \subseteq Documents /\ after \subseteq before
      BY DEF Approved
    <3> HIDE DEF before, after
    <3>3. Cardinality(before) \in Nat /\ Cardinality(after) \in Nat
          /\ Cardinality(after) <= Cardinality(before)
      BY <3>2, FiniteParts, Smaller
    <3>4. edit[o].version \in DocumentVersions \cup {NoRow}
      BY DEF Editing
    <3>5. EditFits(edit[o])'
      BY <3>1 DEF EditFits
    <3>6. ASSUME global, ~edit[o].stale, edit[o].pc \in {"found", "saved"}
          PROVE  Cardinality(after) <= overtaken
      <4>1. Cardinality(before) <= overtaken
        BY <3>1, <3>6 DEF ReadingHolds, before
      <4> QED BY <3>3, <4>1
    <3>7. global => OfVersion(edit[o].version)' = OfVersion(edit[o].version)
      BY <1>2, <2>2, <3>4
    <3>8. ReadingHolds(edit[o])'
      BY <3>1, <3>6, <3>7 DEF ReadingHolds, after
    <3> QED BY <3>5, <3>8
  <2> QED BY <2>1, <2>2
<1>4. SavedAlone'
  BY <1>1, <1>2 DEF SavedAlone
<1>5. Few(Approved)'
  <2>1. Approved \subseteq Documents
    BY DEF Approved
  <2> QED BY <2>1, FewSmaller DEF Few
<1> QED BY <1>2, <1>3, <1>4, <1>5

\* The commit of an approval.
LEMMA PublishKeeps ==
    ASSUME KnowledgeInv, NEW e \in Editors, NEW d \in Documents, NEW row, PublishDocument(e, d, row),
           IsRow(row), row.status = "APPROVED",
           edit[e].pc \in {"found", "saved"},
           ~global => edit[e].pc = "saved" /\ edit[e].row = d /\ row.version = document[d].version,
           \/ row.version = document[d].version
           \/ edit[e].stale \/ OfVersion(row.version) = {}
    PROVE  KnowledgeInv'
<1> USE DEF KnowledgeInv
<1> DEFINE prior == edit[e].prior
<1>1. NoEdit \in Editing /\ NoEdit.pc = "idle" /\ NoEdit.op = "none"
  BY DEF NoEdit, Editing, DocumentStatus
<1>2. /\ \A o \in Editors : edit'[o] = IF o = e THEN NoEdit
                                       ELSE [edit[o] EXCEPT !.stale = edit[o].pc # "idle"]
      /\ edit' \in [Editors -> Editing]
  <2>1. ASSUME NEW o \in Editors
        PROVE  [edit[o] EXCEPT !.stale = edit[o].pc # "idle"] \in Editing
    <3>1. edit[o] \in Editing /\ (edit[o].pc # "idle") \in BOOLEAN
      OBVIOUS
    <3> QED BY <3>1 DEF Editing
  <2> QED BY <1>1, <2>1 DEF PublishDocument
<1>3. \A o \in Documents :
          /\ document'[o] = CASE o = d -> row
                              [] o # d /\ o = prior -> [document[o] EXCEPT !.status = "RETIRED"]
                              [] OTHER -> document[o]
          /\ IsRow(document'[o])
  BY DEF PublishDocument, IsRow
<1>4. /\ DOMAIN document' = Documents
      /\ global' = global
      /\ overtaken' = IF edit[e].stale THEN overtaken + 1 ELSE overtaken
      /\ overtaken' \in Nat
  BY DEF PublishDocument
<1>5. \A o \in Documents :
          /\ o # d => document'[o].version = document[o].version
          /\ o # d /\ document'[o].status = "APPROVED" =>
                document[o].status = "APPROVED" /\ o # prior
  BY <1>3, ZenonT(60) DEF IsRow
<1>6. document'[d] = row
  BY <1>3
<1>7. Approved' \subseteq (Approved \ {prior}) \cup {d}
  BY <1>5 DEF Approved
<1>8. \A v \in DocumentVersions :
          OfVersion(v)' \subseteq OfVersion(v) \cup (IF v = row.version THEN {d} ELSE {})
  BY <1>5, <1>6 DEF OfVersion
<1>9. ASSUME NEW o \in Editors
      PROVE  (EditFits(edit[o]) /\ ReadingHolds(edit[o]))'
  <2>1. CASE o = e
    BY <1>1, <1>2, <2>1 DEF EditFits, ReadingHolds
  <2>2. CASE o # e
    <3> DEFINE t == [edit[o] EXCEPT !.stale = edit[o].pc # "idle"]
    <3>1. edit'[o] = t /\ edit[o] \in Editing
      BY <1>2, <2>2
    <3>2. t.pc = edit[o].pc /\ t.op = edit[o].op /\ t.row = edit[o].row /\ t.to = edit[o].to
      BY <3>1 DEF Editing
    <3>3. ~t.stale => t.pc = "idle"
      BY <3>1 DEF Editing
    <3> HIDE DEF t
    <3>4. EditFits(edit[o])
      OBVIOUS
    <3>5. EditFits(edit[o])'
      BY <1>4, <3>1, <3>2, <3>4 DEF EditFits
    <3>6. ReadingHolds(edit[o])'
      BY <3>1, <3>3 DEF ReadingHolds
    <3> QED BY <3>5, <3>6
  <2> QED BY <2>1, <2>2
<1>10. SavedAlone'
  <2>1. ASSUME NEW o \in Editors, edit'[o].pc = "saved"
        PROVE  global /\ edit[o].pc = "saved"
    <3>1. o # e /\ edit[o].pc = "saved"
      BY <1>1, <1>2, <2>1 DEF Editing
    <3> QED BY <3>1 DEF SavedAlone
  <2> QED BY <1>4, <2>1 DEF SavedAlone
<1>11. Few(Approved)'
  <2>1. CASE global
    <3>1. Approved \subseteq Documents /\ Approved \ {prior} \subseteq Documents
      BY DEF Approved
    <3>2. Cardinality(Approved') <= Cardinality(Approved) + 1
      BY <1>7, <3>1, OneMore
    <3>3. Cardinality(Approved') <= Cardinality(Approved \ {prior}) + 1
      BY <1>7, <3>1, OneMore
    <3>4. Cardinality(Approved) <= 1 + overtaken
      BY <2>1 DEF Few
    <3>5. ~edit[e].stale => Cardinality(Approved \ {prior}) <= overtaken
      BY <2>1 DEF ReadingHolds
    <3>6. /\ Approved' \subseteq Documents
          /\ Cardinality(Approved) \in Nat /\ Cardinality(Approved \ {prior}) \in Nat
          /\ Cardinality(Approved') \in Nat
      BY <1>7, <3>1, FiniteParts
    <3>7. Cardinality(Approved') <= 1 + overtaken'
      BY <1>4, <3>2, <3>3, <3>4, <3>5, <3>6
    <3> QED BY <1>4, <2>1, <3>7 DEF Few
  <2>2. CASE ~global
    BY <1>4, <1>7, <2>2 DEF Few, SavedAlone
  <2> QED BY <2>1, <2>2
<1>12. ASSUME NEW v \in DocumentVersions
       PROVE  Few(OfVersion(v))'
  <2>0. OfVersion(v) \subseteq Documents
    BY DEF OfVersion
  <2>1. CASE OfVersion(v)' \subseteq OfVersion(v)
    <3>1. Few(OfVersion(v)')
      BY <2>0, <2>1, FewSmaller
    <3>2. Cardinality(OfVersion(v)') \in Nat
      BY <2>0, <2>1, FiniteParts
    <3> QED BY <1>4, <3>1, <3>2 DEF Few
  <2>2. CASE ~(OfVersion(v)' \subseteq OfVersion(v))
    <3>1. v = row.version /\ v # document[d].version
      BY <1>8, <2>2 DEF OfVersion
    <3>2. global /\ (edit[e].stale \/ OfVersion(v) = {})
      BY <3>1
    <3>3. Cardinality(OfVersion(v)') <= Cardinality(OfVersion(v)) + 1
      BY <1>8, <2>0, <3>1, OneMore
    <3>4. Cardinality(OfVersion(v)) <= 1 + overtaken
      BY <3>2 DEF Few
    <3>5. OfVersion(v) = {} => Cardinality(OfVersion(v)) = 0
      BY FS_EmptySet
    <3>6. OfVersion(v)' \subseteq Documents
      BY <1>8, <2>0, <3>1
    <3>7. Cardinality(OfVersion(v)') \in Nat /\ Cardinality(OfVersion(v)) \in Nat
      BY <2>0, <3>6, FiniteParts
    <3>8. Cardinality(OfVersion(v)') <= 1 + overtaken'
      BY <1>4, <3>2, <3>3, <3>4, <3>5, <3>7
    <3> QED BY <1>4, <3>2, <3>8 DEF Few
  <2> QED BY <2>1, <2>2
<1> QED BY <1>2, <1>3, <1>4, <1>9, <1>10, <1>11, <1>12


LEMMA ApprovedRow ==
    ASSUME NEW row, IsRow(row), NEW time
    PROVE  LET approved == [row EXCEPT !.status = "APPROVED", !.approved_at = time]
           IN  /\ IsRow(approved)
               /\ approved.status = "APPROVED" /\ approved.version = row.version
<1> DEFINE approved == [row EXCEPT !.status = "APPROVED", !.approved_at = time]
<1>1. PICK s, v, at : row = [status |-> s, version |-> v, approved_at |-> at]
  BY DEF IsRow
<1>2. row \in [status : {s}, version : {v}, approved_at : {at}]
  BY <1>1
<1>3. approved \in [status : {"APPROVED"}, version : {v}, approved_at : {time}]
  BY <1>2
<1> HIDE DEF approved
<1>4. approved = [status |-> "APPROVED", version |-> v, approved_at |-> time]
  BY <1>3
<1>5. IsRow(approved) /\ approved.status = "APPROVED" /\ approved.version = row.version
  BY <1>1, <1>4 DEF IsRow
<1> QED BY <1>5 DEF approved

LEMMA KnowledgeStep == KnowledgeInv /\ [KnowledgeNext]_knowledgeVars => KnowledgeInv'
<1> SUFFICES ASSUME KnowledgeInv, [KnowledgeNext]_knowledgeVars
             PROVE  KnowledgeInv'
  OBVIOUS
<1>1. CASE UNCHANGED knowledgeVars
  <2>1. /\ global' = global /\ document' = document
        /\ edit' = edit /\ overtaken' = overtaken
    BY <1>1 DEF knowledgeVars
  <2>2. Approved' = Approved /\ \A v \in DocumentVersions \cup {NoRow} : OfVersion(v)' = OfVersion(v)
    BY <2>1 DEF Approved, OfVersion
  <2>3. \A e \in Editors : EditFits(edit[e])' /\ ReadingHolds(edit[e])'
    BY <2>1 DEF KnowledgeInv, EditFits, ReadingHolds, Approved, OfVersion
  <2>4. SavedAlone'
    BY <2>1, <2>2 DEF KnowledgeInv, SavedAlone
  <2>5. Few(Approved)' /\ \A v \in DocumentVersions : Few(OfVersion(v))'
    BY <2>1, <2>2 DEF KnowledgeInv, Few
  <2> QED BY <2>1, <2>3, <2>4, <2>5 DEF KnowledgeInv
<1>2. ASSUME NEW e \in Editors, Edit(e)
      PROVE  KnowledgeInv'
  <2> DEFINE now_ == edit[e]
  <2>0. now_ \in Editing /\ EditFits(now_) /\ ReadingHolds(now_)
    BY DEF KnowledgeInv
  <2>1. CASE IngestReads(e)
    <3>1. PICK v \in DocumentVersions :
             /\ NotIngested(v)
             /\ Edits(e, [NoEdit EXCEPT !.pc = "read",
                                        !.op = IF global THEN "seed" ELSE "ingest",
                                        !.version = v])
      BY <2>1 DEF IngestReads
    <3> DEFINE t == [NoEdit EXCEPT !.pc = "read", !.op = IF global THEN "seed" ELSE "ingest",
                                   !.version = v]
    <3>2. t \in Editing /\ EditFits(t) /\ t.pc = "read" /\ t.version = v
      BY DEF NoEdit, Editing, DocumentStatus, EditFits
    <3>3. ReadingHolds(t)
      BY <3>1, <3>2 DEF ReadingHolds, NotIngested
    <3> HIDE DEF t
    <3> QED BY <3>1, <3>2, <3>3, EditGoesOn DEF t
  <2>2. CASE MoveReads(e)
    <3>1. PICK d \in Documents, to \in {"REVIEW", "RETIRED"} :
             Edits(e, [NoEdit EXCEPT !.pc = "read", !.op = "move", !.row = d, !.to = to])
      BY <2>2 DEF MoveReads
    <3> DEFINE t == [NoEdit EXCEPT !.pc = "read", !.op = "move", !.row = d, !.to = to]
    <3>2. t \in Editing /\ EditFits(t) /\ ReadingHolds(t) /\ t.pc = "read"
      BY DEF NoEdit, Editing, DocumentStatus, EditFits, ReadingHolds
    <3> HIDE DEF t
    <3> QED BY <3>1, <3>2, EditGoesOn DEF t
  <2>3. CASE ApproveReads(e)
    <3>1. PICK d \in Documents :
             Edits(e, [NoEdit EXCEPT !.pc = "read", !.op = "approve", !.row = d])
      BY <2>3 DEF ApproveReads
    <3> DEFINE t == [NoEdit EXCEPT !.pc = "read", !.op = "approve", !.row = d]
    <3>2. t \in Editing /\ EditFits(t) /\ ReadingHolds(t) /\ t.pc = "read"
      BY DEF NoEdit, Editing, DocumentStatus, EditFits, ReadingHolds
    <3> HIDE DEF t
    <3> QED BY <3>1, <3>2, EditGoesOn DEF t
  <2>4. CASE FindsPrior(e)
    <3>1. PICK p \in PriorVersion : Edits(e, [now_ EXCEPT !.pc = "found", !.prior = p])
      BY <2>4 DEF FindsPrior
    <3>2. now_.pc = "read" /\ now_.op \in {"approve", "seed"}
      BY <2>4 DEF FindsPrior
    <3> DEFINE t == [now_ EXCEPT !.pc = "found", !.prior = p]
    <3>3. p \in Documents \cup {NoRow} /\ (Approved # {} => p \in Approved)
      BY DEF PriorVersion, Approved
    <3>4. /\ t \in Editing /\ EditFits(t) /\ t.pc = "found" /\ t.prior = p
          /\ t.op = now_.op /\ t.version = now_.version /\ t.stale = now_.stale
      BY <2>0, <3>2, <3>3 DEF Editing, EditFits
    <3>5. global => Cardinality(Approved \ {p}) <= overtaken
      <4> SUFFICES ASSUME global PROVE Cardinality(Approved \ {p}) <= overtaken
        OBVIOUS
      <4>1. IsFiniteSet(Approved) /\ Cardinality(Approved) \in Nat
        BY FiniteParts DEF Approved
      <4>2. overtaken \in Nat /\ Cardinality(Approved) <= 1 + overtaken
        BY DEF KnowledgeInv, Few
      <4>3. CASE Approved = {}
        <5>1. Approved \ {p} = {}
          BY <4>3
        <5> QED BY <4>2, <5>1, FS_EmptySet
      <4>4. CASE Approved # {}
        <5>1. p \in Approved
          BY <3>3, <4>4
        <5>2. Cardinality(Approved \ {p}) = Cardinality(Approved) - 1
          BY <4>1, <5>1, FS_RemoveElement
        <5> QED BY <4>1, <4>2, <5>2
      <4> QED BY <4>3, <4>4
    <3>6. ReadingHolds(t)
      BY <2>0, <3>2, <3>4, <3>5 DEF ReadingHolds
    <3> HIDE DEF t
    <3> QED BY <3>1, <3>4, <3>6, EditGoesOn DEF t
  <2>5. ASSUME Conflicts(e), now_.pc # "idle"
        PROVE  KnowledgeInv'
    <3> DEFINE t == [now_ EXCEPT !.pc = "conflict"]
    <3>1. t \in Editing /\ EditFits(t) /\ ReadingHolds(t) /\ t.pc = "conflict"
      BY <2>0, <2>5 DEF Editing, EditFits, ReadingHolds
    <3>2. Edits(e, t)
      BY <2>5 DEF Conflicts
    <3> HIDE DEF t
    <3> QED BY <3>1, <3>2, EditGoesOn
  <2>6. CASE IngestCommits(e)
    <3>1. now_.pc = "read" /\ now_.op = "ingest" /\ ~global
      BY <2>0, <2>6 DEF IngestCommits, EditFits
    <3>2. CASE KeyVersionFree(now_.version)
      <4> DEFINE new == [status |-> "DRAFT", version |-> now_.version, approved_at |-> 0]
      <4>1. /\ Unused # {}
            /\ document' = [document EXCEPT ![NewDocument] = new]
            /\ edit' = [edit EXCEPT ![e] = NoEdit]
            /\ UNCHANGED <<global, overtaken>>
        BY <2>6, <3>2 DEF IngestCommits
      <4>2. NewDocument \in Documents
        BY <4>1 DEF NewDocument, Unused
      <4>3. /\ DOMAIN document' = Documents
            /\ \A d \in Documents : document'[d] = IF d = NewDocument THEN new ELSE document[d]
        BY <4>1 DEF KnowledgeInv
      <4>4. \A d \in Documents : IsRow(document'[d])
        BY <4>3 DEF KnowledgeInv, IsRow
      <4>5. Approved' \subseteq Approved
        BY <4>3 DEF Approved
      <4>6. OfVersion(now_.version) = {}
        BY <3>1, <3>2 DEF KeyVersionFree
      <4>7. \A v \in DocumentVersions : Few(OfVersion(v))'
        <5> SUFFICES ASSUME NEW v \in DocumentVersions
                     PROVE  Few(OfVersion(v))'
          OBVIOUS
        <5>1. \A d, o \in OfVersion(v) : d = o
          BY <3>1 DEF KnowledgeInv, Few
        <5>2. /\ v = now_.version => OfVersion(v)' \subseteq {NewDocument}
              /\ v # now_.version => OfVersion(v)' \subseteq OfVersion(v)
          BY <4>3, <4>6 DEF OfVersion
        <5>3. \A d, o \in OfVersion(v)' : d = o
          BY <5>1, <5>2
        <5> QED BY <3>1, <4>1, <5>3 DEF Few
      <4> QED BY <3>1, <4>1, <4>3, <4>4, <4>5, <4>7, RowsShrink
    <3>3. CASE ~KeyVersionFree(now_.version)
      BY <2>5, <2>6, <3>1, <3>3 DEF IngestCommits
    <3> QED BY <3>2, <3>3
  <2>7. CASE MoveCommits(e)
    <3>1. /\ document' = [document EXCEPT ![now_.row].status = now_.to]
          /\ edit' = [edit EXCEPT ![e] = NoEdit]
          /\ UNCHANGED <<global, overtaken>>
          /\ now_.row \in Documents /\ now_.to # "APPROVED"
      BY <2>0, <2>7 DEF MoveCommits, EditFits
    <3>2. /\ DOMAIN document' = Documents
          /\ \A d \in Documents :
                document'[d] = IF d = now_.row THEN [document[d] EXCEPT !.status = now_.to]
                               ELSE document[d]
      BY <3>1 DEF KnowledgeInv
    <3>3. \A d \in Documents :
             /\ IsRow(document'[d]) /\ document'[d].version = document[d].version
             /\ document'[d].status = "APPROVED" => document[d].status = "APPROVED"
      BY <3>1, <3>2 DEF KnowledgeInv, IsRow
    <3>4. Approved' \subseteq Approved /\ \A v : OfVersion(v)' = OfVersion(v)
      BY <3>3 DEF Approved, OfVersion
    <3>5. \A v \in DocumentVersions : Few(OfVersion(v))'
      BY <3>1, <3>4 DEF KnowledgeInv, Few
    <3> QED BY <3>1, <3>2, <3>3, <3>4, <3>5, RowsShrink
  <2>8. CASE ApproveSaves(e)
    <3>1. /\ now_.pc = "found" /\ now_.op = "approve"
          /\ \A o \in Editors : edit[o].pc # "saved"
      BY <2>8 DEF ApproveSaves
    <3>2. CASE ApprovalFree(now_.row)
      <4> DEFINE t == [now_ EXCEPT !.pc = "saved"]
      <4>1. Edits(e, t)
        BY <2>8, <3>2 DEF ApproveSaves
      <4>2. /\ t \in Editing /\ EditFits(t) /\ t.row = now_.row
            /\ t.prior = now_.prior /\ t.stale = now_.stale /\ t.op = "approve"
        BY <2>0, <3>1 DEF Editing, EditFits
      <4>3. ReadingHolds(t)
        BY <2>0, <3>1, <4>2 DEF ReadingHolds
      <4>4. ~global => Approved \subseteq {t.row}
        BY <3>2, <4>2 DEF ApprovalFree
      <4> HIDE DEF t
      <4> QED BY <3>1, <4>1, <4>2, <4>3, <4>4, EditGoesOn
    <3>3. CASE ~ApprovalFree(now_.row)
      BY <2>5, <2>8, <3>1, <3>3 DEF ApproveSaves
    <3> QED BY <3>2, <3>3
  <2>9. CASE ApproveCommits(e)
    <3> DEFINE d == now_.row
               row == [document[d] EXCEPT !.status = "APPROVED", !.approved_at = ApprovalTime]
    <3>1. now_.pc = "saved" /\ d \in Documents /\ PublishDocument(e, d, row)
      BY <2>0, <2>9 DEF ApproveCommits, EditFits
    <3>2. /\ IsRow(row) /\ row.status = "APPROVED" /\ row.version = document[d].version
      BY <3>1, ApprovedRow DEF KnowledgeInv
    <3> HIDE DEF row
    <3> QED BY <3>1, <3>2, PublishKeeps
  <2>10. CASE SeedCommits(e)
    <3> DEFINE row == [status |-> "APPROVED", version |-> now_.version, approved_at |-> ApprovalTime]
    <3>1. now_.pc = "found" /\ now_.op = "seed" /\ Unused # {} /\ PublishDocument(e, NewDocument, row)
      BY <2>10 DEF SeedCommits
    <3>2. NewDocument \in Documents
      BY <3>1 DEF NewDocument, Unused
    <3>3. IsRow(row) /\ row.status = "APPROVED" /\ row.version = now_.version
      BY DEF IsRow
    <3>4. global
      BY <2>0, <3>1 DEF EditFits
    <3>5. now_.stale \/ OfVersion(now_.version) = {}
      BY <2>0, <3>1, <3>4 DEF ReadingHolds
    <3> HIDE DEF row
    <3> QED BY <3>1, <3>2, <3>3, <3>4, <3>5, PublishKeeps
  <2>11. CASE EditEnds(e)
    <3>1. NoEdit \in Editing /\ EditFits(NoEdit) /\ ReadingHolds(NoEdit) /\ NoEdit.pc = "idle"
      BY DEF NoEdit, Editing, DocumentStatus, EditFits, ReadingHolds
    <3> QED BY <2>11, <3>1, EditGoesOn DEF EditEnds
  <2> QED BY <1>2, <2>1, <2>2, <2>3, <2>4, <2>6, <2>7, <2>8, <2>9, <2>10, <2>11 DEF Edit
<1> QED BY <1>1, <1>2 DEF KnowledgeNext

DocumentRow ==
    [status : DocumentStatus, version : DocumentVersions \cup {NoRow}, approved_at : Nat]

LEMMA LaterType ==
    ASSUME KnowledgeTypeOK
    PROVE  ApprovalTime \in Nat
<1> DEFINE times == {document[d].approved_at : d \in Documents}
<1>1. IsFiniteSet(times)
  <2> DEFINE f == [d \in Documents |-> document[d].approved_at]
  <2>1. f \in Surjection(Documents, times)
    BY DEF Surjection
  <2> QED BY <2>1, KnowledgeAssumption, FS_Surjection DEF ExistsSurjection
<1>2. times # {} /\ times \subseteq Nat
  BY KnowledgeAssumption DEF KnowledgeTypeOK
<1>3. Max(times) \in Nat
  BY <1>1, <1>2, MaxOfFinite
<1> QED BY <1>3 DEF ApprovalTime

LEMMA PublishType ==
    ASSUME KnowledgeTypeOK, NEW e \in Editors, NEW d, NEW row \in DocumentRow, PublishDocument(e, d, row)
    PROVE  document' \in [Documents -> DocumentRow]
<1>1. \A o \in Documents : /\ document[o] \in DocumentRow
                           /\ [document[o] EXCEPT !.status = "RETIRED"] \in DocumentRow
  BY DEF KnowledgeTypeOK, DocumentRow, DocumentStatus
<1> QED BY <1>1 DEF PublishDocument

LEMMA KnowledgeTypeStep ==
    ASSUME KnowledgeInv, KnowledgeTypeOK, [KnowledgeNext]_knowledgeVars
    PROVE  KnowledgeInv' /\ KnowledgeTypeOK'
<1>1. KnowledgeInv'
  BY KnowledgeStep
<1>2. document \in [Documents -> DocumentRow]
  BY DEF KnowledgeTypeOK, DocumentRow
<1>3. document' \in [Documents -> DocumentRow]
  <2>1. CASE UNCHANGED knowledgeVars
    BY <1>2, <2>1 DEF knowledgeVars
  <2>2. ASSUME NEW e \in Editors, Edit(e) PROVE document' \in [Documents -> DocumentRow]
    <3>1. edit[e] \in Editing /\ EditFits(edit[e])
      BY DEF KnowledgeInv
    <3>2. Unused # {} => NewDocument \in Documents
      BY DEF Unused, NewDocument
    <3>3. edit[e].version \in DocumentVersions \cup {NoRow} /\ edit[e].to \in DocumentStatus
      BY <3>1 DEF Editing
    <3>4. CASE document' = document
      BY <1>2, <3>4
    <3>5. CASE IngestCommits(e)
      <4>1. [status |-> "DRAFT", version |-> edit[e].version, approved_at |-> 0] \in DocumentRow
        BY <3>3 DEF DocumentRow, DocumentStatus
      <4>2. CASE KeyVersionFree(edit[e].version)
        BY <1>2, <3>2, <3>5, <4>1, <4>2 DEF IngestCommits
      <4>3. CASE ~KeyVersionFree(edit[e].version)
        BY <1>2, <3>5, <4>3 DEF IngestCommits, Conflicts, Edits
      <4> QED BY <4>2, <4>3
    <3>6. CASE MoveCommits(e)
      <4>1. \A o \in Documents : [document[o] EXCEPT !.status = edit[e].to] \in DocumentRow
        BY <1>2, <3>3 DEF DocumentRow
      <4>2. document' = [document EXCEPT ![edit[e].row].status = edit[e].to]
        BY <3>6 DEF MoveCommits
      <4> QED BY <1>2, <4>1, <4>2
    <3>7. CASE ApproveCommits(e)
      <4> DEFINE d == edit[e].row
                 row == [document[d] EXCEPT !.status = "APPROVED", !.approved_at = ApprovalTime]
      <4>1. d \in Documents /\ PublishDocument(e, d, row)
        BY <3>1, <3>7 DEF ApproveCommits, EditFits
      <4>2. row \in DocumentRow
        BY <1>2, <4>1, LaterType DEF DocumentRow, DocumentStatus
      <4> HIDE DEF row, d
      <4> QED BY <4>1, <4>2, PublishType
    <3>8. CASE SeedCommits(e)
      <4> DEFINE row == [status |-> "APPROVED", version |-> edit[e].version,
                         approved_at |-> ApprovalTime]
      <4>1. row \in DocumentRow
        BY <3>3, LaterType DEF DocumentRow, DocumentStatus
      <4>2. PublishDocument(e, NewDocument, row)
        BY <3>8 DEF SeedCommits
      <4> HIDE DEF row
      <4> QED BY <4>1, <4>2, PublishType
    <3>9. CASE IngestReads(e) \/ MoveReads(e) \/ ApproveReads(e) \/ FindsPrior(e)
               \/ ApproveSaves(e) \/ EditEnds(e)
      BY <3>4, <3>9 DEF IngestReads, MoveReads, ApproveReads, FindsPrior, ApproveSaves,
                        EditEnds, Conflicts, Edits
    <3> QED BY <2>2, <3>5, <3>6, <3>7, <3>8, <3>9 DEF Edit
  <2> QED BY <2>1, <2>2 DEF KnowledgeNext
<1> QED BY <1>1, <1>3 DEF KnowledgeInv, KnowledgeTypeOK, DocumentRow, Editing

LEMMA KnowledgeTypeStarts == KnowledgeInit => KnowledgeTypeOK
BY DEF KnowledgeInit, KnowledgeTypeOK, NoDocument, NoEdit, DocumentStatus

\* The versions of a document and the requests of its editors keep their types; the
\* time of an approval is the greatest one so far or the next.
THEOREM KnowledgeTypeCorrect == KnowledgeSpec => []KnowledgeTypeOK
BY KnowledgeStarts, KnowledgeTypeStarts, KnowledgeTypeStep, PTL DEF KnowledgeSpec

LEMMA FewOrOne ==
    ASSUME NEW S, S \subseteq Documents, Few(S), global \in BOOLEAN
    PROVE  Cardinality(S) <= IF global THEN 1 + overtaken ELSE 1
<1>1. CASE ~global
  <2>1. S = {} \/ \E d \in S : S = {d}
    BY <1>1 DEF Few
  <2>2. S = {} => Cardinality(S) = 0
    BY FS_EmptySet
  <2>3. ASSUME NEW d \in S, S = {d}
        PROVE  Cardinality(S) = 1
    BY <2>3, FS_Singleton
  <2>4. Cardinality(S) = 0 \/ Cardinality(S) = 1
    BY <2>1, <2>2, <2>3
  <2> QED BY <1>1, <2>4
<1>2. CASE global
  BY <1>2 DEF Few
<1> QED BY <1>1, <1>2

\* models.py:2329, for any documents, versions and editors: a tenant's document has at
\* most one approved version, a global one at most one more than approvals overlapped.
THEOREM VersionsAreSuperseded == KnowledgeSpec => []SupersededUnlessOvertaken
<1>1. KnowledgeInv => SupersededUnlessOvertaken
  BY FewOrOne DEF KnowledgeInv, SupersededUnlessOvertaken, Approved
<1> QED BY KnowledgeStarts, KnowledgeStep, <1>1, PTL DEF KnowledgeSpec

\* seed_knowledge_corpus.py, for any documents, versions and editors: a version exists
\* once, but for global ones of seed runs that overlapped.
THEOREM VersionsAreIngestedOnce == KnowledgeSpec => []IngestedOnce
<1>1. KnowledgeInv => IngestedOnce
  <2> SUFFICES ASSUME KnowledgeInv, NEW v \in DocumentVersions
               PROVE  Cardinality(OfVersion(v)) <= IF global THEN 1 + overtaken ELSE 1
    BY DEF IngestedOnce
  <2>1. OfVersion(v) \subseteq Documents
    BY DEF OfVersion
  <2> QED BY <2>1, FewOrOne DEF KnowledgeInv
<1> QED BY KnowledgeStarts, KnowledgeStep, <1>1, PTL DEF KnowledgeSpec

\* Both: whatever editors and seed runs do, a document has one approved version and
\* one row of each version, unless approvals overtook each other.
THEOREM VersionsKept == KnowledgeSpec => []VersionsUnlessOvertaken
<1>1. SupersededUnlessOvertaken /\ IngestedOnce => VersionsUnlessOvertaken
  BY DEF VersionsUnlessOvertaken
<1> QED BY <1>1, VersionsAreSuperseded, VersionsAreIngestedOnce, PTL

-----------------------------------------------------------------------------
(* Emission factors. *)

FactorRow == [exists : BOOLEAN, is_active : BOOLEAN, effective_from : Nat, effective_to : Nat]

Configuring ==
    [pc : {"idle", "started", "listed", "updated"}, now : Nat, closes : SUBSET Factors,
     stale : BOOLEAN]

\* An active factor is open, and no factor begins in the future.
RowsFit ==
    \A f \in Factors :
        /\ factor[f].is_active => factor[f].exists /\ factor[f].effective_to = Open
        /\ factor[f].exists => factor[f].effective_from <= clock

\* What a configuration that was not overtaken has read is still so.
ListHolds(c) ==
    /\ c.pc # "idle" => 1 <= c.now /\ c.now <= clock
    /\ c.pc # "idle" /\ ~c.stale =>
          /\ \A f \in Configured : factor[f].effective_from <= c.now
          /\ c.pc \in {"listed", "updated"} => c.closes = Active

\* From the first factor on there is exactly one at any time, also in the future,
\* and the last one is active.
WindowsFollow ==
    /\ \A t \in Nat : (\E f \in Configured : factor[f].effective_from <= t)
                      => \E f \in Factors : InEffect(t) = {f}
    /\ Configured # {} => Active # {}

FactorInv ==
    /\ FactorTypeOK
    /\ RowsFit
    /\ \A a \in Admins : ListHolds(config[a])
    /\ ~lateCommit => WindowsFollow

LEMMA FactorStarts == FactorInit => FactorInv
<1> SUFFICES ASSUME FactorInit PROVE FactorInv
  OBVIOUS
<1>1. Configured = {}
  BY DEF FactorInit, Configured, NoFactor
<1>2. FactorTypeOK
  <2>1. clock \in 1 .. MaxTime + 1
    BY FactorAssumption DEF FactorInit
  <2>2. NoFactor \in FactorRow /\ NoConfig \in Configuring
    BY DEF NoFactor, FactorRow, NoConfig, Configuring, Open
  <2> QED BY <2>1, <2>2 DEF FactorInit, FactorTypeOK, FactorRow, Configuring
<1>3. RowsFit /\ \A a \in Admins : ListHolds(config[a])
  BY DEF FactorInit, RowsFit, ListHolds, NoFactor, NoConfig
<1> QED BY <1>1, <1>2, <1>3 DEF FactorInv, WindowsFollow

\* A step that changes one configuration only.
LEMMA ConfigGoesOn ==
    ASSUME FactorInv, NEW a \in Admins, NEW c \in Configuring, Configures(a, c), ListHolds(c)
    PROVE  FactorInv'
<1> USE DEF FactorInv
<1>1. config \in [Admins -> Configuring]
  BY DEF FactorTypeOK, Configuring
<1>2. /\ \A b \in Admins : config'[b] = IF b = a THEN c ELSE config[b]
      /\ config' \in [Admins -> Configuring]
      /\ UNCHANGED <<clock, factor, lateCommit>>
  BY <1>1 DEF Configures
<1>3. FactorTypeOK'
  BY <1>2 DEF FactorTypeOK, Configuring
<1>4. Configured' = Configured /\ Active' = Active /\ \A t : InEffect(t)' = InEffect(t)
  BY <1>2 DEF Configured, Active, InEffect
<1>5. RowsFit'
  BY <1>2 DEF RowsFit
<1>6. \A b \in Admins : ListHolds(config[b])'
  <2> TAKE b \in Admins
  <2>1. ListHolds(config'[b])
    BY <1>2
  <2> QED BY <1>2, <1>4, <2>1 DEF ListHolds
<1>7. (~lateCommit => WindowsFollow)'
  BY <1>2, <1>4 DEF WindowsFollow
<1> QED BY <1>3, <1>5, <1>6, <1>7

\* The rows after a configuration was committed.
LEMMA CommittedRows ==
    ASSUME FactorInv, NEW a \in Admins, ConfigCommits(a)
    PROVE  /\ NewFactor \in Factors \ Configured
           /\ factor' \in [Factors -> FactorRow]
           /\ factor'[NewFactor].exists /\ factor'[NewFactor].is_active
           /\ factor'[NewFactor].effective_from = config[a].now
           /\ factor'[NewFactor].effective_to = Open
           /\ \A f \in Factors \ {NewFactor} :
                 /\ factor'[f].exists = factor[f].exists
                 /\ factor'[f].effective_from = factor[f].effective_from
                 /\ f \in config[a].closes => /\ ~factor'[f].is_active
                                              /\ factor'[f].effective_to = config[a].now
                 /\ f \notin config[a].closes => factor'[f] = factor[f]
<1> USE DEF FactorInv
<1>1. /\ factor \in [Factors -> FactorRow]
      /\ config[a].now \in Nat
  BY DEF FactorTypeOK, FactorRow
<1>2. NewFactor \in Factors \ Configured
  <2>1. Configured \subseteq Factors /\ Factors # Configured
    BY DEF ConfigCommits, Configured
  <2> QED BY <2>1 DEF NewFactor
<1>3. \A f \in Factors :
         factor'[f] = IF f = NewFactor
                      THEN [exists |-> TRUE, is_active |-> TRUE,
                            effective_from |-> config[a].now, effective_to |-> Open]
                      ELSE IF f \in config[a].closes THEN Closed(factor[f], config[a].now)
                      ELSE factor[f]
  BY DEF ConfigCommits
<1>4. \A f \in Factors :
         /\ Closed(factor[f], config[a].now) \in FactorRow
         /\ Closed(factor[f], config[a].now).exists = factor[f].exists
         /\ Closed(factor[f], config[a].now).effective_from = factor[f].effective_from
         /\ ~Closed(factor[f], config[a].now).is_active
         /\ Closed(factor[f], config[a].now).effective_to = config[a].now
  BY <1>1 DEF Closed, FactorRow
<1> DEFINE row == [exists |-> TRUE, is_active |-> TRUE,
                     effective_from |-> config[a].now, effective_to |-> Open]
<1>6. /\ row \in FactorRow
      /\ row.exists /\ row.is_active
      /\ row.effective_from = config[a].now /\ row.effective_to = Open
  BY <1>1 DEF FactorRow, Open
<1>7. factor'[NewFactor] = row
  BY <1>2, <1>3
<1> HIDE DEF row
<1>8. factor' \in [Factors -> FactorRow]
  BY <1>1, <1>3, <1>4, <1>6, <1>7 DEF ConfigCommits
<1> QED BY <1>1, <1>2, <1>3, <1>4, <1>6, <1>7, <1>8


\* A configuration that was not overtaken leaves its factor as the only active one.
LEMMA OnlyNewActive ==
    ASSUME FactorInv, NEW a \in Admins, ConfigCommits(a), ~config[a].stale
    PROVE  Active' = {NewFactor}
<1>1. config[a].closes = Active
  BY DEF FactorInv, ConfigCommits, ListHolds
<1>2. \A f \in Factors \ {NewFactor} : ~factor'[f].is_active
  BY <1>1, CommittedRows DEF Active
<1>3. NewFactor \in Factors /\ factor'[NewFactor].is_active
  BY CommittedRows
<1> QED BY <1>2, <1>3 DEF Active

\* ... whose window begins where the one it replaces ends.
LEMMA NewWindow ==
    ASSUME FactorInv, NEW a \in Admins, ConfigCommits(a), ~config[a].stale, WindowsFollow
    PROVE  WindowsFollow'
<1> USE DEF FactorInv
<1> DEFINE new == NewFactor
           now_ == config[a].now
<1>1. /\ config[a].closes = Active /\ now_ \in Nat /\ 1 <= now_
      /\ \A f \in Configured : factor[f].effective_from <= now_
  BY DEF ConfigCommits, ListHolds, FactorTypeOK
<1>2. /\ factor \in [Factors -> FactorRow] /\ factor' \in [Factors -> FactorRow]
      /\ new \in Factors \ Configured
      /\ factor'[new].exists /\ factor'[new].is_active
      /\ factor'[new].effective_from = now_ /\ factor'[new].effective_to = Open
  BY CommittedRows DEF FactorTypeOK, FactorRow
<1>3. \A f \in Factors \ {new} :
         /\ factor'[f].exists = factor[f].exists
         /\ factor'[f].effective_from = factor[f].effective_from
         /\ f \in Active => factor'[f].effective_to = now_
         /\ f \notin Active => factor'[f] = factor[f]
  BY <1>1, CommittedRows
<1> HIDE DEF new, now_
<1>4. ASSUME NEW t \in Nat, now_ <= t
      PROVE  InEffect(t)' = {new}
  <2>1. new \in InEffect(t)'
    BY <1>2, <1>4 DEF InEffect
  <2>2. ASSUME NEW f \in InEffect(t)', f # new
        PROVE  FALSE
    <3>1. f \in Factors \ {new}
      BY <2>2 DEF InEffect
    <3>2. CASE f \in Active
      <4>1. factor'[f].effective_to = now_
        BY <1>3, <3>1, <3>2
      <4>2. factor'[f].effective_to = 0 \/ t < factor'[f].effective_to
        BY <2>2 DEF InEffect, Open
      <4> QED BY <1>1, <1>4, <4>1, <4>2
    <3>3. CASE f \notin Active
      <4>1. f \in InEffect(t) /\ f \in Configured
        BY <1>3, <2>2, <3>1, <3>3 DEF InEffect, Configured
      <4>2. PICK g \in Active : TRUE
        BY <4>1 DEF WindowsFollow
      <4>3. /\ g \in Factors /\ factor[g].exists /\ factor[g].effective_to = Open
            /\ factor[g].effective_from \in Nat
        BY <1>2, <4>2 DEF Active, RowsFit, FactorRow
      <4>4. factor[g].effective_from <= t
        BY <1>1, <1>4, <4>3 DEF Configured
      <4>5. g \in InEffect(t)
        BY <4>3, <4>4 DEF InEffect
      <4>6. PICK h \in Factors : InEffect(t) = {h}
        BY <4>3, <4>4 DEF WindowsFollow, Configured
      <4>7. f = g
        BY <4>1, <4>5, <4>6
      <4> QED BY <3>3, <4>2, <4>7
    <3> QED BY <3>2, <3>3
  <2> QED BY <2>1, <2>2
<1>5. ASSUME NEW t \in Nat, t < now_
      PROVE  InEffect(t)' = InEffect(t)
  <2>1. new \notin InEffect(t)' /\ new \notin InEffect(t)
    <3>1. ~(factor'[new].effective_from <= t)
      BY <1>1, <1>2, <1>5
    <3>2. ~factor[new].exists
      BY <1>2 DEF Configured
    <3> QED BY <3>1, <3>2 DEF InEffect
  <2>2. ASSUME NEW f \in Factors \ {new}
        PROVE  f \in InEffect(t)' <=> f \in InEffect(t)
    <3>1. CASE f \in Active
      <4>1. factor[f].effective_to = Open /\ factor'[f].effective_to = now_
        BY <1>3, <2>2, <3>1 DEF Active, RowsFit
      <4> QED BY <1>3, <1>5, <4>1 DEF InEffect
    <3>2. CASE f \notin Active
      BY <1>3, <3>2 DEF InEffect
    <3> QED BY <3>1, <3>2
  <2>3. InEffect(t)' \subseteq Factors /\ InEffect(t) \subseteq Factors
    BY DEF InEffect
  <2> QED BY <2>1, <2>2, <2>3
<1>6. ASSUME NEW t \in Nat, NEW f \in Configured', factor'[f].effective_from <= t
      PROVE  \E g \in Factors : InEffect(t)' = {g}
  <2>1. CASE now_ <= t
    BY <1>2, <1>4, <2>1
  <2>2. CASE ~(now_ <= t)
    <3>1. t < now_
      BY <1>1, <2>2
    <3>2. f # new
      BY <1>2, <1>6, <2>2
    <3>3. f \in Configured /\ factor[f].effective_from <= t
      BY <1>3, <1>6, <3>2 DEF Configured
    <3> QED BY <1>5, <3>1, <3>3 DEF WindowsFollow
  <2> QED BY <2>1, <2>2
<1>7. Active' # {}
  BY OnlyNewActive
<1> QED BY <1>6, <1>7 DEF WindowsFollow

LEMMA FactorStep == FactorInv /\ [FactorNext]_factorVars => FactorInv'
<1> SUFFICES ASSUME FactorInv, [FactorNext]_factorVars
             PROVE  FactorInv'
  OBVIOUS
<1>1. CASE UNCHANGED factorVars
  BY <1>1 DEF factorVars, FactorInv, FactorTypeOK, RowsFit, ListHolds, WindowsFollow, InEffect,
              Configured, Active
<1>2. CASE Tick
  <2>1. clock' = clock + 1 /\ clock' \in 1 .. MaxTime + 1 /\ clock \in Nat
        /\ UNCHANGED <<factor, config, lateCommit>>
    BY <1>2, FactorAssumption DEF Tick, FactorInv, FactorTypeOK
  <2>2. FactorTypeOK'
    BY <2>1 DEF FactorInv, FactorTypeOK
  <2>3. Configured' = Configured /\ Active' = Active /\ \A t : InEffect(t)' = InEffect(t)
    BY <2>1 DEF Configured, Active, InEffect
  <2>4. RowsFit'
    BY <2>1 DEF FactorInv, FactorTypeOK, RowsFit
  <2>5. \A a \in Admins : config[a].now \in Nat
    BY DEF FactorInv, FactorTypeOK
  <2>6. \A a \in Admins : ListHolds(config[a])'
    BY <2>1, <2>3, <2>5 DEF FactorInv, ListHolds
  <2>7. (~lateCommit => WindowsFollow)'
    BY <2>1, <2>3 DEF FactorInv, WindowsFollow
  <2> QED BY <2>2, <2>4, <2>6, <2>7 DEF FactorInv
<1>3. ASSUME NEW a \in Admins, ConfigStep(a)
      PROVE  FactorInv'
  <2>0. /\ config[a] \in Configuring /\ ListHolds(config[a])
        /\ clock \in Nat /\ 1 <= clock
    BY FactorAssumption DEF FactorInv, FactorTypeOK, Configuring
  <2>1. CASE Starts(a)
    <3> DEFINE c == [NoConfig EXCEPT !.pc = "started", !.now = clock]
    <3>1. c \in Configuring /\ c.now = clock /\ c.pc = "started"
      BY <2>0 DEF NoConfig, Configuring
    <3>2. Configures(a, c)
      BY <2>1 DEF Starts
    <3> HIDE DEF c
    <3>3. ListHolds(c)
      BY <2>0, <3>1 DEF ListHolds, Configured, FactorInv, RowsFit
    <3> QED BY <3>1, <3>2, <3>3, ConfigGoesOn
  <2>2. CASE Lists(a)
    <3> DEFINE c == [config[a] EXCEPT !.pc = "listed", !.closes = Deactivates]
    <3>1. Configures(a, c) /\ config[a].pc = "started"
      BY <2>2 DEF Lists
    <3>2. /\ c \in Configuring /\ c.now = config[a].now /\ c.stale = config[a].stale
          /\ c.closes = Active /\ c.pc = "listed"
      BY <2>0 DEF Configuring, Deactivates, Active
    <3> HIDE DEF c
    <3>3. ListHolds(c)
      BY <2>0, <3>1, <3>2 DEF ListHolds
    <3> QED BY <3>1, <3>2, <3>3, ConfigGoesOn
  <2>3. CASE Updates(a)
    <3> DEFINE c == [config[a] EXCEPT !.pc = "updated"]
    <3>1. Configures(a, c) /\ config[a].pc = "listed"
      BY <2>3 DEF Updates
    <3>2. /\ c \in Configuring /\ c.now = config[a].now /\ c.stale = config[a].stale
          /\ c.closes = config[a].closes
      BY <2>0 DEF Configuring
    <3> HIDE DEF c
    <3>3. ListHolds(c)
      BY <2>0, <3>1, <3>2 DEF ListHolds
    <3> QED BY <3>1, <3>2, <3>3, ConfigGoesOn
  <2>4. CASE ConfigCommits(a)
    <3>1. /\ UNCHANGED clock /\ lateCommit' = (lateCommit \/ config[a].stale)
          /\ lateCommit' \in BOOLEAN
      BY <2>4 DEF ConfigCommits, FactorInv, FactorTypeOK
    <3>2. \A b \in Admins : config'[b] = IF b = a THEN NoConfig
                              ELSE [config[b] EXCEPT !.stale = config[b].pc # "idle"]
      BY <2>4 DEF ConfigCommits
    <3>3. \A b \in Admins \ {a} : /\ config'[b] \in Configuring
                                  /\ config'[b].pc = config[b].pc
                                  /\ config'[b].now = config[b].now
                                  /\ ~config'[b].stale => config[b].pc = "idle"
      <4> TAKE b \in Admins \ {a}
      <4>1. config[b] \in Configuring /\ (config[b].pc # "idle") \in BOOLEAN
        BY DEF FactorInv, FactorTypeOK, Configuring
      <4> QED BY <3>2, <4>1 DEF Configuring
    <3>4. config' \in [Admins -> Configuring]
      <4>1. NoConfig \in Configuring
        BY DEF NoConfig, Configuring
      <4>2. DOMAIN config' = Admins
        BY <2>4 DEF ConfigCommits
      <4>3. config' = [b \in Admins |-> config'[b]]
        BY <2>4 DEF ConfigCommits
      <4> QED BY <3>2, <3>3, <4>1, <4>3
    <3>5. FactorTypeOK'
      BY <2>4, <3>1, <3>4, CommittedRows DEF FactorInv, FactorTypeOK, Configuring, FactorRow
    <3>6. RowsFit'
      <4> SUFFICES ASSUME NEW f \in Factors
                   PROVE  /\ factor'[f].is_active => /\ factor'[f].exists
                                                     /\ factor'[f].effective_to = Open
                          /\ factor'[f].exists => factor'[f].effective_from <= clock
        BY <3>1 DEF RowsFit
      <4>1. config[a].now <= clock
        BY <2>0, <2>4 DEF ConfigCommits, ListHolds
      <4>2. CASE f = NewFactor
        <5>1. /\ factor'[f].exists /\ factor'[f].effective_to = Open
              /\ factor'[f].effective_from = config[a].now
          BY <2>4, <4>2, CommittedRows
        <5> QED BY <4>1, <5>1
      <4>3. CASE f # NewFactor /\ f \in config[a].closes
        <5>1. /\ factor'[f].exists = factor[f].exists /\ ~factor'[f].is_active
              /\ factor'[f].effective_from = factor[f].effective_from
          BY <2>4, <4>3, CommittedRows
        <5> QED BY <5>1 DEF FactorInv, RowsFit
      <4>4. CASE f # NewFactor /\ f \notin config[a].closes
        <5>1. factor'[f] = factor[f]
          BY <2>4, <4>4, CommittedRows
        <5> QED BY <5>1 DEF FactorInv, RowsFit
      <4> QED BY <4>2, <4>3, <4>4
    <3>7. ASSUME NEW b \in Admins
          PROVE  ListHolds(config[b])'
      <4>1. CASE b = a
        <5>1. config'[b] = NoConfig /\ NoConfig.pc = "idle"
          BY <3>2, <4>1 DEF NoConfig
        <5> QED BY <5>1 DEF ListHolds
      <4>2. CASE b # a
        BY <3>1, <3>3, <4>2 DEF ListHolds, FactorInv
      <4> QED BY <4>1, <4>2
    <3>8. (~lateCommit => WindowsFollow)'
      BY <2>4, <3>1, NewWindow DEF FactorInv
    <3> QED BY <3>5, <3>6, <3>7, <3>8 DEF FactorInv
  <2>5. CASE ConfigFails(a)
    <3>1. NoConfig \in Configuring /\ ListHolds(NoConfig)
      BY DEF NoConfig, Configuring, ListHolds
    <3> QED BY <2>5, <3>1, ConfigGoesOn DEF ConfigFails
  <2> QED BY <1>3, <2>1, <2>2, <2>3, <2>4, <2>5 DEF ConfigStep
<1> QED BY <1>1, <1>2, <1>3 DEF FactorNext

\* carbon.py:14-18, for any factors, configurations and times: unless configurations
\* overtook each other, the windows follow one another without gap or overlap, and the
\* factor of an estimate is the only one in its period.
THEOREM WindowsDoNotOverlap == FactorSpec => []OneFactorAtATime
<1>1. FactorInv => OneFactorAtATime
  <2> SUFFICES ASSUME FactorInv, ~lateCommit
               PROVE  /\ \A t \in 1 .. clock :
                           (\E f \in Configured : factor[f].effective_from <= t)
                           => Cardinality(InEffect(t)) = 1
                      /\ \A f \in InUse, start, end \in 1 .. clock :
                           EstimateStatus(f, start, end) = "ESTIMATE_AVAILABLE" =>
                              \A t \in start .. end - 1 : InEffect(t) = {f}
    BY DEF OneFactorAtATime
  <2>0. clock \in Nat
    BY FactorAssumption DEF FactorInv, FactorTypeOK
  <2>1. ASSUME NEW t \in 1 .. clock, NEW f \in Configured, factor[f].effective_from <= t
        PROVE  Cardinality(InEffect(t)) = 1
    <3>1. PICK g \in Factors : InEffect(t) = {g}
      BY <2>0, <2>1 DEF FactorInv, WindowsFollow
    <3> QED BY <3>1, FS_Singleton
  <2>2. ASSUME NEW f \in InUse, NEW start \in 1 .. clock, NEW end \in 1 .. clock,
               EstimateStatus(f, start, end) = "ESTIMATE_AVAILABLE",
               NEW t \in start .. end - 1
        PROVE  InEffect(t) = {f}
    <3>1. Covers(f, start, end)
      BY <2>2 DEF EstimateStatus
    <3>2. /\ f \in Factors /\ factor[f].exists /\ factor[f].effective_to = Open
          /\ factor[f].effective_from \in Nat
      BY DEF InUse, Active, FactorInv, RowsFit, FactorTypeOK
    <3>3. t \in Nat /\ factor[f].effective_from <= t
      BY <2>0, <3>1, <3>2 DEF Covers
    <3>4. f \in InEffect(t) /\ f \in Configured
      BY <3>2, <3>3 DEF InEffect, Configured
    <3>5. PICK g \in Factors : InEffect(t) = {g}
      BY <3>3, <3>4 DEF FactorInv, WindowsFollow
    <3> QED BY <3>4, <3>5
  <2> QED BY <2>1, <2>2
<1> QED BY FactorStarts, FactorStep, <1>1, PTL DEF FactorSpec

\* emission_factor_repository.py:67, for any factors and configurations: one that is not
\* overtaken leaves a single active factor, whatever earlier ones have left.
THEOREM ConfigurationLeavesOne == FactorSpec => ConfigurationHeals
<1>1. ASSUME FactorInv, [FactorNext]_factorVars, NEW a \in Admins,
             config[a].pc = "updated", ~config[a].stale, factor' # factor, config'[a] = NoConfig
      PROVE  Cardinality(Active') = 1
  <2>1. PICK b \in Admins : ConfigCommits(b)
    BY <1>1 DEF FactorNext, factorVars, Tick, ConfigStep, Starts, Lists, Updates, ConfigFails,
                Configures
  <2>2. a = b
    <3>1. ASSUME a # b PROVE FALSE
      <4>1. config'[a] = [config[a] EXCEPT !.stale = config[a].pc # "idle"]
        BY <2>1, <3>1 DEF ConfigCommits
      <4>2. config[a] \in Configuring /\ (config[a].pc # "idle") \in BOOLEAN
        BY <1>1 DEF FactorInv, FactorTypeOK, Configuring
      <4>3. config'[a].pc = "updated"
        BY <1>1, <4>1, <4>2 DEF Configuring
      <4> QED BY <1>1, <4>3 DEF NoConfig
    <3> QED BY <3>1
  <2>3. Active' = {NewFactor}
    BY <1>1, <2>1, <2>2, OnlyNewActive
  <2> QED BY <2>3, FS_Singleton
<1>2. FactorInv /\ [FactorNext]_factorVars
      => [\A a \in Admins :
            config[a].pc = "updated" /\ ~config[a].stale /\ factor' # factor
            /\ config'[a] = NoConfig => Cardinality(Active') = 1]_factorVars
  BY <1>1
<1> QED BY FactorStarts, FactorStep, <1>2, PTL DEF FactorSpec, ConfigurationHeals

-----------------------------------------------------------------------------
(* All of them. *)

\* A behaviour of all records is one of each kind: what is proved of a kind holds
\* of the composition that the runs check.
THEOREM RecordsKeepApart ==
    RecordsSpec => BaselineSpec /\ KnowledgeSpec /\ WorkOrderSpec /\ FactorSpec
<1>1. RecordsInit => BaselineInit /\ KnowledgeInit /\ WorkOrderInit /\ FactorInit
  BY DEF RecordsInit
<1>2. ASSUME [RecordsNext]_recordVars
      PROVE  /\ [BaselineNext]_baselineVars /\ [KnowledgeNext]_knowledgeVars
             /\ [WorkOrderNext]_workOrderVars /\ [FactorNext]_factorVars
  <2>1. [BaselineNext]_baselineVars
    BY <1>2 DEF RecordsNext, recordVars
  <2>2. [KnowledgeNext]_knowledgeVars
    BY <1>2 DEF RecordsNext, recordVars
  <2>3. [WorkOrderNext]_workOrderVars
    BY <1>2 DEF RecordsNext, recordVars
  <2>4. [FactorNext]_factorVars
    BY <1>2 DEF RecordsNext, recordVars
  <2> QED BY <2>1, <2>2, <2>3, <2>4
<1> QED BY <1>1, <1>2, PTL
        DEF RecordsSpec, BaselineSpec, KnowledgeSpec, WorkOrderSpec, FactorSpec

\* So is the evidence and what is decided on it, as long as the rows that the
\* decisions are shown are among those that there may be.
THEOREM DecisionsKeepApart ==
    ASSUME FewRows \subseteq Rows
    PROVE  RecordsSpec => DecisionSpec
<1>1. RecordsInit => DecisionInit
  BY DEF RecordsInit
<1>2. ASSUME [RecordsNext]_recordVars
      PROVE  [DecisionNext]_decisionVars
  <2>1. EvidenceChanges(FewRows) => EvidenceChanges(Rows)
    BY DEF EvidenceChanges
  <2> QED BY <1>2, <2>1 DEF RecordsNext, recordVars, DecisionNext
<1> QED BY <1>1, <1>2, PTL DEF RecordsSpec, DecisionSpec

\* The variables of all records keep their types, whichever records move.
THEOREM RecordsTypeCorrect == RecordsSpec => []RecordsTypeOK
<1>1. WorkOrderInv /\ FactorInv => WorkOrderTypeOK /\ FactorTypeOK
  BY DEF WorkOrderInv, FactorInv
<1>2. BaselineTypeOK /\ KnowledgeTypeOK /\ WorkOrderTypeOK /\ FactorTypeOK => RecordsTypeOK
  BY DEF RecordsTypeOK
<1> QED BY RecordsKeepApart, BaselineTypeCorrect, KnowledgeTypeCorrect, WorkOrderStarts,
           WorkOrderStep, FactorStarts, FactorStep, <1>1, <1>2, PTL
        DEF WorkOrderSpec, FactorSpec
=============================================================================
