---------------------------- MODULE WorkflowProofs ----------------------------
(***************************************************************************)
(* Theorems about Workflow, for any sets of rows, keys and simultaneous    *)
(* requests.  The rest of each proof is one case per action.               *)
(***************************************************************************)
EXTENDS Workflow, TLAPS

-----------------------------------------------------------------------------
(* Facts about the operators                                                *)

\* A case operation leads from states of a case to a state of a case.
LEMMA Operations ==
    ASSUME NEW op \in CaseOps
    PROVE  /\ After[op] \in CaseState \ {"NONE", "REVIEW_REQUIRED", "NOT_STARTED"}
           /\ Before[op] \subseteq CaseState \ {"NONE"}
  <1>1. CASE op = "plan" BY <1>1 DEF After, Before, CaseState
  <1>2. CASE op = "start" BY <1>2 DEF After, Before, CaseState
  <1>3. CASE op = "act" BY <1>3 DEF After, Before, CaseState
  <1>4. CASE op = "complete" BY <1>4 DEF After, Before, CaseState
  <1>5. CASE op = "cancel" BY <1>5 DEF After, Before, CaseState
  <1> QED BY <1>1, <1>2, <1>3, <1>4, <1>5 DEF CaseOps

\* A state that can be resolved is open.
LEMMA ResolvableIsOpen ==
    ASSUME NEW row \in [state : IncidentState, key : Keys \cup {NoRow}],
           "RESOLVED" \in Valid[row.state]
    PROVE  IsOpen(row)
  <1>1. row.state # "NONE" BY DEF Valid
  <1>2. row.state # "RESOLVED" BY DEF Valid
  <1>3. row.state # "CLOSED" BY DEF Valid
  <1> QED BY <1>1, <1>2, <1>3 DEF IsOpen

\* Commit installs both tables, with their indexes satisfied, or neither.
LEMMA CommitFacts ==
    ASSUME NEW r \in Requests, NEW incidents \in IncidentTable, NEW cases \in CaseTable,
           WorkflowTypeOK, Commit(r, incidents, cases)
    PROVE  /\ incident' \in IncidentTable /\ case' \in CaseTable
           /\ request' = [request EXCEPT ![r] = IdleRequest]
           /\ reopened' \in [Cases -> BOOLEAN]
           /\ \/ /\ incident' = incidents /\ case' = cases
                 /\ IncidentIndex(incidents) /\ CaseIndex(cases)
              \/ incident' = incident /\ case' = case
           /\ \A c \in Cases :
                 reopened'[c] <=> \/ reopened[c]
                                  \/ case[c].of # NoRow /\ IsOpen(incident'[case[c].of])
  <1>1. /\ incident' \in IncidentTable /\ case' \in CaseTable
        /\ \/ /\ incident' = incidents /\ case' = cases
              /\ IncidentIndex(incidents) /\ CaseIndex(cases)
           \/ incident' = incident /\ case' = case
    BY DEF Commit, WorkflowTypeOK
  <1>2. request' = [request EXCEPT ![r] = IdleRequest]
    BY DEF Commit
  <1>3. reopened' = [c \in Cases |-> \/ reopened[c]
                                     \/ case[c].of # NoRow /\ IsOpen(incident'[case[c].of])]
    BY DEF Commit
  <1>4. \A c \in Cases : (\/ reopened[c]
                          \/ case[c].of # NoRow /\ IsOpen(incident'[case[c].of])) \in BOOLEAN
    BY DEF WorkflowTypeOK, IsOpen
  <1> QED BY <1>1, <1>2, <1>3, <1>4, Zenon

-----------------------------------------------------------------------------
(* What a step can be                                                       *)

Base == WorkflowTypeOK /\ RequestInv /\ CaseInv

\* Only request r has changed, to t.
Changes(r, t) ==
    /\ request' = [request EXCEPT ![r] = t]
    /\ UNCHANGED <<incident, case, feedback, reopened>>

\* No case is lost, is moved to another incident, goes back to before its plan
\* or is completed.
Advance(cases) ==
    \A c \in Cases :
        /\ cases[c].state = "NONE" <=> cases[c].of = NoRow
        /\ case[c].state # "NONE" => cases[c].of = case[c].of
        /\ cases[c].state \in {"REVIEW_REQUIRED", "NOT_STARTED"} =>
               case[c].state \in {"NONE", "REVIEW_REQUIRED", "NOT_STARTED"}
        /\ cases[c].state = "COMPLETED" => case[c].state = "COMPLETED"

\* An incident becomes ACTION_PLANNED only together with the plan of a case.
Planned(incidents, cases) ==
    \A i \in Incidents : incidents[i].state = "ACTION_PLANNED" =>
        \/ incident[i].state = "ACTION_PLANNED"
        \/ \E c \in Cases : cases[c].of = i /\ cases[c].state = "PLANNED"

\* A commit other than that of a completion.
Works(r) ==
    /\ \E incidents \in IncidentTable, cases \in CaseTable :
          Commit(r, incidents, cases) /\ Advance(cases) /\ Planned(incidents, cases)
    /\ UNCHANGED feedback

\* The requests between two commits: they only read, or write uncommitted rows.
Between(r) ==
    \/ \E t \in Request : Changes(r, t) /\ Sound(t) /\ t.pc # "saved"
    \/ PlanSaves(r) /\ Changes(r, [request[r] EXCEPT !.pc = "saved"])
    \/ CompleteSaves(r) /\ Changes(r, [request[r] EXCEPT !.pc = "saved"])

\* Every read leaves a sound request.
LEMMA ReadSteps ==
    ASSUME Base, NEW r \in Requests, Read(r)
    PROVE  \E t \in Request : Changes(r, t) /\ Sound(t) /\ t.pc # "saved"
  <1>1. CASE MoveRequested(r)
    <2>1. PICK i \in Incidents, to \in ByHand :
              Reads(r, [pc |-> "read", op |-> "move", rows |-> {i}, row |-> NoRow, to |-> to])
      BY <1>1 DEF MoveRequested
    <2> DEFINE t == [pc |-> "read", op |-> "move", rows |-> {i}, row |-> NoRow, to |-> to]
    <2>2. t \in Request BY DEF Request, ByHand, IncidentState
    <2>3. Sound(t) BY DEF Sound, CaseOps
    <2> QED BY <2>1, <2>2, <2>3 DEF Reads, Changes
  <1>2. CASE Recovery(r)
    <2>1. PICK pc \in {"read", "failed"} :
              Reads(r, [pc |-> pc, op |-> "move", rows |-> OpenIncidents, row |-> NoRow,
                        to |-> "RESOLVED"])
      BY <1>2 DEF Recovery
    <2> DEFINE t == [pc |-> pc, op |-> "move", rows |-> OpenIncidents, row |-> NoRow,
                     to |-> "RESOLVED"]
    <2>2. t \in Request BY DEF Request, IncidentState, OpenIncidents
    <2>3. Sound(t) BY DEF Sound, CaseOps, ByHand
    <2> QED BY <2>1, <2>2, <2>3 DEF Reads, Changes
  <1>3. CASE Fault(r)
    <2>1. PICK k \in Keys :
              Reads(r, [pc |-> "read", op |-> "open", rows |-> {}, row |-> k, to |-> "OPEN"])
      BY <1>3 DEF Fault
    <2> DEFINE t == [pc |-> "read", op |-> "open", rows |-> {}, row |-> k, to |-> "OPEN"]
    <2>2. t \in Request BY DEF Request, IncidentState
    <2>3. Sound(t) BY DEF Sound, CaseOps
    <2> QED BY <2>1, <2>2, <2>3 DEF Reads, Changes
  <1>4. CASE CaseRequested(r)
    <2>1. PICK i \in Incidents, to \in {"REVIEW_REQUIRED", "NOT_STARTED"} :
              Reads(r, [pc |-> "read", op |-> "openCase", rows |-> {}, row |-> i, to |-> to])
      BY <1>4 DEF CaseRequested
    <2> DEFINE t == [pc |-> "read", op |-> "openCase", rows |-> {}, row |-> i, to |-> to]
    <2>2. t \in Request BY DEF Request, CaseState
    <2>3. Sound(t) BY DEF Sound, CaseOps
    <2> QED BY <2>1, <2>2, <2>3 DEF Reads, Changes
  <1>5. CASE WorkRequested(r)
    <2>1. PICK c \in Cases, op \in CaseOps :
              /\ case[c].state \in Before[op]
              /\ Reads(r, [pc |-> "read", op |-> op, rows |-> {}, row |-> c, to |-> After[op]])
      BY <1>5 DEF WorkRequested
    <2> DEFINE t == [pc |-> "read", op |-> op, rows |-> {}, row |-> c, to |-> After[op]]
    <2>2. t \in Request BY Operations DEF Request
    <2>3. Sound(t) BY <2>1, Operations DEF Sound, CaseOps
    <2> QED BY <2>1, <2>2, <2>3 DEF Reads, Changes
  <1> QED BY <1>1, <1>2, <1>3, <1>4, <1>5 DEF Read

\* Every write is a commit that keeps the order of work, or the completion of a
\* case, or happens between two commits.
LEMMA WriteSteps ==
    ASSUME Base, NEW r \in Requests, Write(r)
    PROVE  Works(r) \/ Between(r) \/ CompleteCommits(r)
  <1> USE DEF Base, WorkflowTypeOK
  <1> DEFINE c == request[r].row
  <1>1. CASE MoveIncidents(r)
    <2> DEFINE incidents == [i \in Incidents |->
                                IF i \in request[r].rows
                                THEN [incident[i] EXCEPT !.state = request[r].to]
                                ELSE incident[i]]
    <2>1. request[r].to \in ByHand
      BY <1>1 DEF MoveIncidents, RequestInv, Sound
    <2>2. incidents \in IncidentTable
      BY <2>1 DEF IncidentTable, ByHand, IncidentState
    <2>3. Planned(incidents, case)
      BY <2>1 DEF Planned, ByHand, IncidentTable
    <2>4. Advance(case)
      BY DEF Advance, CaseInv
    <2> QED BY <1>1, <2>2, <2>3, <2>4 DEF MoveIncidents, Works
  <1>2. CASE OpenIncident(r)
    <2>1. PICK i \in Incidents :
              Commit(r, [incident EXCEPT ![i] = [state |-> "OPEN", key |-> c]], case)
      BY <1>2 DEF OpenIncident
    <2> DEFINE incidents == [incident EXCEPT ![i] = [state |-> "OPEN", key |-> c]]
    <2>2. incidents \in IncidentTable
      BY <1>2 DEF OpenIncident, RequestInv, Sound, IncidentTable, IncidentState
    <2>3. Planned(incidents, case)
      BY DEF Planned, IncidentTable
    <2>4. Advance(case)
      BY DEF Advance, CaseInv
    <2> QED BY <1>2, <2>1, <2>2, <2>3, <2>4 DEF OpenIncident, Works
  <1>3. CASE OpenCase(r)
    <2>1. PICK d \in Cases :
              /\ case[d].state = "NONE"
              /\ Commit(r, incident, [case EXCEPT ![d] = [state |-> request[r].to, of |-> c]])
      BY <1>3 DEF OpenCase
    <2> DEFINE cases == [case EXCEPT ![d] = [state |-> request[r].to, of |-> c]]
    <2>2. c \in Incidents /\ request[r].to \in {"REVIEW_REQUIRED", "NOT_STARTED"}
      BY <1>3 DEF OpenCase, RequestInv, Sound
    <2>3. cases \in CaseTable
      BY <2>2 DEF CaseTable, CaseState
    <2>4. Advance(cases)
      BY <2>1, <2>2, WorkflowAssumption DEF Advance, CaseInv, CaseTable
    <2>5. Planned(incident, cases)
      BY DEF Planned
    <2> QED BY <1>3, <2>1, <2>3, <2>4, <2>5 DEF OpenCase, Works
  <1>4. CASE WriteCase(r)
    <2> DEFINE cases == [case EXCEPT ![c].state = request[r].to]
    <2>1. /\ c \in Cases /\ case[c].state # "NONE"
          /\ request[r].to \in {"IN_PROGRESS", "AWAITING_VERIFICATION", "CANCELLED"}
      BY <1>4 DEF WriteCase, RequestInv, Sound, CaseOps, After
    <2>2. cases \in CaseTable
      BY <2>1 DEF CaseTable, CaseState
    <2>3. Advance(cases)
      BY <2>1 DEF Advance, CaseInv, CaseTable
    <2>4. Planned(incident, cases)
      BY DEF Planned
    <2> QED BY <1>4, <2>2, <2>3, <2>4 DEF WriteCase, Works
  <1> DEFINE planned == [case EXCEPT ![c].state = "PLANNED"]
  <1>5. ASSUME request[r].op = "plan"
        PROVE  /\ c \in Cases /\ case[c].of \in Incidents
               /\ planned \in CaseTable /\ planned[c] = [state |-> "PLANNED", of |-> case[c].of]
               /\ Advance(planned)
    <2>1. c \in Cases /\ case[c].state # "NONE"
      BY <1>5 DEF RequestInv, Sound, CaseOps
    <2>2. case[c].of \in Incidents
      BY <2>1 DEF CaseInv, CaseTable
    <2>3. planned \in CaseTable /\ planned[c] = [state |-> "PLANNED", of |-> case[c].of]
      BY <2>1 DEF CaseTable, CaseState
    <2>4. Advance(planned)
      BY <2>1 DEF Advance, CaseInv, CaseTable
    <2> QED BY <2>1, <2>2, <2>3, <2>4
  <1>6. CASE PlanSaves(r)
    <2>1. CASE Commit(r, incident, planned)
      <3>1. Planned(incident, planned)
        BY DEF Planned
      <3> QED BY <1>5, <1>6, <2>1, <3>1 DEF PlanSaves, Works
    <2>2. CASE ~Commit(r, incident, planned)
      <3>1. Changes(r, [request[r] EXCEPT !.pc = "saved"])
        BY <1>6, <2>2 DEF PlanSaves, Changes
      <3> QED BY <1>6, <3>1 DEF Between
    <2> QED BY <2>1, <2>2
  <1>7. CASE PlanCommits(r)
    <2> DEFINE incidents == [incident EXCEPT ![case[c].of].state = "ACTION_PLANNED"]
    <2>1. request[r].op = "plan" BY <1>7 DEF PlanCommits
    <2>2. incidents \in IncidentTable
      BY <1>5, <2>1 DEF IncidentTable, IncidentState
    <2>3. Planned(incidents, planned)
      BY <1>5, <2>1 DEF Planned, IncidentTable
    <2> QED BY <1>5, <1>7, <2>1, <2>2, <2>3 DEF PlanCommits, Works
  <1>8. CASE CompleteSaves(r)
    <2>1. CASE "RESOLVED" \in Valid[incident[case[c].of].state]
      <3>1. Changes(r, [request[r] EXCEPT !.pc = "saved"])
        BY <1>8, <2>1 DEF CompleteSaves, Changes
      <3> QED BY <1>8, <3>1 DEF Between
    <2>2. CASE "RESOLVED" \notin Valid[incident[case[c].of].state]
      <3>1. Changes(r, IdleRequest)
        BY <1>8, <2>2 DEF CompleteSaves, Changes
      <3>2. IdleRequest \in Request /\ Sound(IdleRequest) /\ IdleRequest.pc # "saved"
        BY DEF IdleRequest, Request, Sound, CaseOps, IncidentState
      <3> QED BY <3>1, <3>2 DEF Between
    <2> QED BY <2>1, <2>2
  <1>9. CASE CompleteCommits(r)
    BY <1>9
  <1> QED BY <1>1, <1>2, <1>3, <1>4, <1>6, <1>7, <1>8, <1>9 DEF Write

\* The three kinds of steps of a request.
LEMMA Steps ==
    ASSUME Base, NEW r \in Requests, Read(r) \/ Write(r) \/ RollBack(r)
    PROVE  Works(r) \/ Between(r) \/ CompleteCommits(r)
  <1>1. CASE Read(r)
    BY <1>1, ReadSteps DEF Between
  <1>2. CASE RollBack(r)
    <2>1. Changes(r, IdleRequest)
      BY <1>2 DEF RollBack, Changes
    <2>2. IdleRequest \in Request /\ Sound(IdleRequest) /\ IdleRequest.pc # "saved"
      BY DEF IdleRequest, Request, Sound, CaseOps, IncidentState
    <2> QED BY <2>1, <2>2 DEF Between
  <1> QED BY <1>1, <1>2, WriteSteps

-----------------------------------------------------------------------------
(* Typing                                                                   *)

LEMMA BaseInit == WorkflowInit => Base
  <1> SUFFICES ASSUME WorkflowInit PROVE Base OBVIOUS
  <1> USE DEF WorkflowInit, IdleRequest
  <1>1. WorkflowTypeOK
    BY WorkflowAssumption DEF WorkflowTypeOK, IncidentTable, CaseTable, Request, IncidentState, CaseState
  <1>2. RequestInv BY DEF RequestInv, Sound, CaseOps
  <1>3. CaseInv BY DEF CaseInv
  <1> QED BY <1>1, <1>2, <1>3 DEF Base

LEMMA BaseStep == Base /\ [WorkflowNext]_workflowVars => Base'
  <1> SUFFICES ASSUME Base, [WorkflowNext]_workflowVars PROVE Base' OBVIOUS
  <1> USE DEF Base
  <1>1. ASSUME NEW r \in Requests, Works(r) PROVE Base'
    <2>1. PICK incidents \in IncidentTable, cases \in CaseTable :
              Commit(r, incidents, cases) /\ Advance(cases)
      BY <1>1 DEF Works
    <2>2. /\ incident' \in IncidentTable /\ case' \in CaseTable
          /\ request' = [request EXCEPT ![r] = IdleRequest]
          /\ reopened' \in [Cases -> BOOLEAN]
          /\ case' = cases \/ case' = case
      BY <2>1, CommitFacts
    <2>3. Advance(case')
      BY <2>1, <2>2 DEF Advance, CaseInv
    <2>4. IdleRequest \in Request
      BY DEF IdleRequest, Request, CaseOps, IncidentState
    <2>5. WorkflowTypeOK'
      BY <1>1, <2>2, <2>4 DEF WorkflowTypeOK, Works
    <2>6. CaseInv'
      BY <1>1, <2>2, <2>3 DEF CaseInv, Advance, Works
    <2>7. RequestInv'
      <3> SUFFICES ASSUME NEW s \in Requests PROVE Sound(request[s])'
        BY DEF RequestInv
      <3>1. CASE s = r
        BY <2>2, <3>1 DEF Sound, IdleRequest, CaseOps, WorkflowTypeOK
      <3>2. CASE s # r
        <4>1. request'[s] = request[s] /\ Sound(request[s])
          BY <2>2, <3>2 DEF RequestInv, WorkflowTypeOK
        <4>2. \A c \in Cases : case[c].state # "NONE" => case'[c].state # "NONE"
          BY <2>3 DEF Advance, CaseInv
        <4> QED BY <4>1, <4>2 DEF Sound
      <3> QED BY <3>1, <3>2
    <2> QED BY <2>5, <2>6, <2>7
  <1>2. ASSUME NEW r \in Requests, NEW t \in Request, Changes(r, t), Sound(t)
        PROVE  Base'
    <2>1. WorkflowTypeOK' BY <1>2 DEF WorkflowTypeOK, Changes
    <2>2. CaseInv' BY <1>2 DEF CaseInv, Changes
    <2>3. RequestInv' BY <1>2 DEF RequestInv, Sound, Changes, WorkflowTypeOK
    <2> QED BY <2>1, <2>2, <2>3
  <1>3. ASSUME NEW r \in Requests, Between(r) PROVE Base'
    <2>1. ASSUME request[r].op \in {"plan", "complete"},
                 Changes(r, [request[r] EXCEPT !.pc = "saved"])
          PROVE  Base'
      <3> DEFINE t == [request[r] EXCEPT !.pc = "saved"]
      <3>1. t \in Request BY DEF WorkflowTypeOK, Request
      <3>2. /\ t.pc = "saved" /\ t.op = request[r].op
            /\ t.row = request[r].row /\ t.to = request[r].to
        BY DEF WorkflowTypeOK, Request
      <3>3. Sound(t) BY <2>1, <3>2 DEF RequestInv, Sound
      <3> QED BY <1>2, <2>1, <3>1, <3>3
    <2>2. CASE \E t \in Request : Changes(r, t) /\ Sound(t)
      BY <1>2, <2>2
    <2> QED BY <1>3, <2>1, <2>2 DEF Between, PlanSaves, CompleteSaves
  <1>4. ASSUME NEW r \in Requests, CompleteCommits(r) PROVE Base'
    <2> DEFINE c == request[r].row
    <2>1. c \in Cases /\ case[c].state # "NONE" /\ case[c].of \in Incidents
      BY <1>4 DEF CompleteCommits, RequestInv, Sound, CaseOps, CaseInv, WorkflowTypeOK, CaseTable
    <2>2. IdleRequest \in Request
      BY DEF IdleRequest, Request, CaseOps, IncidentState
    <2>3. /\ case' = [case EXCEPT ![c].state = "COMPLETED"]
          /\ incident' = [incident EXCEPT ![case[c].of].state = "RESOLVED"]
          /\ feedback' = [feedback EXCEPT ![c] = @ + 1] /\ feedback[c] < MaxFeedback
          /\ reopened' = [reopened EXCEPT ![c] = FALSE]
          /\ request' = [request EXCEPT ![r] = IdleRequest]
      BY <1>4 DEF CompleteCommits
    <2>4. incident' \in IncidentTable
      BY <2>1, <2>3 DEF WorkflowTypeOK, IncidentTable, IncidentState
    <2>5. case' \in CaseTable
      BY <2>1, <2>3 DEF WorkflowTypeOK, CaseTable, CaseState
    <2>6. feedback' \in [Cases -> 0 .. MaxFeedback]
      BY <2>1, <2>3, WorkflowAssumption DEF WorkflowTypeOK
    <2>7. reopened' \in [Cases -> BOOLEAN] /\ request' \in [Requests -> Request]
      BY <2>2, <2>3 DEF WorkflowTypeOK
    <2>8. CaseInv'
      BY <2>1, <2>3 DEF CaseInv, WorkflowTypeOK, CaseTable
    <2>9. RequestInv'
      <3> SUFFICES ASSUME NEW s \in Requests PROVE Sound(request[s])'
        BY DEF RequestInv
      <3>1. CASE s = r
        BY <2>3, <3>1 DEF Sound, IdleRequest, CaseOps, WorkflowTypeOK
      <3>2. CASE s # r
        <4>1. request'[s] = request[s] /\ Sound(request[s])
          BY <2>3, <3>2 DEF RequestInv, WorkflowTypeOK
        <4>2. \A d \in Cases : case[d].state # "NONE" => case'[d].state # "NONE"
          BY <2>3 DEF WorkflowTypeOK, CaseTable
        <4> QED BY <4>1, <4>2 DEF Sound
      <3> QED BY <3>1, <3>2
    <2> QED BY <2>4, <2>5, <2>6, <2>7, <2>8, <2>9 DEF WorkflowTypeOK
  <1>5. CASE UNCHANGED workflowVars
    BY <1>5 DEF workflowVars, WorkflowTypeOK, RequestInv, CaseInv, Sound
  <1> QED BY <1>1, <1>3, <1>4, <1>5, Steps DEF WorkflowNext

LEMMA Basis == WorkflowSpec => []Base
  BY BaseInit, BaseStep, PTL DEF WorkflowSpec

\* The tables, and the rows that requests name, have their types: a write from
\* a stale read never puts a row in a state that is none (WorkflowTypeOK).
THEOREM WorkflowTyping == WorkflowSpec => []WorkflowTypeOK
  <1>1. Base => WorkflowTypeOK BY DEF Base
  <1> QED BY <1>1, Basis, PTL

-----------------------------------------------------------------------------
(* Plans                                                                    *)

\* An incident is ACTION_PLANNED only if a case of it has been planned
\* (ActionPlannedHasPlan): plan moves both in one commit, no one else moves an
\* incident there, and no case goes back to before its plan.
THEOREM PlannedTogether == WorkflowSpec => []ActionPlannedHasPlan
  <1>1. WorkflowInit => ActionPlannedHasPlan
    BY DEF WorkflowInit, ActionPlannedHasPlan
  <1>2. Base /\ ActionPlannedHasPlan /\ [WorkflowNext]_workflowVars => ActionPlannedHasPlan'
    <2> SUFFICES ASSUME Base, ActionPlannedHasPlan, [WorkflowNext]_workflowVars,
                        NEW i \in Incidents, incident'[i].state = "ACTION_PLANNED"
                 PROVE  \E c \in Cases : /\ case'[c].of = i
                          /\ case'[c].state \notin {"REVIEW_REQUIRED", "NOT_STARTED"}
      BY DEF ActionPlannedHasPlan
    <2> USE WorkflowAssumption DEF Base
    <2>1. ASSUME incident[i].state = "ACTION_PLANNED"
          PROVE  \E c \in Cases : /\ case[c].of = i /\ case[c].state # "NONE"
                           /\ case[c].state \notin {"REVIEW_REQUIRED", "NOT_STARTED"}
      BY <2>1 DEF ActionPlannedHasPlan, CaseInv
    <2>2. ASSUME NEW r \in Requests, Works(r)
          PROVE  \E c \in Cases : /\ case'[c].of = i
                           /\ case'[c].state \notin {"REVIEW_REQUIRED", "NOT_STARTED"}
      <3>1. PICK incidents \in IncidentTable, cases \in CaseTable :
                Commit(r, incidents, cases) /\ Advance(cases) /\ Planned(incidents, cases)
        BY <2>2 DEF Works
      <3>2. \/ incident' = incident /\ case' = case
            \/ incident' = incidents /\ case' = cases
        BY <3>1, CommitFacts
      <3>3. CASE incident' = incident /\ case' = case
        BY <2>1, <3>3
      <3>4. CASE incident' = incidents /\ case' = cases
        <4>1. CASE incident[i].state = "ACTION_PLANNED"
          BY <2>1, <3>1, <3>4, <4>1 DEF Advance
        <4>2. CASE \E c \in Cases : cases[c].of = i /\ cases[c].state = "PLANNED"
          BY <3>4, <4>2
        <4> QED BY <3>1, <3>4, <4>1, <4>2 DEF Planned
      <3> QED BY <3>2, <3>3, <3>4
    <2>3. ASSUME NEW r \in Requests, CompleteCommits(r)
          PROVE  \E c \in Cases : /\ case'[c].of = i
                           /\ case'[c].state \notin {"REVIEW_REQUIRED", "NOT_STARTED"}
      <3>1. /\ incident' = [incident EXCEPT ![case[request[r].row].of].state = "RESOLVED"]
            /\ case' = [case EXCEPT ![request[r].row].state = "COMPLETED"]
        BY <2>3 DEF CompleteCommits
      <3>2. incident[i].state = "ACTION_PLANNED"
        BY <3>1 DEF WorkflowTypeOK, IncidentTable
      <3>3. \A c \in Cases : /\ case'[c].of = case[c].of
                            /\ case'[c].state \in {case[c].state, "COMPLETED"}
        BY <3>1 DEF WorkflowTypeOK, CaseTable
      <3> QED BY <2>1, <3>2, <3>3
    <2>4. ASSUME NEW r \in Requests, Between(r)
          PROVE  incident' = incident /\ case' = case
      BY <2>4 DEF Between, Changes
    <2>5. CASE UNCHANGED workflowVars
      BY <2>1, <2>5 DEF workflowVars
    <2> QED BY <2>1, <2>2, <2>3, <2>4, <2>5, Steps DEF WorkflowNext
  <1> QED BY <1>1, <1>2, Basis, PTL DEF WorkflowSpec

-----------------------------------------------------------------------------
(* Completions                                                              *)

\* A case is locked by one request: one that locks it has found it unlocked.
LEMMA RowLocks == WorkflowSpec => []RowLockInv
  <1>1. WorkflowInit => RowLockInv
    BY DEF WorkflowInit, RowLockInv, IdleRequest
  <1>2. Base /\ RowLockInv /\ [WorkflowNext]_workflowVars => RowLockInv'
    <2> SUFFICES ASSUME Base, RowLockInv, [WorkflowNext]_workflowVars PROVE RowLockInv'
      OBVIOUS
    <2> USE DEF Base, WorkflowTypeOK, RowLockInv
    <2>1. ASSUME NEW r \in Requests, NEW t \in Request,
                 request' = [request EXCEPT ![r] = t], t.pc # "saved"
          PROVE  RowLockInv'
      BY <2>1
    <2>2. IdleRequest \in Request /\ IdleRequest.pc # "saved"
      BY DEF IdleRequest, Request, CaseOps, IncidentState
    <2>3. ASSUME NEW r \in Requests, ~Locked(request[r].row),
                 Changes(r, [request[r] EXCEPT !.pc = "saved"])
          PROVE  RowLockInv'
      <3>1. \A s \in Requests : request'[s].row = request[s].row
        BY <2>3 DEF Changes, Request
      <3>2. \A s \in Requests : s # r => request'[s].pc = request[s].pc
        BY <2>3 DEF Changes
      <3> QED BY <2>3, <3>1, <3>2 DEF Locked
    <2>4. ASSUME NEW r \in Requests, Works(r) PROVE RowLockInv'
      BY <2>1, <2>2, <2>4, CommitFacts DEF Works
    <2>5. ASSUME NEW r \in Requests, CompleteCommits(r) PROVE RowLockInv'
      BY <2>1, <2>2, <2>5 DEF CompleteCommits
    <2>6. ASSUME NEW r \in Requests, Between(r) PROVE RowLockInv'
      <3>1. CASE \E t \in Request : Changes(r, t) /\ t.pc # "saved"
        BY <2>1, <3>1 DEF Changes
      <3> QED BY <2>3, <2>6, <3>1 DEF Between, PlanSaves, CompleteSaves
    <2>7. CASE UNCHANGED workflowVars
      BY <2>7 DEF workflowVars
    <2> QED BY <2>4, <2>5, <2>6, <2>7, Steps DEF WorkflowNext
  <1> QED BY <1>1, <1>2, Basis, PTL DEF WorkflowSpec

\* A completed case whose incident is open has had it reopened, also when it
\* was a completion under way that found the incident open.
LEMMA Reopening == WorkflowSpec => []ReopenedInv
  <1>1. WorkflowInit => ReopenedInv
    BY WorkflowAssumption DEF WorkflowInit, ReopenedInv, IdleRequest
  <1>2. Base /\ RowLockInv /\ ReopenedInv /\ [WorkflowNext]_workflowVars => ReopenedInv'
    <2> SUFFICES ASSUME Base, RowLockInv, ReopenedInv, [WorkflowNext]_workflowVars PROVE ReopenedInv'
      OBVIOUS
    <2> USE DEF Base, WorkflowTypeOK
    <2>1. IdleRequest \in Request /\ IdleRequest.pc # "saved"
      BY DEF IdleRequest, Request, CaseOps, IncidentState
    <2>2. ASSUME NEW c \in Cases, feedback[c] > 0
          PROVE  case[c].state # "NONE" /\ case[c].of \in Incidents
      BY <2>2 DEF CaseInv, CaseTable
    <2>3. ASSUME NEW r \in Requests, Works(r) PROVE ReopenedInv'
      <3>1. PICK incidents \in IncidentTable, cases \in CaseTable :
                Commit(r, incidents, cases) /\ Advance(cases)
        BY <2>3 DEF Works
      <3>2. /\ request' = [request EXCEPT ![r] = IdleRequest] /\ feedback' = feedback
            /\ case' = case \/ case' = cases
            /\ \A c \in Cases :
                  reopened'[c] <=> \/ reopened[c]
                                   \/ case[c].of # NoRow /\ IsOpen(incident'[case[c].of])
        BY <2>3, <3>1, CommitFacts DEF Works
      <3>3. ASSUME NEW c \in Cases, feedback'[c] > 0, IsOpen(incident'[case'[c].of])
            PROVE  reopened'[c]
        <4>1. case[c].state # "NONE" /\ case[c].of \in Incidents
          BY <2>2, <3>2, <3>3
        <4>2. case'[c].of = case[c].of
          BY <3>1, <3>2, <4>1 DEF Advance
        <4> QED BY <3>2, <3>3, <4>1, <4>2, WorkflowAssumption
      <3>4. ASSUME NEW s \in Requests, request'[s].pc = "saved",
                   request'[s].op = "complete", feedback'[request'[s].row] > 0
            PROVE  reopened'[request'[s].row]
        <4>1. request'[s] = request[s]
          BY <2>1, <3>2, <3>4
        <4>2. request[s].row \in Cases
          BY <3>4, <4>1 DEF RequestInv, Sound, CaseOps
        <4> QED BY <3>2, <3>4, <4>1, <4>2 DEF ReopenedInv
      <3> QED BY <3>3, <3>4 DEF ReopenedInv, IsOpen
    <2>4. ASSUME NEW r \in Requests, NEW t \in Request, Changes(r, t),
                 t.pc = "saved" /\ t.op = "complete" /\ feedback[t.row] > 0
                     => reopened[t.row]
          PROVE  ReopenedInv'
      BY <2>4 DEF ReopenedInv, Changes, IsOpen
    <2>5. ASSUME NEW r \in Requests, Between(r) PROVE ReopenedInv'
      <3> DEFINE t == [request[r] EXCEPT !.pc = "saved"]
      <3>1. t \in Request /\ t.op = request[r].op /\ t.row = request[r].row
        BY DEF Request
      <3>2. CASE PlanSaves(r) /\ Changes(r, t)
        <4>1. t.op # "complete" BY <3>1, <3>2 DEF PlanSaves
        <4> QED BY <2>4, <3>1, <3>2, <4>1
      <3>3. CASE CompleteSaves(r) /\ Changes(r, t)
        <4> DEFINE c == request[r].row
        <4>1. c \in Cases /\ case[c].of \in Incidents
          BY <3>3 DEF CompleteSaves, RequestInv, Sound, CaseOps, CaseInv, CaseTable
        <4>2. t.pc = "saved" /\ request'[r] = t
          BY <3>3 DEF Changes, Request
        <4>3. t # IdleRequest
          BY <2>1, <4>2
        <4>4. "RESOLVED" \in Valid[incident[case[c].of].state]
          BY <3>3, <4>2, <4>3 DEF CompleteSaves
        <4>5. IsOpen(incident[case[c].of])
          BY <4>1, <4>4, ResolvableIsOpen DEF IncidentTable
        <4>6. feedback[c] > 0 => reopened[c]
          BY <4>1, <4>5 DEF ReopenedInv
        <4> QED BY <2>4, <3>1, <3>3, <4>6
      <3>4. CASE \E u \in Request : Changes(r, u) /\ u.pc # "saved"
        BY <2>4, <3>4
      <3> QED BY <2>5, <3>2, <3>3, <3>4 DEF Between
    <2>6. ASSUME NEW r \in Requests, CompleteCommits(r) PROVE ReopenedInv'
      <3> DEFINE d == request[r].row
      <3>1. d \in Cases /\ case[d].of \in Incidents /\ request[r].pc = "saved"
        BY <2>6 DEF CompleteCommits, RequestInv, Sound, CaseOps, CaseInv, CaseTable
      <3>2. /\ case' = [case EXCEPT ![d].state = "COMPLETED"]
            /\ incident' = [incident EXCEPT ![case[d].of].state = "RESOLVED"]
            /\ feedback' = [feedback EXCEPT ![d] = @ + 1]
            /\ reopened' = [reopened EXCEPT ![d] = FALSE]
            /\ request' = [request EXCEPT ![r] = IdleRequest]
        BY <2>6 DEF CompleteCommits
      <3>3. ASSUME NEW c \in Cases, feedback'[c] > 0, IsOpen(incident'[case'[c].of])
            PROVE  reopened'[c]
        <4>1. case'[c].of = case[c].of
          BY <3>1, <3>2 DEF CaseTable
        <4>2. c # d
          BY <3>1, <3>2, <3>3, <4>1 DEF IncidentTable, IsOpen
        <4>3. feedback[c] > 0 /\ reopened'[c] = reopened[c]
          BY <3>2, <3>3, <4>2
        <4>4. case[c].of \in Incidents
          BY <2>2, <4>3
        <4>5. IsOpen(incident[case[c].of])
          BY <3>1, <3>2, <3>3, <4>1, <4>4 DEF IncidentTable, IsOpen
        <4> QED BY <4>3, <4>5 DEF ReopenedInv
      <3>4. ASSUME NEW s \in Requests, request'[s].pc = "saved",
                   request'[s].op = "complete", feedback'[request'[s].row] > 0
            PROVE  reopened'[request'[s].row]
        <4>1. s # r /\ request'[s] = request[s]
          BY <2>1, <3>2, <3>4
        <4>2. request[s].row # d /\ request[s].row \in Cases
          BY <3>1, <3>4, <4>1 DEF RowLockInv, RequestInv, Sound, CaseOps
        <4> QED BY <3>2, <3>4, <4>1, <4>2 DEF ReopenedInv
      <3> QED BY <3>3, <3>4 DEF ReopenedInv, IsOpen
    <2>7. CASE UNCHANGED workflowVars
      BY <2>7 DEF workflowVars, ReopenedInv, IsOpen
    <2> QED BY <2>3, <2>5, <2>6, <2>7, Steps DEF WorkflowNext
  <1> QED BY <1>1, <1>2, Basis, RowLocks, PTL DEF WorkflowSpec

\* Of two simultaneous completions of a case one does nothing (CompletedOnce):
\* a further one, and so a second feedback record, only follows a reopening of the
\* incident.
THEOREM SingleCompletion == WorkflowSpec => CompletedOnce
  <1>1. Base /\ ReopenedInv /\ [WorkflowNext]_workflowVars =>
            [\A c \in Cases : feedback'[c] > feedback[c] /\ feedback[c] > 0
                               => reopened[c]]_workflowVars
    <2> SUFFICES ASSUME Base, ReopenedInv, WorkflowNext, NEW c \in Cases,
                        feedback'[c] > feedback[c], feedback[c] > 0
                 PROVE  reopened[c]
      OBVIOUS
    <2> USE DEF Base, WorkflowTypeOK
    <2>1. feedback' # feedback
      <3> SUFFICES ASSUME feedback' = feedback PROVE FALSE OBVIOUS
      <3>1. feedback[c] > feedback[c] /\ feedback[c] \in Nat
        BY WorkflowAssumption
      <3> QED BY <3>1
    <2>2. PICK r \in Requests : CompleteCommits(r)
      BY <2>1, Steps DEF WorkflowNext, Works, Between, Changes
    <2>3. c = request[r].row
      <3> SUFFICES ASSUME c # request[r].row PROVE FALSE OBVIOUS
      <3>1. feedback'[c] = feedback[c] /\ feedback[c] \in Nat
        BY <2>2, WorkflowAssumption DEF CompleteCommits
      <3> QED BY <3>1
    <2> QED BY <2>2, <2>3 DEF CompleteCommits, ReopenedInv
  <1> QED BY <1>1, Basis, Reopening, PTL DEF WorkflowSpec, CompletedOnce
=============================================================================
