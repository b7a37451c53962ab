------------------------------- MODULE Workflow -------------------------------
(***************************************************************************)
(* Incidents of one machine and the maintenance cases that work them off:  *)
(* IncidentService (backend/app/incidents/services/incident_service.py)    *)
(* and MaintenanceService (backend/app/maintenance/services/               *)
(* maintenance_service.py).                                                *)
(*                                                                         *)
(* A request is one READ COMMITTED transaction.  It reads the row it is    *)
(* about and validates the state it read; later it writes the row, by id   *)
(* and whatever the row has become, and commits.  plan and complete write  *)
(* the case, and so lock it, before they read its incident.  An exception  *)
(* rolls the transaction back.                                             *)
(***************************************************************************)
EXTENDS Naturals, FiniteSets

CONSTANTS
    Incidents,     \* rows of `incident`
    Cases,         \* rows of `maintenance_case`
    Keys,          \* correlation keys of the machine
    Requests,      \* bound: requests in progress at a time
    MaxFeedback,   \* bound: feedback records of a case
    NoRow

ASSUME WorkflowAssumption ==
    /\ MaxFeedback \in Nat
    /\ NoRow \notin Incidents \cup Cases \cup Keys

VARIABLES
    incident,   \* `incident`: state and correlation_key, as committed
    case,       \* `maintenance_case`: state and incident_id, as committed
    feedback,   \* number of rows in `feedback_record` per case
    request,    \* per request: what it has read and is going to write
    reopened    \* history: per case, whether its incident has been open since
                \* its last completion

workflowVars == <<incident, case, feedback, request, reopened>>

IncidentState == {"NONE", "DETECTED", "OPEN", "ACKNOWLEDGED", "INVESTIGATING",
                  "ACTION_PLANNED", "RESOLVED", "CLOSED", "REOPENED"}
CaseState == {"NONE", "REVIEW_REQUIRED", "NOT_STARTED", "PLANNED", "IN_PROGRESS",
              "AWAITING_VERIFICATION", "COMPLETED", "CANCELLED"}

\* _VALID_TRANSITIONS
Valid == [NONE           |-> {},
          DETECTED       |-> {"OPEN", "ACKNOWLEDGED", "RESOLVED"},
          OPEN           |-> {"ACKNOWLEDGED", "RESOLVED"},
          ACKNOWLEDGED   |-> {"INVESTIGATING", "RESOLVED"},
          INVESTIGATING  |-> {"ACTION_PLANNED", "RESOLVED"},
          ACTION_PLANNED |-> {"RESOLVED"},
          RESOLVED       |-> {"CLOSED", "REOPENED"},
          CLOSED         |-> {"REOPENED"},
          REOPENED       |-> {"ACKNOWLEDGED", "INVESTIGATING"}]

\* what acknowledge, start_investigation, resolve, close and reopen move to
ByHand == {"ACKNOWLEDGED", "INVESTIGATING", "RESOLVED", "CLOSED", "REOPENED"}

\* the states of a case in which an operation is allowed, and the next one
Before == [plan     |-> {"REVIEW_REQUIRED", "NOT_STARTED"},
           start    |-> {"PLANNED"},
           act      |-> {"IN_PROGRESS"},
           complete |-> {"IN_PROGRESS", "AWAITING_VERIFICATION"},
           cancel   |-> CaseState \ {"NONE", "COMPLETED", "CANCELLED"}]
After  == [plan     |-> "PLANNED",
           start    |-> "IN_PROGRESS",
           act      |-> "AWAITING_VERIFICATION",
           complete |-> "COMPLETED",
           cancel   |-> "CANCELLED"]
CaseOps == {"plan", "start", "act", "complete", "cancel"}

IsOpen(row)   == row.state \notin {"NONE", "RESOLVED", "CLOSED"}
IsActive(row) == row.state \notin {"NONE", "COMPLETED", "CANCELLED"}

IdleRequest == [pc |-> "idle", op |-> "none", rows |-> {}, row |-> NoRow, to |-> "NONE"]

IncidentTable == [Incidents -> [state : IncidentState, key : Keys \cup {NoRow}]]
CaseTable     == [Cases -> [state : CaseState, of : Incidents \cup {NoRow}]]
Request       == [pc   : {"idle", "read", "saved", "failed"},
                  op   : {"none", "move", "open", "openCase"} \cup CaseOps,
                  rows : SUBSET Incidents,
                  row  : Incidents \cup Cases \cup Keys \cup {NoRow},
                  to   : IncidentState \cup CaseState]

WorkflowTypeOK ==
    /\ incident \in IncidentTable
    /\ case \in CaseTable
    /\ feedback \in [Cases -> 0 .. MaxFeedback]
    /\ request \in [Requests -> Request]
    /\ reopened \in [Cases -> BOOLEAN]

WorkflowInit ==
    /\ incident = [i \in Incidents |-> [state |-> "NONE", key |-> NoRow]]
    /\ case = [c \in Cases |-> [state |-> "NONE", of |-> NoRow]]
    /\ feedback = [c \in Cases |-> 0]
    /\ request = [r \in Requests |-> IdleRequest]
    /\ reopened = [c \in Cases |-> FALSE]

-----------------------------------------------------------------------------
(* The first part of a request: read and validate                           *)

Reads(r, t) ==
    /\ request[r].pc = "idle"
    /\ request' = [request EXCEPT ![r] = t]
    /\ UNCHANGED <<incident, case, feedback, reopened>>

\* acknowledge, start_investigation, resolve, close, reopen
MoveRequested(r) ==
    \E i \in Incidents : \E to \in ByHand \cap Valid[incident[i].state] :
        Reads(r, [pc |-> "read", op |-> "move", rows |-> {i}, row |-> NoRow, to |-> to])

OpenIncidents == {i \in Incidents : IsOpen(incident[i])}

\* evaluate_machine finds NORMAL_OPERATION: every open incident is to be
\* resolved.  One that may not be raises an error.
Recovery(r) ==
    /\ OpenIncidents # {}
    /\ Reads(r, [pc   |-> IF \A i \in OpenIncidents : "RESOLVED" \in Valid[incident[i].state]
                          THEN "read" ELSE "failed",
                 op   |-> "move", rows |-> OpenIncidents, row |-> NoRow, to |-> "RESOLVED"])

\* evaluate_machine finds a fault and no open incident for it.  (If there is
\* one, evidence is added to it; inconclusive verdicts change nothing.)
Fault(r) ==
    \E k \in Keys :
        /\ \A i \in OpenIncidents : incident[i].key # k
        /\ Reads(r, [pc |-> "read", op |-> "open", rows |-> {}, row |-> k, to |-> "OPEN"])

\* create_case_for_incident: no active case yet, the incident in any state
CaseRequested(r) ==
    \E i \in Incidents, to \in {"REVIEW_REQUIRED", "NOT_STARTED"} :
        /\ incident[i].state # "NONE"
        /\ \A c \in Cases : IsActive(case[c]) => case[c].of # i
        /\ Reads(r, [pc |-> "read", op |-> "openCase", rows |-> {}, row |-> i, to |-> to])

\* plan, start, a physical record_action, complete, cancel
WorkRequested(r) ==
    \E c \in Cases, op \in CaseOps :
        /\ case[c].state \in Before[op]
        /\ Reads(r, [pc |-> "read", op |-> op, rows |-> {}, row |-> c, to |-> After[op]])

-----------------------------------------------------------------------------
(* The second part: write and commit                                        *)

\* uq_incident_active_correlation_key
IncidentIndex(rows) ==
    \A i, j \in Incidents :
        i # j /\ IsOpen(rows[i]) /\ IsOpen(rows[j]) => rows[i].key # rows[j].key

\* uq_maintenance_case_active_incident
CaseIndex(rows) ==
    \A c, d \in Cases :
        c # d /\ IsActive(rows[c]) /\ IsActive(rows[d]) => rows[c].of # rows[d].of

\* A commit of new tables; an index violated raises IntegrityError instead.
\* The history notes which incidents are open from now on.
Commit(r, incidents, cases) ==
    /\ IF IncidentIndex(incidents) /\ CaseIndex(cases)
       THEN incident' = incidents /\ case' = cases
       ELSE UNCHANGED <<incident, case>>
    /\ request' = [request EXCEPT ![r] = IdleRequest]
    /\ reopened' = [c \in Cases |->
                       \/ reopened[c]
                       \/ case[c].of # NoRow /\ IsOpen(incident'[case[c].of])]

\* c has been written by a request that has not committed
Locked(c) == \E r \in Requests : request[r].pc = "saved" /\ request[r].row = c

MoveIncidents(r) ==
    /\ request[r].pc = "read" /\ request[r].op = "move"
    /\ Commit(r, [i \in Incidents |-> IF i \in request[r].rows
                                      THEN [incident[i] EXCEPT !.state = request[r].to]
                                      ELSE incident[i]], case)
    /\ UNCHANGED feedback

OpenIncident(r) ==
    /\ request[r].pc = "read" /\ request[r].op = "open"
    /\ \E i \in Incidents :
          /\ incident[i].state = "NONE"
          /\ Commit(r, [incident EXCEPT ![i] = [state |-> "OPEN", key |-> request[r].row]], case)
    /\ UNCHANGED feedback

\* The insert waits for a case of the same incident that is being written.
OpenCase(r) ==
    /\ request[r].pc = "read" /\ request[r].op = "openCase"
    /\ \A c \in Cases : case[c].of = request[r].row => ~Locked(c)
    /\ \E c \in Cases :
          /\ case[c].state = "NONE"
          /\ Commit(r, incident, [case EXCEPT ![c] = [state |-> request[r].to,
                                                      of    |-> request[r].row]])
    /\ UNCHANGED feedback

\* mutant: a cancelled case is written with a state that is none
WritesCanceled(r) ==
    /\ request[r].pc = "read" /\ request[r].op \in {"start", "act", "cancel"}
    /\ LET c == request[r].row
           to == IF request[r].op = "cancel" THEN "CANCELED" ELSE request[r].to
       IN  /\ ~Locked(c)
           /\ Commit(r, incident, [case EXCEPT ![c].state = to])
    /\ UNCHANGED feedback

\* start, record_action, cancel
WriteCase(r) ==
    /\ request[r].pc = "read" /\ request[r].op \in {"start", "act", "cancel"}
    /\ LET c == request[r].row
       IN  /\ ~Locked(c)
           /\ Commit(r, incident, [case EXCEPT ![c].state = request[r].to])
    /\ UNCHANGED feedback

\* mutant: the incident is moved although the case was not planned
PlanIncidentOnly(r) ==
    /\ request[r].pc = "read" /\ request[r].op = "plan"
    /\ LET c == request[r].row
           i == case[c].of
       IN  /\ ~Locked(c)
           /\ IF incident[i].state = "INVESTIGATING"
              THEN Commit(r, [incident EXCEPT ![i].state = "ACTION_PLANNED"], case)
              ELSE Commit(r, incident, [case EXCEPT ![c].state = "PLANNED"])
    /\ UNCHANGED feedback

\* plan writes the case, then reads the incident: if that is INVESTIGATING
\* it will be moved too, otherwise all is done.
PlanSaves(r) ==
    /\ request[r].pc = "read" /\ request[r].op = "plan"
    /\ LET c == request[r].row
           planned == [case EXCEPT ![c].state = "PLANNED"]
       IN  /\ ~Locked(c)
           /\ IF incident[case[c].of].state = "INVESTIGATING" /\ CaseIndex(planned)
              THEN /\ request' = [request EXCEPT ![r].pc = "saved"]
                   /\ UNCHANGED <<incident, case, reopened>>
              ELSE Commit(r, incident, planned)
    /\ UNCHANGED feedback

PlanCommits(r) ==
    /\ request[r].pc = "saved" /\ request[r].op = "plan"
    /\ LET c == request[r].row
       IN  Commit(r, [incident EXCEPT ![case[c].of].state = "ACTION_PLANNED"],
                     [case EXCEPT ![c].state = "PLANNED"])
    /\ UNCHANGED feedback

\* mutant: the incident is looked at before the case is locked
CompleteWithoutLock(r) ==
    /\ request[r].pc = "read" /\ request[r].op = "complete"
    /\ "RESOLVED" \in Valid[incident[case[request[r].row].of].state]
    /\ request' = [request EXCEPT ![r].pc = "saved"]
    /\ UNCHANGED <<incident, case, feedback, reopened>>

\* complete writes feedback and case, then reads the incident and goes on
\* only if that can be resolved.
CompleteSaves(r) ==
    /\ request[r].pc = "read" /\ request[r].op = "complete"
    /\ LET c == request[r].row
       IN  /\ ~Locked(c)
           /\ request' = IF "RESOLVED" \in Valid[incident[case[c].of].state]
                         THEN [request EXCEPT ![r].pc = "saved"]
                         ELSE [request EXCEPT ![r] = IdleRequest]
    /\ UNCHANGED <<incident, case, feedback, reopened>>

CompleteCommits(r) ==
    /\ request[r].pc = "saved" /\ request[r].op = "complete"
    /\ LET c == request[r].row
       IN  /\ feedback[c] < MaxFeedback
           /\ case' = [case EXCEPT ![c].state = "COMPLETED"]
           /\ incident' = [incident EXCEPT ![case[c].of].state = "RESOLVED"]
           /\ feedback' = [feedback EXCEPT ![c] = @ + 1]
           /\ reopened' = [reopened EXCEPT ![c] = FALSE]
    /\ request' = [request EXCEPT ![r] = IdleRequest]

\* The request is answered with an error, its client goes away, the database
\* breaks a deadlock, the process ends: rollback.
RollBack(r) ==
    /\ request[r].pc # "idle"
    /\ request' = [request EXCEPT ![r] = IdleRequest]
    /\ UNCHANGED <<incident, case, feedback, reopened>>

Read(r)  == MoveRequested(r) \/ Recovery(r) \/ Fault(r) \/ CaseRequested(r) \/ WorkRequested(r)
Write(r) == \/ MoveIncidents(r) \/ OpenIncident(r) \/ OpenCase(r) \/ WriteCase(r)
            \/ PlanSaves(r) \/ PlanCommits(r) \/ CompleteSaves(r) \/ CompleteCommits(r)

WorkflowNext == \E r \in Requests : Read(r) \/ Write(r) \/ RollBack(r)

WorkflowSpec == WorkflowInit /\ [][WorkflowNext]_workflowVars

-----------------------------------------------------------------------------
(* Properties                                                               *)

\* A case is completed a second time only if its incident has been open in
\* between: of two simultaneous completions the row lock holds one back until
\* it finds the incident resolved.  This is the exact condition under which a case
\* has one feedback record; the documentation says so of every case, and
\* OneFeedbackPerCase below is that claim.
CompletedOnce ==
    [][\A c \in Cases :
          feedback'[c] > feedback[c] /\ feedback[c] > 0 => reopened[c]]_workflowVars

\* An incident is ACTION_PLANNED only if some case of it has been planned.
ActionPlannedHasPlan ==
    \A i \in Incidents : incident[i].state = "ACTION_PLANNED" =>
        \E c \in Cases : /\ case[c].of = i
                         /\ case[c].state \notin {"REVIEW_REQUIRED", "NOT_STARTED"}

-----------------------------------------------------------------------------
(* The inductive invariant behind them                                      *)

\* a request in progress names rows that exist and writes what its operation says
Sound(t) ==
    /\ t.pc = "saved" => t.op \in {"plan", "complete"}
    /\ t.op = "move" => t.to \in ByHand
    /\ t.op = "open" => t.row \in Keys
    /\ t.op = "openCase" => t.row \in Incidents /\ t.to \in {"REVIEW_REQUIRED", "NOT_STARTED"}
    /\ t.op \in CaseOps => /\ t.row \in Cases /\ t.to = After[t.op]
                           /\ case[t.row].state # "NONE"

RequestInv == \A r \in Requests : Sound(request[r])

\* a case has an incident from its first day on
CaseInv ==
    \A c \in Cases : /\ case[c].state = "NONE" <=> case[c].of = NoRow
                     /\ case[c].state = "NONE" => feedback[c] = 0

\* a row is locked by one request
RowLockInv ==
    \A r, s \in Requests :
        /\ request[r].pc = "saved" /\ request[s].pc = "saved"
        /\ request[r].row = request[s].row
        => r = s

\* a case that was completed and whose incident is open, or was open when a
\* completion under way looked at it, has had its incident reopened
ReopenedInv ==
    /\ \A c \in Cases : feedback[c] > 0 /\ IsOpen(incident[case[c].of]) => reopened[c]
    /\ \A r \in Requests :
          /\ request[r].pc = "saved" /\ request[r].op = "complete"
          /\ feedback[request[r].row] > 0
          => reopened[request[r].row]

-----------------------------------------------------------------------------
(* Claims of the documentation                                              *)

\* docs/MAINTENANCE_WORKFLOW.md, Feedback loop: one FeedbackRecord per completed
\* case.  A completion that has validated the case goes on after another has ended
\* and the incident was opened again, and writes a second.
OneFeedbackPerCase == \A c \in Cases : feedback[c] <= 1

\* docs/INCIDENT_MANAGEMENT.md, Incident lifecycle: transitions are explicitly
\* validated: an incident changes state only along Valid.
TransitionsValidated ==
    [][\A i \in Incidents :
          /\ incident[i].state # "NONE"
          /\ incident'[i].state # incident[i].state
          => incident'[i].state \in Valid[incident[i].state]]_incident

\* docs/INCIDENT_MANAGEMENT.md, Recovery: a NORMAL_OPERATION result resolves
\* every currently open incident of the machine; it does not raise.
RecoveryResolvesAll ==
    \A r \in Requests : request[r].pc # "failed"
=============================================================================
