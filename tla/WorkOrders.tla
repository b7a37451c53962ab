------------------------------ MODULE WorkOrders ------------------------------
(***************************************************************************)
(* Drafts of work orders: CMMSService over DemoCMMSAdapter (backend/app/   *)
(* cmms/), called by POST /maintenance/cases/{id}/cmms-draft and by the    *)
(* draft_work_order tool in a chat turn of the assistant (backend/app/     *)
(* agent/).  A request is one transaction of one SQLAlchemy session: its   *)
(* end commits everything it has written, and after a flush that failed    *)
(* the session refuses every further statement.                            *)
(***************************************************************************)
EXTENDS FiniteSets, Integers

CONSTANTS
    DraftCases,      \* maintenance cases
    References,      \* external references, DEMO-WO-...
    Clients,         \* requests in progress at a time
    NoReference

ASSUME WorkOrderAssumption == NoReference \notin References

VARIABLES
    orders,    \* `demo_cmms_work_order`: case and external_reference
    draft,     \* the request of each client
    told       \* the references answered by the endpoint or stored in an ASSISTANT
               \* message

workOrderVars == <<orders, draft, told>>

NoDraft == [pc |-> "idle", via |-> "none", of |-> NoReference, reference |-> NoReference,
            new |-> FALSE]

ReferenceOrNone == References \cup {NoReference}

WorkOrderTypeOK ==
    /\ orders \subseteq [of : DraftCases, reference : References]
    /\ told \subseteq [of : DraftCases, reference : References]
    /\ draft \in [Clients ->
          [pc : {"idle", "begun", "missing", "drafted", "failed", "crashed"},
           via : {"none", "endpoint", "chat"},
           of : DraftCases \cup {NoReference}, reference : ReferenceOrNone, new : BOOLEAN]]

WorkOrderInit ==
    /\ orders = {}
    /\ draft = [c \in Clients |-> NoDraft]
    /\ told = {}

-----------------------------------------------------------------------------
(* The requests. *)

Goes(c, t) ==
    /\ draft' = [draft EXCEPT ![c] = t]
    /\ UNCHANGED <<orders, told>>

\* The endpoint, or a chat turn about the case: that one adds the session and
\* the USER message, and its other tools only read.
DraftRequested(c) ==
    /\ draft[c].pc = "idle"
    /\ \E via \in {"endpoint", "chat"}, k \in DraftCases :
          Goes(c, [NoDraft EXCEPT !.pc = "begun", !.via = via, !.of = k])

\* a turn with another intent than WORK_ORDER_DRAFT (PHYSICAL_CONTROL is refused
\* before any tool runs), or about no case there is: its message has no draft
TurnWithoutDraft(c) ==
    /\ draft[c].pc = "begun" /\ draft[c].via = "chat"
    /\ Goes(c, NoDraft)

Committed(k) == {o \in orders : o.of = k}

\* create_work_order_draft: get_for_case
LooksUp(c) ==
    /\ draft[c].pc = "begun"
    /\ LET found == Committed(draft[c].of)
       IN  IF found = {}
           THEN Goes(c, [draft[c] EXCEPT !.pc = "missing"])
           ELSE \E o \in found :
                   Goes(c, [draft[c] EXCEPT !.pc = "drafted", !.reference = o.reference])

\* mutant: no uq_demo_cmms_work_order_case
AnyInsert(k) == TRUE

\* uq_demo_cmms_work_order_case
InsertAllowed(k) == Committed(k) = {}

\* a row of the same case, inserted by a transaction that has not ended
InsertUnderWay(k) ==
    \E o \in Clients : draft[o].new /\ draft[o].of = k

FreshReferences ==
    References \ ({o.reference : o \in orders} \cup {draft[o].reference : o \in Clients})

\* ... and the insert, which waits for one of the same case.  If the index refuses
\* it, create_draft turns the error into CMMSUnavailableError and
\* draft_work_order that into a result ERROR.
Inserts(c) ==
    /\ draft[c].pc = "missing"
    /\ ~InsertUnderWay(draft[c].of)
    /\ IF InsertAllowed(draft[c].of)
       THEN /\ FreshReferences # {}
            /\ Goes(c, [draft[c] EXCEPT !.pc = "drafted", !.new = TRUE,
                                        !.reference = CHOOSE ref \in FreshReferences : TRUE])
       ELSE Goes(c, [draft[c] EXCEPT !.pc = "failed"])

\* mutant: the insert is flushed, and never committed
Uncommitted(c) == {}

\* the row a request has inserted
Inserted(c) ==
    IF draft[c].new THEN {[of |-> draft[c].of, reference |-> draft[c].reference]} ELSE {}

Tells(c) ==
    /\ orders' = orders \cup Inserted(c)
    /\ told' = told \cup {[of |-> draft[c].of, reference |-> draft[c].reference]}
    /\ draft' = [draft EXCEPT ![c] = NoDraft]

\* The endpoint: audit record, commit, and the answer after it.
EndpointAnswers(c) ==
    /\ draft[c].pc = "drafted" /\ draft[c].via = "endpoint"
    /\ Tells(c)

\* The turn: _record_tool_call; the answer, composed by the provider unless that
\* fails or its circuit is open; _persist_assistant_message, audit record, commit.
TurnAnswers(c) ==
    /\ draft[c].pc = "drafted" /\ draft[c].via = "chat"
    /\ Tells(c)

\* A turn whose tool failed goes on: _record_tool_call adds the result ERROR and
\* flushes, in a session that wants to be rolled back first.
TurnCrashes(c) ==
    /\ draft[c].pc = "failed" /\ draft[c].via = "chat"
    /\ Goes(c, [draft[c] EXCEPT !.pc = "crashed"])

\* 503, 500, or no answer at all: rollback
DraftRolledBack(c) ==
    /\ draft[c].pc # "idle"
    /\ Goes(c, NoDraft)

DraftStep(c) ==
    \/ DraftRequested(c) \/ TurnWithoutDraft(c) \/ LooksUp(c) \/ Inserts(c) \/ EndpointAnswers(c)
    \/ TurnAnswers(c) \/ TurnCrashes(c) \/ DraftRolledBack(c)

WorkOrderNext == \E c \in Clients : DraftStep(c)

WorkOrderSpec == WorkOrderInit /\ [][WorkOrderNext]_workOrderVars

-----------------------------------------------------------------------------
(* Properties. *)

\* docs/CMMS_INTEGRATION.md, Idempotency: whoever asks, and in whatever order
\* requests look up, insert and fail, every reference that was answered or stands
\* in a message of the assistant is that of the one work order of its case.
ReferencesAgree ==
    /\ told \subseteq orders
    /\ \A o, p \in orders : o.of = p.of => o = p
=============================================================================
