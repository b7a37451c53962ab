------------------------------ MODULE Knowledge ------------------------------
(***************************************************************************)
(* The life of the documents with one document_key: KnowledgeService       *)
(* (backend/app/knowledge/services/knowledge_service.py), as the API and   *)
(* the seed script of the corpus call it.  A tenant's documents come from  *)
(* the API one call at a time; global ones have no tenant, come from the   *)
(* seed, which takes them through their whole life in one transaction, and *)
(* can be retired over the API.  Transactions are READ COMMITTED, and an   *)
(* UPDATE writes its row by id whatever has become of it.                  *)
(***************************************************************************)
EXTENDS FiniteSets, FiniteSetsExt, Integers

CONSTANTS
    Documents,    \* rows of `knowledge_document`
    DocumentVersions,   \* versions of the document
    Editors,      \* requests and seed runs in progress at a time
    NoRow

ASSUME KnowledgeAssumption ==
    /\ IsFiniteSet(Documents) /\ Documents # {}
    /\ NoRow \notin Documents \cup DocumentVersions

VARIABLES
    global,       \* whether tenant_id is NULL
    document,     \* the committed rows
    edit,         \* the transaction of each editor
    overtaken     \* history: approvals committed although another one had been
                  \* committed since they began

knowledgeVars == <<global, document, edit, overtaken>>

DocumentStatus == {"NONE", "DRAFT", "REVIEW", "APPROVED", "RETIRED"}

\* _VALID_TRANSITIONS
ValidStatus == [NONE     |-> {},
                DRAFT    |-> {"REVIEW"},
                REVIEW   |-> {"APPROVED", "DRAFT"},
                APPROVED |-> {"RETIRED"},
                RETIRED  |-> {}]

NoEdit == [pc |-> "idle", op |-> "none", row |-> NoRow, to |-> "NONE", prior |-> NoRow,
           version |-> NoRow, stale |-> FALSE]

NoDocument == [status |-> "NONE", version |-> NoRow, approved_at |-> 0]

Approved == {d \in Documents : document[d].status = "APPROVED"}

OfVersion(v) == {d \in Documents : document[d].version = v}

KnowledgeTypeOK ==
    /\ global \in BOOLEAN
    /\ document \in [Documents -> [status : DocumentStatus, version : DocumentVersions \cup {NoRow},
                                   approved_at : Nat]]
    /\ edit \in [Editors -> [pc : {"idle", "read", "found", "saved", "conflict"},
                             op : {"none", "ingest", "seed", "move", "approve"},
                             row : Documents \cup {NoRow}, to : DocumentStatus,
                             prior : Documents \cup {NoRow},
                             version : DocumentVersions \cup {NoRow}, stale : BOOLEAN]]
    /\ overtaken \in Nat

KnowledgeInit ==
    /\ global \in BOOLEAN
    /\ document = [d \in Documents |-> NoDocument]
    /\ edit = [e \in Editors |-> NoEdit]
    /\ overtaken = 0

-----------------------------------------------------------------------------
(* The reads. *)

Edits(e, t) ==
    /\ edit' = [edit EXCEPT ![e] = t]
    /\ UNCHANGED <<global, document, overtaken>>

\* get_by_key_and_version finds nothing.  (One row is returned, or refused if its
\* checksum is another; two raise MultipleResultsFound: nothing is written.)
NotIngested(v) == OfVersion(v) = {}

\* ingest: over the API for a tenant, by the seed for everyone
IngestReads(e) ==
    /\ edit[e].pc = "idle"
    /\ \E v \in DocumentVersions :
          /\ NotIngested(v)
          /\ Edits(e, [NoEdit EXCEPT !.pc = "read", !.op = IF global THEN "seed" ELSE "ingest",
                                     !.version = v])

\* submit_for_review, retire
MoveReads(e) ==
    /\ edit[e].pc = "idle"
    /\ \E d \in Documents : \E to \in {"REVIEW", "RETIRED"} \cap ValidStatus[document[d].status] :
          Edits(e, [NoEdit EXCEPT !.pc = "read", !.op = "move", !.row = d, !.to = to])

\* approve
ApproveReads(e) ==
    /\ edit[e].pc = "idle"
    /\ \E d \in Documents :
          /\ "APPROVED" \in ValidStatus[document[d].status]
          /\ Edits(e, [NoEdit EXCEPT !.pc = "read", !.op = "approve", !.row = d])

\* mutant: looked for when the document is APPROVED already, the newest
\* APPROVED version is the document itself
PriorAfterMarking == {NoRow}

\* mutant: the prior version is kept by its version, not by its row
PriorByVersion ==
    IF Approved = {} THEN {NoRow} ELSE {document[d].version : d \in Approved}

\* get_approved: the newest APPROVED version
PriorVersion ==
    IF Approved = {} THEN {NoRow}
    ELSE {d \in Approved : \A o \in Approved : document[d].approved_at >= document[o].approved_at}

\* approve, of a document that was there or of the one the seed has just added
FindsPrior(e) ==
    /\ edit[e].pc = "read" /\ edit[e].op \in {"approve", "seed"}
    /\ \E p \in PriorVersion : Edits(e, [edit[e] EXCEPT !.pc = "found", !.prior = p])

-----------------------------------------------------------------------------
(* The writes. *)

\* d has been written by a transaction that has not ended
DocumentLocked(d) == \E e \in Editors : edit[e].pc = "saved" /\ edit[e].row = d

\* Both unique indexes let NULL tenants through: uq_knowledge_document_key_version
KeyVersionFree(v) == global \/ OfVersion(v) = {}

\* ... and uq_knowledge_document_active_approved
ApprovalFree(d) == global \/ Approved \ {d} = {}

Conflicts(e) == Edits(e, [edit[e] EXCEPT !.pc = "conflict"])

Unused == {d \in Documents : document[d].status = "NONE"}

\* bound: no more rows than Documents
NewDocument == CHOOSE d \in Unused : TRUE

\* the time of an approval, later than all before it
ApprovalTime == 1 + Max({document[d].approved_at : d \in Documents})

IngestCommits(e) ==
    /\ edit[e].pc = "read" /\ edit[e].op = "ingest"
    /\ IF KeyVersionFree(edit[e].version)
       THEN /\ Unused # {}
            /\ document' = [document EXCEPT ![NewDocument] =
                  [status |-> "DRAFT", version |-> edit[e].version, approved_at |-> 0]]
            /\ edit' = [edit EXCEPT ![e] = NoEdit]
            /\ UNCHANGED <<global, overtaken>>
       ELSE Conflicts(e)

MoveCommits(e) ==
    /\ edit[e].pc = "read" /\ edit[e].op = "move"
    /\ ~DocumentLocked(edit[e].row)
    /\ document' = [document EXCEPT ![edit[e].row].status = edit[e].to]
    /\ edit' = [edit EXCEPT ![e] = NoEdit]
    /\ UNCHANGED <<global, overtaken>>

\* approve writes the document first and the prior version after it.  The index
\* makes a tenant's write wait for one under way.
ApproveSaves(e) ==
    /\ edit[e].pc = "found" /\ edit[e].op = "approve"
    /\ \A o \in Editors : edit[o].pc # "saved"
    /\ IF ApprovalFree(edit[e].row)
       THEN Edits(e, [edit[e] EXCEPT !.pc = "saved"])
       ELSE Conflicts(e)

\* The commit of an approval: what the others have read may no longer be so.
PublishDocument(e, d, row) ==
    /\ document' = [o \in Documents |->
         CASE o = d -> row
           [] o # d /\ o = edit[e].prior -> [document[o] EXCEPT !.status = "RETIRED"]
           [] OTHER -> document[o]]
    /\ edit' = [o \in Editors |->
         IF o = e THEN NoEdit
         ELSE [edit[o] EXCEPT !.stale = edit[o].pc # "idle"]]
    /\ overtaken' = IF edit[e].stale THEN overtaken + 1 ELSE overtaken
    /\ UNCHANGED global

ApproveCommits(e) ==
    /\ edit[e].pc = "saved"
    /\ LET d == edit[e].row
       IN  PublishDocument(e, d, [document[d] EXCEPT !.status = "APPROVED", !.approved_at = ApprovalTime])

\* the seed's document has been DRAFT and REVIEW in the same transaction
SeedCommits(e) ==
    /\ edit[e].pc = "found" /\ edit[e].op = "seed"
    /\ Unused # {}
    /\ PublishDocument(e, NewDocument, [status |-> "APPROVED", version |-> edit[e].version,
                           approved_at |-> ApprovalTime])

\* an error answered, a client gone, a seed run stopped
EditEnds(e) ==
    /\ edit[e].pc # "idle"
    /\ Edits(e, NoEdit)

Edit(e) ==
    \/ IngestReads(e) \/ MoveReads(e) \/ ApproveReads(e) \/ FindsPrior(e)
    \/ IngestCommits(e) \/ MoveCommits(e) \/ ApproveSaves(e) \/ ApproveCommits(e)
    \/ SeedCommits(e) \/ EditEnds(e)

KnowledgeNext == \E e \in Editors : Edit(e)

KnowledgeSpec == KnowledgeInit /\ [][KnowledgeNext]_knowledgeVars

-----------------------------------------------------------------------------
(* Properties. *)

\* models.py:2329: at most one version of a document is APPROVED at a time.  The
\* index keeps it so for a tenant; for the global documents, which it does not
\* cover, every version too many is due to approvals that overlapped.
SupersededUnlessOvertaken ==
    Cardinality(Approved) <= IF global THEN 1 + overtaken ELSE 1

\* seed_knowledge_corpus.py: running the seed again "never creates duplicates".
\* A version exists once, but for global ones of seed runs that overlapped (after
\* which get_by_key_and_version fails for good).
IngestedOnce ==
    \A v \in DocumentVersions : Cardinality(OfVersion(v)) <= IF global THEN 1 + overtaken ELSE 1

\* One approved version and one row of each, unless approvals overtook each other.
VersionsUnlessOvertaken == SupersededUnlessOvertaken /\ IngestedOnce

-----------------------------------------------------------------------------
(* A claim of the documentation. *)

\* docs/RAG_KNOWLEDGE_SYSTEM.md:28: approving a new version transitions the
\* previously approved one to RETIRED in the same operation; it does not fail.
ApprovalSupersedes ==
    \A e \in Editors : edit[e].pc = "conflict" => edit[e].op # "approve"
=============================================================================
