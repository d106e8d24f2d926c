------------------------------ MODULE Workflow ------------------------------
(***************************************************************************)
(* The licence application workflow: the database rows the workflow service*)
(* reads and writes (applications, application_reviews, audit_logs and the *)
(* number of stored document versions), the transactions of                *)
(* services/workflow.service.ts, and the HTTP handlers of                  *)
(* applications.repository.ts and documents.repository.ts that touch the   *)
(* same rows outside those transactions.                                   *)
(*                                                                         *)
(* A service transaction starts with SELECT ... FOR UPDATE on the          *)
(* application row and every later read and write belongs to that          *)
(* application, so one transaction is one atomic step; a transaction that  *)
(* throws rolls back and is a stutter.  The PATCH, submit and upload       *)
(* handlers read the row without a lock and write later: each is two steps *)
(* with its in-flight request kept in "handlers".                          *)
(***************************************************************************)
EXTENDS Naturals, Sequences, FiniteSetsExt

CONSTANTS
  Applications,       \* application identifiers
  Users,              \* user accounts
  RolesOf,            \* RolesOf[u]: the role names in user_roles for user u
  FieldKeys,          \* editable columns of an application
  MandatoryKeys,      \* the columns that are NOT NULL (institution_name, ..._type)
  FieldValues,        \* values of a column
  NoValue,            \* null or '' in a column
  CoreDocumentTypes,  \* CORE_DOCUMENT_TYPES
  OtherDocumentTypes, \* SUPPORTING_DOCUMENT
  Questions,          \* open questions a reviewer may ask
  InfoRequests,       \* the lists of request items explored by requestInformation
  Handlers,           \* slots for requests in flight between two database steps
  NoUser,             \* null in reviewed_by_id and decisioned_by_id
  NoApplication,      \* a row that does not exist yet
  NoRequest,          \* a handler slot that is free
  MaxLockVersion,     \* bound on lock_version
  MaxCycles,          \* bound on the review cycles of one application
  MaxVersions         \* bound on the versions of one document

DocumentTypes == CoreDocumentTypes \cup OtherDocumentTypes

(* A request item names a column, a document type or a question.           *)
RequestItemInputs ==
  [type : {"FIELD_UPDATE"}, target : FieldKeys, required : BOOLEAN]
    \cup
  [type : {"DOCUMENT_REPLACEMENT"}, target : CoreDocumentTypes, required : BOOLEAN]
    \cup
  [type : {"ADDITIONAL_DOCUMENT"}, target : OtherDocumentTypes, required : BOOLEAN]
    \cup
  [type : {"OPEN_QUESTION"}, target : Questions, required : BOOLEAN]

RoleNames == {"APPLICANT", "REVIEWER", "APPROVER", "ADMIN", "SUPER_ADMIN"}

ASSUME RolesAssumption == RolesOf \in [Users -> SUBSET RoleNames]
ASSUME FieldsAssumption ==
  /\ MandatoryKeys \subseteq FieldKeys
  /\ NoValue \in FieldValues
ASSUME RequestsAssumption == InfoRequests \subseteq SUBSET RequestItemInputs
ASSUME BoundsAssumption ==
  MaxLockVersion \in Nat /\ MaxCycles \in Nat /\ MaxVersions \in Nat

VARIABLES
  applications,  \* applications[a]: the row of a, or NoApplication
  reviews,       \* reviews[a]: the application_reviews rows of a, oldest first
  auditLogs,     \* auditLogs[a]: the audit_logs rows of a, oldest first
  documents,     \* documents[a][t]: how many versions of document t are stored
  handlers       \* handlers[h]: the request in flight in slot h, or NoRequest

vars == <<applications, reviews, auditLogs, documents, handlers>>

-----------------------------------------------------------------------------
(* Values                                                                  *)

FinalStates == {"APPROVED", "REJECTED"}

EditableStates == {"DRAFT", "INFO_REQUESTED"}

ApplicationStates ==
  {"DRAFT", "SUBMITTED", "UNDER_REVIEW", "INFO_REQUESTED", "RESUBMITTED",
   "READY_FOR_DECISION"} \cup FinalStates

LockVersions == 0 .. MaxLockVersion

Contents ==
  {f \in [FieldKeys -> FieldValues] : \A k \in MandatoryKeys : f[k] # NoValue}

ApplicationRows ==
  [applicant_id : Users,
   current_state : ApplicationStates,
   fields : Contents,
   lock_version : LockVersions,
   reviewed_by_id : Users \cup {NoUser},
   decisioned_by_id : Users \cup {NoUser}]

(* A request item as stored, with the value captured for a FIELD_UPDATE.   *)
RequestItems ==
  [type : {"FIELD_UPDATE", "DOCUMENT_REPLACEMENT", "ADDITIONAL_DOCUMENT",
           "OPEN_QUESTION"},
   target : FieldKeys \cup DocumentTypes \cup Questions,
   required : BOOLEAN,
   captured_value : FieldValues]

VersionCounts == [DocumentTypes -> 0 .. MaxVersions]

(* completed_at is the position of the completing audit entry, 0 for null, *)
(* and behind tells that the clock read for it had been set back, or stood *)
(* still, since the times recorded before on the application: it may then  *)
(* be earlier than any of them.  documents_then stands for the comparison  *)
(* uploaded_at > completed_at: the versions that existed at the completion.*)
ReviewRows ==
  [reviewer_id : Users,
   cycle_number : Nat,
   completed_at : Nat,
   behind : BOOLEAN,
   outcome : {"NONE", "INFO_REQUESTED", "READY_FOR_DECISION"},
   request_items : SUBSET RequestItems,
   documents_then : VersionCounts,
   responded : BOOLEAN]

AuditRows ==
  [acting_user_id : Users,
   action_type : {"APPLICATION_SUBMITTED", "REVIEW_STARTED",
                  "MORE_INFO_REQUESTED", "APPLICATION_RESUBMITTED",
                  "APPLICATION_MARKED_AS_READY_FOR_DECISION",
                  "APPLICATION_APPROVED", "APPLICATION_REJECTED"},
   before_state : ApplicationStates,
   after_state : ApplicationStates]

(* The body of a PATCH: the mandatory columns and any of the others.       *)
PatchBodies ==
  UNION {{b \in [ks -> FieldValues] : \A k \in MandatoryKeys : b[k] # NoValue} :
           ks \in {s \in SUBSET FieldKeys : MandatoryKeys \subseteq s}}

PatchRequests ==
  [op : {"patch"}, app : Applications, fields : Contents,
   lock_version : LockVersions, body : PatchBodies]

SubmitRequests ==
  [op : {"submit"}, app : Applications, user : Users, lock_version : LockVersions]

UploadRequests ==
  [op : {"upload"}, app : Applications, document_type : DocumentTypes]

Requests == PatchRequests \cup SubmitRequests \cup UploadRequests

ASSUME NullAssumption ==
  /\ NoUser \notin Users
  /\ NoApplication \notin ApplicationRows
  /\ NoRequest \notin Requests

TypeOK ==
  /\ applications \in [Applications -> ApplicationRows \cup {NoApplication}]
  /\ reviews \in [Applications -> Seq(ReviewRows)]
  /\ auditLogs \in [Applications -> Seq(AuditRows)]
  /\ documents \in [Applications -> VersionCounts]
  /\ handlers \in [Handlers -> Requests \cup {NoRequest}]

Init ==
  /\ applications = [a \in Applications |-> NoApplication]
  /\ reviews = [a \in Applications |-> <<>>]
  /\ auditLogs = [a \in Applications |-> <<>>]
  /\ documents = [a \in Applications |-> [t \in DocumentTypes |-> 0]]
  /\ handlers = [h \in Handlers |-> NoRequest]

-----------------------------------------------------------------------------
(* Checks and helpers of the service                                       *)

Exists(a) == applications[a] # NoApplication

State(a) == applications[a].current_state

checkUserRole(u, role) == role \in RolesOf[u]

checkApplicantAction(a, u) ==
  checkUserRole(u, "APPLICANT") /\ applications[a].applicant_id = u

checkApplicationState(a, allowed) == State(a) \in allowed

(* The second conjunct keeps the counter within its bound.                 *)
checkLockVersion(a, v) ==
  /\ applications[a].lock_version = v
  /\ v < MaxLockVersion

(* application.update: the columns written plus the version increment.     *)
Advanced(a, to) ==
  [applications[a] EXCEPT !.current_state = to, !.lock_version = @ + 1]

writeAuditLog(a, u, action, to) ==
  auditLogs' =
    [auditLogs EXCEPT ![a] =
       Append(@, [acting_user_id |-> u, action_type |-> action,
                  before_state |-> State(a), after_state |-> to])]

CycleNumbers(a) == {reviews[a][i].cycle_number : i \in DOMAIN reviews[a]}

(* Mutant: forgets the + 1.                                                *)
getNextCycleNumber_Repeated(a) ==
  IF CycleNumbers(a) = {} THEN 1 ELSE Max(CycleNumbers(a))

getNextCycleNumber(a) ==
  IF CycleNumbers(a) = {} THEN 1 ELSE Max(CycleNumbers(a)) + 1

OpenReviews(a) == {i \in DOMAIN reviews[a] : reviews[a][i].completed_at = 0}

(* Mutants: without the filter on the reviewer, without completed_at null. *)
getOpenReview_AnyReviewer(a, u, i) == i \in OpenReviews(a)

getOpenReview_Completed(a, u, i) ==
  i \in DOMAIN reviews[a] /\ reviews[a][i].reviewer_id = u

(* The index of the caller's open review with the highest cycle number.    *)
getOpenReview(a, u, i) ==
  LET mine == {j \in OpenReviews(a) : reviews[a][j].reviewer_id = u} IN
    /\ i \in mine
    /\ \A j \in mine : reviews[a][j].cycle_number <= reviews[a][i].cycle_number

(* Mutant: the first information request, not the last.                    *)
getLatestInfoRequestReview_First(a, i) ==
  LET asked == {j \in DOMAIN reviews[a] :
                  /\ reviews[a][j].outcome = "INFO_REQUESTED"
                  /\ reviews[a][j].completed_at # 0} IN
    /\ i \in asked
    /\ \A j \in asked : reviews[a][i].completed_at <= reviews[a][j].completed_at

(* The clock was set back between the completions of reviews i and j.      *)
SetBackBetween(a, i, j) == \E k \in (i + 1)..j : reviews[a][k].behind

(* The index of the information request with the latest completed_at.      *)
getLatestInfoRequestReview(a, i) ==
  LET asked == {j \in DOMAIN reviews[a] :
                  /\ reviews[a][j].outcome = "INFO_REQUESTED"
                  /\ reviews[a][j].completed_at # 0} IN
    /\ i \in asked
    /\ \A j \in asked :
         \/ reviews[a][j].completed_at <= reviews[a][i].completed_at
         \/ SetBackBetween(a, i, j)

buildRequestItems(a, items) ==
  {[type |-> item.type, target |-> item.target, required |-> item.required,
    captured_value |-> IF item.type = "FIELD_UPDATE"
                       THEN applications[a].fields[item.target]
                       ELSE NoValue] : item \in items}

(* Mutant: any stored version satisfies a document item.                   *)
Satisfied_AnyVersion(a, review, item, answered) ==
  \/ item.type = "OPEN_QUESTION" /\ item.target \in answered
  \/ /\ item.type = "FIELD_UPDATE"
     /\ applications[a].fields[item.target] # item.captured_value
  \/ /\ item.type \in {"DOCUMENT_REPLACEMENT", "ADDITIONAL_DOCUMENT"}
     /\ documents[a][item.target] > 0

(* What validateRequiredRequestItems demands of one required item.         *)
Satisfied(a, review, item, answered) ==
  \/ item.type = "OPEN_QUESTION" /\ item.target \in answered
  \/ /\ item.type = "FIELD_UPDATE"
     /\ applications[a].fields[item.target] # item.captured_value
  \/ /\ item.type \in {"DOCUMENT_REPLACEMENT", "ADDITIONAL_DOCUMENT"}
     /\ documents[a][item.target] > IF review.behind THEN 0
                                     ELSE review.documents_then[item.target]

validateRequiredRequestItems(a, review, answered) ==
  \A item \in review.request_items :
    item.required => Satisfied(a, review, item, answered)

(* getSubmissionReadinessError returns null: nothing is missing.           *)
ReadyToSubmit(a) ==
  /\ \A k \in FieldKeys : applications[a].fields[k] # NoValue
  /\ \A t \in CoreDocumentTypes : documents[a][t] > 0

-----------------------------------------------------------------------------
(* The transactions of WorkflowService, each under the row lock            *)

startReview(a, u, v) ==
  /\ Exists(a)
  /\ checkUserRole(u, "REVIEWER")
  /\ checkApplicationState(a, {"SUBMITTED", "RESUBMITTED"})
  /\ checkLockVersion(a, v)
  /\ getNextCycleNumber(a) <= MaxCycles
  /\ reviews' =
       [reviews EXCEPT ![a] =
          Append(@, [reviewer_id |-> u,
                     cycle_number |-> getNextCycleNumber(a),
                     completed_at |-> 0,
                     behind |-> FALSE,
                     outcome |-> "NONE",
                     request_items |-> {},
                     documents_then |-> [t \in DocumentTypes |-> 0],
                     responded |-> FALSE])]
  /\ applications' = [applications EXCEPT ![a] = Advanced(a, "UNDER_REVIEW")]
  /\ writeAuditLog(a, u, "REVIEW_STARTED", "UNDER_REVIEW")
  /\ UNCHANGED <<documents, handlers>>

(* Both ways to complete a review cycle record the caller as the reviewer. *)
CompleteReview(a, u, v, i, to, action, items) ==
  /\ Exists(a)
  /\ checkUserRole(u, "REVIEWER")
  /\ checkApplicationState(a, {"UNDER_REVIEW"})
  /\ checkLockVersion(a, v)
  /\ getOpenReview(a, u, i)
  /\ \E behind \in BOOLEAN :
       reviews' =
         [reviews EXCEPT ![a][i] =
            [@ EXCEPT !.completed_at = Len(auditLogs[a]) + 1,
                      !.behind = behind,
                      !.outcome = to,
                      !.request_items = items,
                      !.documents_then = documents[a],
                      !.responded = FALSE]]
  /\ applications' =
       [applications EXCEPT ![a] =
          [Advanced(a, to) EXCEPT !.reviewed_by_id = u]]
  /\ writeAuditLog(a, u, action, to)
  /\ UNCHANGED <<documents, handlers>>

requestInformation(a, u, v, i, items) ==
  /\ items # {}
  /\ CompleteReview(a, u, v, i, "INFO_REQUESTED", "MORE_INFO_REQUESTED",
                    buildRequestItems(a, items))

markReadyForDecision(a, u, v, i) ==
  CompleteReview(a, u, v, i, "READY_FOR_DECISION",
                 "APPLICATION_MARKED_AS_READY_FOR_DECISION", {})

resubmitApplication(a, u, v, i, answered) ==
  /\ Exists(a)
  /\ checkApplicantAction(a, u)
  /\ checkApplicationState(a, {"INFO_REQUESTED"})
  /\ checkLockVersion(a, v)
  /\ getLatestInfoRequestReview(a, i)
  /\ validateRequiredRequestItems(a, reviews[a][i], answered)
  /\ reviews' = [reviews EXCEPT ![a][i] = [@ EXCEPT !.responded = TRUE]]
  /\ applications' = [applications EXCEPT ![a] = Advanced(a, "RESUBMITTED")]
  /\ writeAuditLog(a, u, "APPLICATION_RESUBMITTED", "RESUBMITTED")
  /\ UNCHANGED <<documents, handlers>>

(* Mutant: without the check that the caller is not the recorded reviewer. *)
finalizeDecision_AnyApprover(a, u, v, to, action) ==
  /\ Exists(a)
  /\ checkUserRole(u, "APPROVER")
  /\ checkApplicationState(a, {"READY_FOR_DECISION"})
  /\ checkLockVersion(a, v)
  /\ applications' =
       [applications EXCEPT ![a] =
          [Advanced(a, to) EXCEPT !.decisioned_by_id = u]]
  /\ writeAuditLog(a, u, action, to)
  /\ UNCHANGED <<reviews, documents, handlers>>

finalizeDecision(a, u, v, to, action) ==
  /\ Exists(a)
  /\ checkUserRole(u, "APPROVER")
  /\ checkApplicationState(a, {"READY_FOR_DECISION"})
  /\ checkLockVersion(a, v)
  /\ applications[a].reviewed_by_id # NoUser
  /\ applications[a].reviewed_by_id # u
  /\ applications' =
       [applications EXCEPT ![a] =
          [Advanced(a, to) EXCEPT !.decisioned_by_id = u]]
  /\ writeAuditLog(a, u, action, to)
  /\ UNCHANGED <<reviews, documents, handlers>>

approve(a, u, v) ==
  finalizeDecision(a, u, v, "APPROVED", "APPLICATION_APPROVED")

reject(a, u, v) ==
  finalizeDecision(a, u, v, "REJECTED", "APPLICATION_REJECTED")

-----------------------------------------------------------------------------
(* Handlers of the applicant                                               *)

createApplication(a, u, fields) ==
  /\ ~Exists(a)
  /\ checkUserRole(u, "APPLICANT")
  /\ applications' =
       [applications EXCEPT ![a] =
          [applicant_id |-> u,
           current_state |-> "DRAFT",
           fields |-> fields,
           lock_version |-> 0,
           reviewed_by_id |-> NoUser,
           decisioned_by_id |-> NoUser]]
  /\ UNCHANGED <<reviews, auditLogs, documents, handlers>>

(* A request enters slot h.                                                *)
Begin(h, request) ==
  /\ handlers[h] = NoRequest
  /\ handlers' = [handlers EXCEPT ![h] = request]
  /\ UNCHANGED <<applications, reviews, auditLogs, documents>>

Finish(h) == handlers' = [handlers EXCEPT ![h] = NoRequest]

(* PATCH /applications/:id reads the row without a lock and checks it.     *)
beginUpdateDraft(h, a, u, v, body) ==
  /\ Exists(a)
  /\ checkApplicantAction(a, u)
  /\ State(a) \in EditableStates
  /\ applications[a].lock_version = v
  /\ Begin(h, [op |-> "patch", app |-> a, fields |-> applications[a].fields,
               lock_version |-> v, body |-> body])

(* Mutants: the body replaces all columns; the update also writes a state. *)
PatchedRow_BodyOnly(row, request) ==
  [row EXCEPT !.fields = request.body, !.lock_version = request.lock_version + 1]

PatchedRow_BackToDraft(row, request) ==
  [row EXCEPT !.current_state = "DRAFT", !.lock_version = request.lock_version + 1]

(* application.update(...): UPDATE ... WHERE id, with the columns of the   *)
(* body that differ from the instance read before, and that instance's     *)
(* lock_version + 1.  Nothing is checked again.                            *)
PatchedRow(row, request) ==
  LET changed == {k \in DOMAIN request.body :
                    request.body[k] # request.fields[k]} IN
    [row EXCEPT !.fields = [k \in FieldKeys |->
                              IF k \in changed THEN request.body[k]
                                               ELSE row.fields[k]],
                !.lock_version = request.lock_version + 1]

finishUpdateDraft(h) ==
  /\ handlers[h] \in PatchRequests
  /\ Exists(handlers[h].app)
  /\ handlers[h].lock_version < MaxLockVersion
  /\ applications' =
       [applications EXCEPT ![handlers[h].app] = PatchedRow(@, handlers[h])]
  /\ Finish(h)
  /\ UNCHANGED <<reviews, auditLogs, documents>>

(* POST /applications/:id/submit first evaluates readiness on its own      *)
(* reads, then runs the service transaction with the version the client    *)
(* sent, which may be any version.                                         *)
beginSubmit(h, a, u, v) ==
  /\ Exists(a)
  /\ checkApplicantAction(a, u)
  /\ ReadyToSubmit(a)
  /\ Begin(h, [op |-> "submit", app |-> a, user |-> u, lock_version |-> v])

submitApplication(a, u, v) ==
  /\ Exists(a)
  /\ checkApplicantAction(a, u)
  /\ checkApplicationState(a, {"DRAFT"})
  /\ checkLockVersion(a, v)
  /\ \A k \in MandatoryKeys : applications[a].fields[k] # NoValue
  /\ applications' = [applications EXCEPT ![a] = Advanced(a, "SUBMITTED")]
  /\ writeAuditLog(a, u, "APPLICATION_SUBMITTED", "SUBMITTED")
  /\ UNCHANGED <<reviews, documents>>

finishSubmit(h) ==
  /\ handlers[h] \in SubmitRequests
  /\ submitApplication(handlers[h].app, handlers[h].user,
                       handlers[h].lock_version)
  /\ Finish(h)

(* POST /applications/:id/documents checks the state on an unlocked read;  *)
(* the transaction that stores the version never looks at it again.        *)
beginUpload(h, a, u, t) ==
  /\ Exists(a)
  /\ checkApplicantAction(a, u)
  /\ State(a) \in EditableStates
  /\ Begin(h, [op |-> "upload", app |-> a, document_type |-> t])

finishUpload(h) ==
  /\ handlers[h] \in UploadRequests
  /\ documents[handlers[h].app][handlers[h].document_type] < MaxVersions
  /\ documents' =
       [documents EXCEPT ![handlers[h].app][handlers[h].document_type] = @ + 1]
  /\ Finish(h)
  /\ UNCHANGED <<applications, reviews, auditLogs>>

(* The request ends without an effect: the service refuses it, the         *)
(* statement fails and rolls back, or the process stops.                   *)
abandon(h) ==
  /\ handlers[h] # NoRequest
  /\ Finish(h)
  /\ UNCHANGED <<applications, reviews, auditLogs, documents>>

-----------------------------------------------------------------------------

Internal(a, u, v) ==
  \/ startReview(a, u, v)
  \/ \E i \in DOMAIN reviews[a] :
       \/ \E items \in InfoRequests : requestInformation(a, u, v, i, items)
       \/ markReadyForDecision(a, u, v, i)
  \/ approve(a, u, v)
  \/ reject(a, u, v)

Applicant(a, u, v) ==
  \/ \E i \in DOMAIN reviews[a], answered \in SUBSET Questions :
       resubmitApplication(a, u, v, i, answered)
  \/ \E h \in Handlers :
       \/ \E body \in PatchBodies : beginUpdateDraft(h, a, u, v, body)
       \/ beginSubmit(h, a, u, v)

Next ==
  \/ \E a \in Applications, u \in Users, v \in LockVersions :
       Internal(a, u, v) \/ Applicant(a, u, v)
  \/ \E a \in Applications, u \in Users, fields \in Contents :
       createApplication(a, u, fields)
  \/ \E h \in Handlers, a \in Applications, u \in Users, t \in DocumentTypes :
       beginUpload(h, a, u, t)
  \/ \E h \in Handlers :
       finishUpdateDraft(h) \/ finishSubmit(h) \/ finishUpload(h) \/ abandon(h)

Spec == Init /\ [][Next]_vars

-----------------------------------------------------------------------------
(* Properties                                                              *)

CompletedReviews(a) ==
  {i \in DOMAIN reviews[a] : reviews[a][i].completed_at # 0}

(* The review rows tell where the application stands: cycles are numbered  *)
(* 1, 2, ... without gaps, every cycle but the newest is completed, and the*)
(* newest is open exactly while the application is UNDER_REVIEW.  Broken,  *)
(* an application would be under review with nobody able to finish it, or  *)
(* two reviewers would work on one application.                            *)
ReviewsMatchState ==
  \A a \in Applications :
    LET rows == reviews[a] IN
      /\ \A i \in DOMAIN rows : rows[i].cycle_number = i
      /\ \A i \in OpenReviews(a) :
           i = Len(rows) /\ Exists(a) /\ State(a) = "UNDER_REVIEW"
      /\ Exists(a) /\ State(a) = "UNDER_REVIEW" => OpenReviews(a) # {}

(* Review i was answered, or the clock misled: it was set back before i was*)
(* completed, and the answer went to an earlier request.                   *)
AnsweredOrMisled(a, i) == reviews[a][i].responded \/ SetBackBetween(a, 1, i)

(* What the newest cycle ended with, and whether the applicant answered it,*)
(* agrees with the state; a further cycle exists only because the previous *)
(* one asked for information and was answered.  Only a clock set back      *)
(* between two completions lets an answer go to an earlier request.        *)
OutcomesMatchState ==
  \A a \in Applications :
    LET rows == reviews[a]
        last == rows[Len(rows)] IN
      /\ \A i \in DOMAIN rows : i < Len(rows) =>
           rows[i].outcome = "INFO_REQUESTED" /\ AnsweredOrMisled(a, i)
      /\ rows # <<>> =>
           /\ Exists(a)
           /\ State(a) = "INFO_REQUESTED" =>
                last.outcome = "INFO_REQUESTED" /\ ~last.responded
           /\ State(a) = "RESUBMITTED" =>
                last.outcome = "INFO_REQUESTED" /\ AnsweredOrMisled(a, Len(rows))
           /\ State(a) \in {"READY_FOR_DECISION"} \cup FinalStates =>
                last.outcome = "READY_FOR_DECISION"

(* The recorded reviewer is the user who completed the newest completed    *)
(* cycle, a decision is recorded exactly on a final application, and it was*)
(* taken by an approver who is not the recorded reviewer.                  *)
DecisionIsIndependent ==
  \A a \in Applications : Exists(a) =>
    LET row  == applications[a]
        done == CompletedReviews(a) IN
      /\ done = {} <=> row.reviewed_by_id = NoUser
      /\ \A i \in done : (\A j \in done : j <= i) =>
           row.reviewed_by_id = reviews[a][i].reviewer_id
      /\ row.current_state \in FinalStates <=> row.decisioned_by_id # NoUser
      /\ row.current_state \in FinalStates =>
           /\ "APPROVER" \in RolesOf[row.decisioned_by_id]
           /\ row.decisioned_by_id # row.reviewed_by_id

(* The audit trail accounts for the current state: it starts at DRAFT,     *)
(* every entry starts where the previous one ended, the last one ends in   *)
(* the current state, and each completed review names the entry that       *)
(* completed it, written by its reviewer.                                  *)
AuditExplainsState ==
  \A a \in Applications :
    LET log == auditLogs[a] IN
      /\ \A n \in DOMAIN log :
           log[n].before_state =
             IF n = 1 THEN "DRAFT" ELSE log[n - 1].after_state
      /\ Exists(a) =>
           State(a) = IF log = <<>> THEN "DRAFT" ELSE log[Len(log)].after_state
      /\ \A i \in DOMAIN reviews[a] :
           LET row == reviews[a][i] IN
             row.completed_at # 0 =>
               /\ row.completed_at \in DOMAIN log
               /\ log[row.completed_at].acting_user_id = row.reviewer_id
               /\ log[row.completed_at].after_state = row.outcome

(* Every required document of an answered information request was stored   *)
(* after that request: a version from an earlier cycle never counts, unless*)
(* the clock had been set back when the request was made.                  *)
AnsweredRequestsDelivered ==
  \A a \in Applications : \A i \in DOMAIN reviews[a] :
    reviews[a][i].responded /\ ~reviews[a][i].behind =>
      \A item \in reviews[a][i].request_items :
        item.required /\ item.type \in {"DOCUMENT_REPLACEMENT", "ADDITIONAL_DOCUMENT"} =>
          documents[a][item.target] > reviews[a][i].documents_then[item.target]

(* Nothing rewrites history: audit entries are only appended, a completed  *)
(* review keeps its reviewer, outcome and items, and an answer is not      *)
(* withdrawn.                                                              *)
HistoryIsKept ==
  [][\A a \in Applications :
       /\ \A n \in DOMAIN auditLogs[a] :
            n \in DOMAIN auditLogs'[a] /\ auditLogs'[a][n] = auditLogs[a][n]
       /\ \A i \in DOMAIN reviews[a] :
            LET old == reviews[a][i]
                new == reviews'[a][i] IN
              /\ i \in DOMAIN reviews'[a]
              /\ old.completed_at # 0 =>
                   new = [old EXCEPT !.responded = new.responded]
              /\ old.responded => new.responded]_vars

(* Seen from outside: where an application stands, who took it up last,    *)
(* who signed off its examination and who decided it.                      *)
Stage(a) == IF Exists(a) THEN State(a) ELSE "NONE"

Examiner(a) ==
  IF reviews[a] = <<>> THEN NoUser ELSE reviews[a][Len(reviews[a])].reviewer_id

Signer(a) == IF Exists(a) THEN applications[a].reviewed_by_id ELSE NoUser

Decider(a) ==
  IF Exists(a) THEN applications[a].decisioned_by_id ELSE NoUser

Lifecycle == INSTANCE ApplicationLifecycle WITH
  stage    <- [a \in Applications |-> Stage(a)],
  examiner <- [a \in Applications |-> Examiner(a)],
  signer   <- [a \in Applications |-> Signer(a)],
  decider  <- [a \in Applications |-> Decider(a)]

(* The workflow implements ApplicationLifecycle: only the user who opened  *)
(* the newest review closes it, a decision is taken by someone else, and a *)
(* final application takes no further step.                                *)
ImplementsLifecycle == Lifecycle!Spec

-----------------------------------------------------------------------------
(* What the code's messages and the README say, and the unlocked handlers  *)
(* break                                                                   *)

(* "Final application decisions are immutable": the fields of a decided    *)
(* application never change (applications.repository.ts:638).              *)
FinalApplicationsImmutable ==
  [][\A a \in Applications :
       Exists(a) /\ State(a) \in FinalStates =>
         applications'[a].fields = applications[a].fields]_vars

(* Optimistic locking (README "Design notes"): every change of the row     *)
(* takes the next version, so a version names one content.                 *)
EachChangeTakesNextVersion ==
  [][\A a \in Applications :
       Exists(a) /\ applications'[a] # applications[a] =>
         applications'[a].lock_version = applications[a].lock_version + 1]_vars

(* "Documents can only be uploaded while drafting or responding to         *)
(* requested information" (documents.repository.ts:131).                   *)
UploadsOnlyWhileEditable ==
  [][\A a \in Applications :
       documents'[a] # documents[a] => State(a) \in EditableStates]_vars

(* "Complete required draft fields before submit": an application leaves   *)
(* DRAFT only with every required field and document present               *)
(* (applications.repository.ts:915).                                       *)
SubmittedComplete ==
  [][\A a \in Applications :
       Exists(a) /\ State(a) = "DRAFT" /\ State(a)' # "DRAFT" =>
         ReadyToSubmit(a)]_vars

=============================================================================
