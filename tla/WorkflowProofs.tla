--------------------------- MODULE WorkflowProofs ---------------------------
(***************************************************************************)
(* Proofs about Workflow, for every set of applications, users and request *)
(* slots, every assignment of roles and every bound.                       *)
(*                                                                         *)
(* Type correctness needs the review bookkeeping: the next cycle number is *)
(* a maximum over the rows, a number only because the rows are numbered    *)
(* 1, 2, ...  So TypeOK /\ ReviewsMatchState is proved inductive first,    *)
(* and everything else rests on it.                                        *)
(***************************************************************************)
EXTENDS Workflow, SequenceTheorems, TLAPS

(* Under the review bookkeeping the next cycle number counts the rows.     *)
LEMMA NextCycleNumber ==
  ASSUME TypeOK, ReviewsMatchState, NEW a \in Applications
  PROVE  getNextCycleNumber(a) = Len(reviews[a]) + 1
<1> DEFINE n == Len(reviews[a])
<1>1. reviews[a] \in Seq(ReviewRows)
  BY DEF TypeOK
<1>2. n \in Nat /\ DOMAIN reviews[a] = 1 .. n
  BY <1>1, LenProperties
<1>3. \A i \in 1 .. n : reviews[a][i].cycle_number = i
  BY <1>2 DEF ReviewsMatchState
<1>4. CycleNumbers(a) = 1 .. n
  BY <1>2, <1>3 DEF CycleNumbers
<1>5. CASE n = 0
  BY <1>4, <1>5 DEF getNextCycleNumber
<1>6. CASE n # 0
  <2>1. n \in 1 .. n /\ \A y \in 1 .. n : n >= y
    BY <1>2, <1>6
  <2>2. \A x \in 1 .. n : (\A y \in 1 .. n : x >= y) => x = n
    BY <1>2, <2>1
  <2>3. Max(1 .. n) = n
    BY <2>1, <2>2 DEF Max
  <2> QED
    BY <1>4, <1>6, <2>1, <2>3 DEF getNextCycleNumber
<1> QED
  BY <1>5, <1>6

(* Replacing one row of a sequence of rows.                                *)
LEMMA ReplaceRow ==
  ASSUME NEW S, NEW s \in Seq(S), NEW i \in DOMAIN s, NEW e \in S
  PROVE  /\ [s EXCEPT ![i] = e] \in Seq(S)
         /\ Len([s EXCEPT ![i] = e]) = Len(s)
         /\ DOMAIN [s EXCEPT ![i] = e] = DOMAIN s
         /\ [s EXCEPT ![i] = e][i] = e
         /\ \A j \in DOMAIN s : j # i => [s EXCEPT ![i] = e][j] = s[j]
  BY LenProperties, ExceptSeq

(* Adding one row at the end of a sequence of rows.                        *)
LEMMA AppendRow ==
  ASSUME NEW S, NEW s \in Seq(S), NEW e \in S
  PROVE  /\ Append(s, e) \in Seq(S)
         /\ Len(Append(s, e)) = Len(s) + 1
         /\ DOMAIN s = 1 .. Len(s)
         /\ DOMAIN Append(s, e) = 1 .. Len(s) + 1
         /\ Append(s, e)[Len(s) + 1] = e
         /\ \A j \in DOMAIN s : Append(s, e)[j] = s[j]
  BY LenProperties

-----------------------------------------------------------------------------
(* Every audit entry written by a transaction is well formed.              *)
LEMMA AuditType ==
  ASSUME TypeOK, NEW a \in Applications, NEW u \in Users, Exists(a),
         NEW action, NEW to \in ApplicationStates,
         action \in {"APPLICATION_SUBMITTED", "REVIEW_STARTED",
                     "MORE_INFO_REQUESTED", "APPLICATION_RESUBMITTED",
                     "APPLICATION_MARKED_AS_READY_FOR_DECISION",
                     "APPLICATION_APPROVED", "APPLICATION_REJECTED"},
         writeAuditLog(a, u, action, to)
  PROVE  auditLogs' \in [Applications -> Seq(AuditRows)]
<1> DEFINE e == [acting_user_id |-> u, action_type |-> action,
                 before_state |-> State(a), after_state |-> to]
<1>1. applications[a] \in ApplicationRows
  BY DEF TypeOK, Exists
<1>2. State(a) \in ApplicationStates
  BY <1>1 DEF State, ApplicationRows
<1>3. e \in AuditRows
  BY <1>2 DEF AuditRows
<1>4. Append(auditLogs[a], e) \in Seq(AuditRows)
  BY <1>3, AppendRow DEF TypeOK
<1> HIDE DEF e
<1>5. auditLogs' = [auditLogs EXCEPT ![a] = Append(auditLogs[a], e)]
  BY DEF writeAuditLog, TypeOK, e
<1> QED
  BY <1>4, <1>5 DEF TypeOK

(* The row after a transition is well formed.                              *)
LEMMA AdvancedType ==
  ASSUME TypeOK, BoundsAssumption, NEW a \in Applications, Exists(a),
         NEW v, checkLockVersion(a, v), NEW to \in ApplicationStates
  PROVE  Advanced(a, to) \in ApplicationRows
<1>1. applications[a] \in ApplicationRows
  BY DEF TypeOK, Exists
<1>2. applications[a].lock_version + 1 \in LockVersions
  BY <1>1 DEF checkLockVersion, LockVersions, ApplicationRows, BoundsAssumption
<1> QED
  BY <1>1, <1>2 DEF Advanced, ApplicationRows

-----------------------------------------------------------------------------
(* Stored request items are well formed.                                   *)
LEMMA BuiltItems ==
  ASSUME TypeOK, RequestsAssumption, FieldsAssumption, NEW a \in Applications,
         Exists(a), NEW items \in InfoRequests
  PROVE  buildRequestItems(a, items) \in SUBSET RequestItems
<1>1. applications[a].fields \in [FieldKeys -> FieldValues]
  BY DEF TypeOK, Exists, ApplicationRows, Contents
<1>2. items \subseteq RequestItemInputs
  BY DEF RequestsAssumption
<1>3. ASSUME NEW item \in items
      PROVE  [type |-> item.type, target |-> item.target,
              required |-> item.required,
              captured_value |-> IF item.type = "FIELD_UPDATE"
                                 THEN applications[a].fields[item.target]
                                 ELSE NoValue] \in RequestItems
  <2>1. item \in RequestItemInputs
    BY <1>2
  <2>2. item.type = "FIELD_UPDATE" => item.target \in FieldKeys
    BY <2>1 DEF RequestItemInputs
  <2>3. item.target \in FieldKeys \cup DocumentTypes \cup Questions
    BY <2>1 DEF RequestItemInputs, DocumentTypes
  <2>4. item.type \in {"FIELD_UPDATE", "DOCUMENT_REPLACEMENT",
                       "ADDITIONAL_DOCUMENT", "OPEN_QUESTION"}
        /\ item.required \in BOOLEAN
    BY <2>1 DEF RequestItemInputs
  <2> QED
    BY <1>1, <2>2, <2>3, <2>4 DEF RequestItems, FieldsAssumption
<1> QED
  BY <1>3 DEF buildRequestItems

(* What starting a review does to the tables of the application.           *)
LEMMA StartReviewEffect ==
  ASSUME TypeOK, ReviewsMatchState, BoundsAssumption,
         NEW a \in Applications, NEW u \in Users, NEW v, startReview(a, u, v)
  PROVE  /\ applications' =
              [applications EXCEPT ![a] = Advanced(a, "UNDER_REVIEW")]
         /\ Advanced(a, "UNDER_REVIEW") \in ApplicationRows
         /\ \E row \in ReviewRows :
              /\ reviews' = [reviews EXCEPT ![a] = Append(reviews[a], row)]
              /\ row.reviewer_id = u
              /\ row.cycle_number = Len(reviews[a]) + 1
              /\ row.completed_at = 0
              /\ row.outcome = "NONE"
              /\ ~row.responded
         /\ auditLogs' \in [Applications -> Seq(AuditRows)]
<1> DEFINE row == [reviewer_id |-> u,
                   cycle_number |-> getNextCycleNumber(a),
                   completed_at |-> 0,
                   behind |-> FALSE,
                   outcome |-> "NONE",
                   request_items |-> {},
                   documents_then |-> [t \in DocumentTypes |-> 0],
                   responded |-> FALSE]
<1>1. getNextCycleNumber(a) = Len(reviews[a]) + 1
  BY NextCycleNumber
<1>2. Len(reviews[a]) \in Nat
  BY LenProperties DEF TypeOK
<1>3. [t \in DocumentTypes |-> 0] \in VersionCounts
  BY DEF VersionCounts, BoundsAssumption
<1>4. row \in ReviewRows
  BY <1>1, <1>2, <1>3 DEF ReviewRows
<1>5. reviews' = [reviews EXCEPT ![a] = Append(reviews[a], row)]
  BY DEF startReview, TypeOK
<1>6. row.cycle_number = Len(reviews[a]) + 1
  BY <1>1
<1>7. Exists(a) /\ Advanced(a, "UNDER_REVIEW") \in ApplicationRows
  BY AdvancedType DEF startReview, ApplicationStates
<1>8. auditLogs' \in [Applications -> Seq(AuditRows)]
  BY <1>7, AuditType DEF startReview, ApplicationStates
<1> QED
  BY <1>4, <1>5, <1>6, <1>7, <1>8 DEF startReview

(* A row stays well formed when it is closed.                              *)
LEMMA ClosedRow ==
  ASSUME NEW old \in ReviewRows, NEW n \in Nat, NEW behind \in BOOLEAN,
         NEW to \in {"INFO_REQUESTED", "READY_FOR_DECISION"},
         NEW items \in SUBSET RequestItems, NEW counts \in VersionCounts
  PROVE  [old EXCEPT !.completed_at = n,
                     !.behind = behind,
                     !.outcome = to,
                     !.request_items = items,
                     !.documents_then = counts,
                     !.responded = FALSE] \in ReviewRows
<1> DEFINE closed == [old EXCEPT !.completed_at = n, !.behind = behind,
                                 !.outcome = to]
           asked  == [closed EXCEPT !.request_items = items,
                                    !.documents_then = counts]
<1>1. closed \in ReviewRows
  BY DEF ReviewRows
<1>2. asked \in ReviewRows
  <2> HIDE DEF closed
  <2> QED
    BY <1>1 DEF ReviewRows
<1>3. [asked EXCEPT !.responded = FALSE] \in ReviewRows
  <2> HIDE DEF closed, asked
  <2> QED
    BY <1>2 DEF ReviewRows
<1> QED
  BY <1>3, Zenon

(* What completing a review does: the caller's open review, the newest row,*)
(* is closed, and the caller is recorded as the reviewer.                  *)
ReviewClosed(a, u, i, to) ==
  /\ Exists(a)
  /\ State(a) = "UNDER_REVIEW"
  /\ i = Len(reviews[a])
  /\ reviews[a][i].completed_at = 0
  /\ reviews[a][i].reviewer_id = u
  /\ \E r \in ApplicationRows :
       /\ applications' = [applications EXCEPT ![a] = r]
       /\ r.current_state = to
       /\ r.reviewed_by_id = u
       /\ r.decisioned_by_id = applications[a].decisioned_by_id
  /\ \E row \in ReviewRows :
       /\ reviews' = [reviews EXCEPT ![a] = [reviews[a] EXCEPT ![i] = row]]
       /\ row.reviewer_id = u
       /\ row.cycle_number = reviews[a][i].cycle_number
       /\ row.completed_at = Len(auditLogs[a]) + 1
       /\ row.outcome = to
       /\ ~row.responded
  /\ auditLogs' \in [Applications -> Seq(AuditRows)]

LEMMA CompleteReviewEffect ==
  ASSUME TypeOK, ReviewsMatchState, BoundsAssumption,
         NEW a \in Applications, NEW u \in Users, NEW v,
         NEW i \in DOMAIN reviews[a],
         NEW to \in {"INFO_REQUESTED", "READY_FOR_DECISION"},
         NEW action \in {"MORE_INFO_REQUESTED",
                         "APPLICATION_MARKED_AS_READY_FOR_DECISION"},
         NEW items \in SUBSET RequestItems,
         CompleteReview(a, u, v, i, to, action, items)
  PROVE  ReviewClosed(a, u, i, to)
<1>0. PICK behind \in BOOLEAN :
        reviews' =
          [reviews EXCEPT ![a][i] =
             [@ EXCEPT !.completed_at = Len(auditLogs[a]) + 1,
                       !.behind = behind,
                       !.outcome = to,
                       !.request_items = items,
                       !.documents_then = documents[a],
                       !.responded = FALSE]]
  BY DEF CompleteReview
<1> DEFINE old == reviews[a][i]
           row == [old EXCEPT !.completed_at = Len(auditLogs[a]) + 1,
                              !.behind = behind,
                              !.outcome = to,
                              !.request_items = items,
                              !.documents_then = documents[a],
                              !.responded = FALSE]
           r   == [Advanced(a, to) EXCEPT !.reviewed_by_id = u]
<1>1. Exists(a) /\ State(a) = "UNDER_REVIEW"
  BY DEF CompleteReview, checkApplicationState
<1>2. reviews[a] \in Seq(ReviewRows) /\ auditLogs[a] \in Seq(AuditRows)
  BY DEF TypeOK
<1>3. i \in OpenReviews(a) /\ old.reviewer_id = u
  BY DEF CompleteReview, getOpenReview
<1>4. i = Len(reviews[a])
  BY <1>3 DEF ReviewsMatchState
<1>5. old.completed_at = 0
  BY <1>3 DEF OpenReviews
<1>6. old \in ReviewRows
  BY <1>2, LenProperties
<1>7. Len(auditLogs[a]) + 1 \in Nat
  BY <1>2, LenProperties
<1>8. documents[a] \in VersionCounts
  BY DEF TypeOK
<1>9. row \in ReviewRows
  BY <1>6, <1>7, <1>8, ClosedRow, Zenon
<1>10. /\ row.reviewer_id = u
       /\ row.cycle_number = old.cycle_number
       /\ row.completed_at = Len(auditLogs[a]) + 1
       /\ row.outcome = to
       /\ ~row.responded
  BY <1>3, <1>6 DEF ReviewRows
<1>11. reviews' = [reviews EXCEPT ![a] = [reviews[a] EXCEPT ![i] = row]]
  BY <1>0 DEF TypeOK
<1>12. Advanced(a, to) \in ApplicationRows
  BY <1>1, AdvancedType DEF CompleteReview, ApplicationStates
<1>13. applications[a] \in ApplicationRows
  BY <1>1 DEF TypeOK, Exists
<1>14. /\ Advanced(a, to).current_state = to
       /\ Advanced(a, to).decisioned_by_id = applications[a].decisioned_by_id
  BY <1>13 DEF Advanced, ApplicationRows
<1>15. /\ r \in ApplicationRows
       /\ r.current_state = to
       /\ r.reviewed_by_id = u
       /\ r.decisioned_by_id = applications[a].decisioned_by_id
  BY <1>12, <1>14 DEF ApplicationRows
<1>16. applications' = [applications EXCEPT ![a] = r]
  BY DEF CompleteReview
<1>17. auditLogs' \in [Applications -> Seq(AuditRows)]
  BY <1>1, AuditType DEF CompleteReview, ApplicationStates
<1> HIDE DEF row, r, old
<1> QED
  BY <1>1, <1>3, <1>4, <1>5, <1>9, <1>10, <1>11, <1>15, <1>16, <1>17
     DEF ReviewClosed, old

-----------------------------------------------------------------------------
(* The inductive invariant behind every theorem of this module.            *)
RowsInv == TypeOK /\ ReviewsMatchState

LEMMA RowsInvInit == Init => RowsInv
<1> SUFFICES ASSUME Init PROVE RowsInv
  OBVIOUS
<1>1. [t \in DocumentTypes |-> 0] \in VersionCounts
  BY BoundsAssumption DEF VersionCounts, BoundsAssumption
<1>2. <<>> \in Seq(ReviewRows) /\ <<>> \in Seq(AuditRows)
  BY EmptySeq
<1>3. TypeOK
  BY <1>1, <1>2 DEF Init, TypeOK
<1>4. \A a \in Applications : reviews[a] = <<>> /\ ~Exists(a)
  BY DEF Init, Exists
<1>5. ReviewsMatchState
  BY <1>4 DEF ReviewsMatchState, OpenReviews
<1> QED
  BY <1>3, <1>5 DEF RowsInv

(* A step that leaves the reviews alone and neither puts an application    *)
(* under review nor takes it out keeps the review bookkeeping.             *)
LEMMA ReviewsUntouched ==
  ASSUME ReviewsMatchState, reviews' = reviews,
         \A a \in Applications :
           (Exists(a) /\ State(a) = "UNDER_REVIEW")
             <=> (Exists(a) /\ State(a) = "UNDER_REVIEW")'
  PROVE  ReviewsMatchState'
<1>1. \A a \in Applications : OpenReviews(a)' = OpenReviews(a)
  BY DEF OpenReviews
<1> QED
  BY <1>1 DEF ReviewsMatchState

(* A step that puts row r in place of the row of a, and nothing else in the*)
(* table.                                                                  *)
LEMMA RowReplaced ==
  ASSUME TypeOK, NEW a \in Applications, NEW r,
         applications' = [applications EXCEPT ![a] = r]
  PROVE  /\ applications'[a] = r
         /\ \A b \in Applications : b # a => applications'[b] = applications[b]
         /\ r \in ApplicationRows =>
              applications' \in [Applications -> ApplicationRows \cup {NoApplication}]
  BY DEF TypeOK

LEMMA StartReviewKeeps ==
  ASSUME RowsInv, NEW a \in Applications, NEW u \in Users, NEW v,
         startReview(a, u, v)
  PROVE  RowsInv'
<1> DEFINE n == Len(reviews[a])
<1>1. TypeOK /\ ReviewsMatchState
  BY DEF RowsInv
<1>2. /\ applications' =
           [applications EXCEPT ![a] = Advanced(a, "UNDER_REVIEW")]
      /\ Advanced(a, "UNDER_REVIEW") \in ApplicationRows
      /\ auditLogs' \in [Applications -> Seq(AuditRows)]
  BY <1>1, StartReviewEffect, BoundsAssumption
<1>3. PICK row \in ReviewRows :
        /\ reviews' = [reviews EXCEPT ![a] = Append(reviews[a], row)]
        /\ row.cycle_number = Len(reviews[a]) + 1
        /\ row.completed_at = 0
  BY <1>1, StartReviewEffect, BoundsAssumption
<1>4. Exists(a) /\ State(a) \in {"SUBMITTED", "RESUBMITTED"}
  BY DEF startReview, checkApplicationState
<1>5. documents' = documents /\ handlers' = handlers
  BY DEF startReview
<1>6. reviews[a] \in Seq(ReviewRows)
  BY <1>1 DEF TypeOK
<1>7. /\ reviews'[a] = Append(reviews[a], row)
      /\ \A b \in Applications : b # a => reviews'[b] = reviews[b]
      /\ reviews' \in [Applications -> Seq(ReviewRows)]
  BY <1>1, <1>3, <1>6, AppendRow DEF TypeOK
<1>8. TypeOK'
  BY <1>1, <1>2, <1>5, <1>7, RowReplaced DEF TypeOK
<1>9. applications[a] \in ApplicationRows
  BY <1>1, <1>4 DEF TypeOK, Exists
<1>10. (Exists(a) /\ State(a) = "UNDER_REVIEW")'
  <2>1. Advanced(a, "UNDER_REVIEW").current_state = "UNDER_REVIEW"
    BY <1>9 DEF Advanced, ApplicationRows
  <2>2. applications'[a] = Advanced(a, "UNDER_REVIEW")
    BY <1>1, <1>2, RowReplaced
  <2> QED
    BY <1>2, <2>1, <2>2, NullAssumption DEF NullAssumption, Exists, State
<1>11. /\ n \in Nat
       /\ DOMAIN reviews[a] = 1 .. n
       /\ DOMAIN reviews'[a] = 1 .. n + 1
       /\ Len(reviews'[a]) = n + 1
       /\ reviews'[a][n + 1] = row
       /\ \A j \in 1 .. n : reviews'[a][j] = reviews[a][j]
  BY <1>6, <1>7, AppendRow, LenProperties
<1>12. OpenReviews(a) = {}
  BY <1>1, <1>4 DEF ReviewsMatchState
<1>13. OpenReviews(a)' = {n + 1}
  BY <1>3, <1>11, <1>12 DEF OpenReviews
<1>14. \A b \in Applications : b # a =>
         /\ OpenReviews(b)' = OpenReviews(b)
         /\ (Exists(b) /\ State(b) = "UNDER_REVIEW")
              <=> (Exists(b) /\ State(b) = "UNDER_REVIEW")'
  BY <1>1, <1>2, <1>7, RowReplaced DEF OpenReviews, Exists, State
<1>15. \A i \in DOMAIN reviews'[a] : reviews'[a][i].cycle_number = i
  BY <1>1, <1>3, <1>11 DEF ReviewsMatchState
<1>16. ASSUME NEW b \in Applications
       PROVE  /\ \A i \in DOMAIN reviews'[b] : reviews'[b][i].cycle_number = i
              /\ \A i \in OpenReviews(b)' :
                   i = Len(reviews'[b]) /\ (Exists(b) /\ State(b) = "UNDER_REVIEW")'
              /\ (Exists(b) /\ State(b) = "UNDER_REVIEW")' => OpenReviews(b)' # {}
  <2>1. CASE b = a
    BY <1>10, <1>11, <1>13, <1>15, <2>1
  <2>2. CASE b # a
    BY <1>1, <1>7, <1>14, <2>2 DEF ReviewsMatchState
  <2> QED
    BY <2>1, <2>2
<1>17. ReviewsMatchState'
  BY <1>16 DEF ReviewsMatchState
<1> QED
  BY <1>8, <1>17 DEF RowsInv

LEMMA CompleteReviewKeeps ==
  ASSUME RowsInv, NEW a \in Applications, NEW u \in Users, NEW v,
         NEW i \in DOMAIN reviews[a],
         NEW to \in {"INFO_REQUESTED", "READY_FOR_DECISION"},
         NEW action \in {"MORE_INFO_REQUESTED",
                         "APPLICATION_MARKED_AS_READY_FOR_DECISION"},
         NEW items \in SUBSET RequestItems,
         CompleteReview(a, u, v, i, to, action, items)
  PROVE  RowsInv'
<1>1. TypeOK /\ ReviewsMatchState
  BY DEF RowsInv
<1>0. ReviewClosed(a, u, i, to)
  BY <1>1, CompleteReviewEffect, BoundsAssumption
<1>2. /\ i = Len(reviews[a])
      /\ auditLogs' \in [Applications -> Seq(AuditRows)]
  BY <1>0 DEF ReviewClosed
<1>3. PICK r \in ApplicationRows :
        /\ applications' = [applications EXCEPT ![a] = r]
        /\ r.current_state = to
  BY <1>0 DEF ReviewClosed
<1>4. PICK row \in ReviewRows :
        /\ reviews' = [reviews EXCEPT ![a] = [reviews[a] EXCEPT ![i] = row]]
        /\ row.cycle_number = reviews[a][i].cycle_number
        /\ row.completed_at = Len(auditLogs[a]) + 1
  BY <1>0 DEF ReviewClosed
<1>5. documents' = documents /\ handlers' = handlers
  BY DEF CompleteReview
<1>6. reviews[a] \in Seq(ReviewRows) /\ Len(auditLogs[a]) \in Nat
  BY <1>1, LenProperties DEF TypeOK
<1>7. /\ reviews'[a] = [reviews[a] EXCEPT ![i] = row]
      /\ \A b \in Applications : b # a => reviews'[b] = reviews[b]
      /\ reviews' \in [Applications -> Seq(ReviewRows)]
  BY <1>1, <1>4, <1>6, ReplaceRow DEF TypeOK
<1>8. TypeOK'
  BY <1>1, <1>2, <1>3, <1>5, <1>7, RowReplaced DEF TypeOK
<1>9. State(a)' \in {"INFO_REQUESTED", "READY_FOR_DECISION"}
  BY <1>1, <1>3, RowReplaced DEF State
<1>10. /\ DOMAIN reviews'[a] = DOMAIN reviews[a]
       /\ reviews'[a][i] = row
       /\ \A j \in DOMAIN reviews[a] : j # i => reviews'[a][j] = reviews[a][j]
  BY <1>6, <1>7, ReplaceRow
<1>11. OpenReviews(a)' = {}
  <2>1. OpenReviews(a) \subseteq {i}
    BY <1>1, <1>2 DEF ReviewsMatchState
  <2>2. reviews'[a][i].completed_at # 0
    BY <1>4, <1>6, <1>10
  <2> QED
    BY <1>10, <2>1, <2>2 DEF OpenReviews
<1>12. \A b \in Applications : b # a =>
         /\ OpenReviews(b)' = OpenReviews(b)
         /\ (Exists(b) /\ State(b) = "UNDER_REVIEW")
              <=> (Exists(b) /\ State(b) = "UNDER_REVIEW")'
  BY <1>1, <1>3, <1>7, RowReplaced DEF OpenReviews, Exists, State
<1>13. \A j \in DOMAIN reviews'[a] : reviews'[a][j].cycle_number = j
  BY <1>1, <1>4, <1>10 DEF ReviewsMatchState
<1>14. ASSUME NEW b \in Applications
       PROVE  /\ \A j \in DOMAIN reviews'[b] : reviews'[b][j].cycle_number = j
              /\ \A j \in OpenReviews(b)' :
                   j = Len(reviews'[b]) /\ (Exists(b) /\ State(b) = "UNDER_REVIEW")'
              /\ (Exists(b) /\ State(b) = "UNDER_REVIEW")' => OpenReviews(b)' # {}
  <2>1. CASE b = a
    BY <1>9, <1>11, <1>13, <2>1
  <2>2. CASE b # a
    BY <1>1, <1>7, <1>12, <2>2 DEF ReviewsMatchState
  <2> QED
    BY <2>1, <2>2
<1>15. ReviewsMatchState'
  BY <1>14 DEF ReviewsMatchState
<1> QED
  BY <1>8, <1>15 DEF RowsInv

(* A transition of the service outside the review: row r replaces the row  *)
(* of a, and neither the old nor the new state is UNDER_REVIEW.            *)
LEMMA TransitionKeeps ==
  ASSUME RowsInv, NEW a \in Applications, NEW r \in ApplicationRows,
         ~(Exists(a) /\ State(a) = "UNDER_REVIEW"),
         r.current_state # "UNDER_REVIEW",
         applications' = [applications EXCEPT ![a] = r],
         reviews' = reviews
  PROVE  /\ applications' \in [Applications -> ApplicationRows \cup {NoApplication}]
         /\ ReviewsMatchState'
<1>1. TypeOK /\ ReviewsMatchState
  BY DEF RowsInv
<1>2. /\ applications'[a] = r
      /\ \A b \in Applications : b # a => applications'[b] = applications[b]
      /\ applications' \in [Applications -> ApplicationRows \cup {NoApplication}]
  BY <1>1, RowReplaced
<1>3. \A b \in Applications :
        (Exists(b) /\ State(b) = "UNDER_REVIEW")
          <=> (Exists(b) /\ State(b) = "UNDER_REVIEW")'
  BY <1>2 DEF Exists, State
<1> QED
  BY <1>1, <1>2, <1>3, ReviewsUntouched

LEMMA ResubmitKeeps ==
  ASSUME RowsInv, NEW a \in Applications, NEW u \in Users, NEW v,
         NEW i \in DOMAIN reviews[a], NEW answered,
         resubmitApplication(a, u, v, i, answered)
  PROVE  RowsInv'
<1> DEFINE row == [reviews[a][i] EXCEPT !.responded = TRUE]
<1>1. TypeOK /\ ReviewsMatchState
  BY DEF RowsInv
<1>2. Exists(a) /\ State(a) = "INFO_REQUESTED"
  BY DEF resubmitApplication, checkApplicationState
<1>3. Advanced(a, "RESUBMITTED") \in ApplicationRows
  BY <1>1, <1>2, AdvancedType, BoundsAssumption
     DEF resubmitApplication, ApplicationStates
<1>4. /\ applications' = [applications EXCEPT ![a] = Advanced(a, "RESUBMITTED")]
      /\ documents' = documents /\ handlers' = handlers
  BY DEF resubmitApplication
<1>5. applications'[a] = Advanced(a, "RESUBMITTED")
      /\ \A b \in Applications : b # a => applications'[b] = applications[b]
  BY <1>1, <1>4, RowReplaced
<1>6. State(a)' = "RESUBMITTED"
  <2>1. applications[a] \in ApplicationRows
    BY <1>1, <1>2 DEF TypeOK, Exists
  <2> QED
    BY <1>5, <2>1 DEF State, Advanced, ApplicationRows
<1>7. reviews[a] \in Seq(ReviewRows) /\ reviews[a][i] \in ReviewRows
  BY <1>1, LenProperties DEF TypeOK
<1>8. /\ row \in ReviewRows
      /\ row.cycle_number = reviews[a][i].cycle_number
      /\ row.completed_at = reviews[a][i].completed_at
  <2> DEFINE old == reviews[a][i]
  <2>1. old \in ReviewRows
    BY <1>7
  <2> HIDE DEF old
  <2>2. /\ [old EXCEPT !.responded = TRUE] \in ReviewRows
        /\ [old EXCEPT !.responded = TRUE].cycle_number = old.cycle_number
        /\ [old EXCEPT !.responded = TRUE].completed_at = old.completed_at
    BY <2>1 DEF ReviewRows
  <2> QED
    BY <2>2 DEF old
<1>9. reviews' = [reviews EXCEPT ![a] = [reviews[a] EXCEPT ![i] = row]]
  BY <1>1 DEF resubmitApplication, TypeOK
<1> HIDE DEF row
<1>10. /\ reviews'[a] = [reviews[a] EXCEPT ![i] = row]
       /\ \A b \in Applications : b # a => reviews'[b] = reviews[b]
       /\ reviews' \in [Applications -> Seq(ReviewRows)]
  BY <1>1, <1>7, <1>8, <1>9, ReplaceRow DEF TypeOK
<1>11. /\ DOMAIN reviews'[a] = DOMAIN reviews[a]
       /\ \A j \in DOMAIN reviews[a] :
            /\ reviews'[a][j].cycle_number = reviews[a][j].cycle_number
            /\ reviews'[a][j].completed_at = reviews[a][j].completed_at
  BY <1>7, <1>8, <1>10, ReplaceRow
<1>12. auditLogs' \in [Applications -> Seq(AuditRows)]
  BY <1>1, <1>2, AuditType DEF resubmitApplication, ApplicationStates
<1>13. TypeOK'
  BY <1>1, <1>3, <1>4, <1>10, <1>12, RowReplaced DEF TypeOK
<1>14. OpenReviews(a) = {} /\ OpenReviews(a)' = {}
  BY <1>1, <1>2, <1>11 DEF ReviewsMatchState, OpenReviews
<1>15. ASSUME NEW b \in Applications
       PROVE  /\ \A j \in DOMAIN reviews'[b] : reviews'[b][j].cycle_number = j
              /\ \A j \in OpenReviews(b)' :
                   j = Len(reviews'[b]) /\ (Exists(b) /\ State(b) = "UNDER_REVIEW")'
              /\ (Exists(b) /\ State(b) = "UNDER_REVIEW")' => OpenReviews(b)' # {}
  <2>1. CASE b = a
    BY <1>1, <1>6, <1>11, <1>14, <2>1 DEF ReviewsMatchState
  <2>2. CASE b # a
    BY <1>1, <1>5, <1>10, <2>2 DEF ReviewsMatchState, OpenReviews, Exists, State
  <2> QED
    BY <2>1, <2>2
<1>16. ReviewsMatchState'
  BY <1>15 DEF ReviewsMatchState
<1> QED
  BY <1>13, <1>16 DEF RowsInv

LEMMA FinalizeKeeps ==
  ASSUME RowsInv, NEW a \in Applications, NEW u \in Users, NEW v,
         NEW to \in FinalStates,
         NEW action \in {"APPLICATION_APPROVED", "APPLICATION_REJECTED"},
         finalizeDecision(a, u, v, to, action)
  PROVE  RowsInv'
<1> DEFINE r == [Advanced(a, to) EXCEPT !.decisioned_by_id = u]
<1>1. TypeOK /\ ReviewsMatchState
  BY DEF RowsInv
<1>2. Exists(a) /\ State(a) = "READY_FOR_DECISION"
  BY DEF finalizeDecision, checkApplicationState
<1>3. Advanced(a, to) \in ApplicationRows /\ applications[a] \in ApplicationRows
  BY <1>1, <1>2, AdvancedType, BoundsAssumption
     DEF finalizeDecision, ApplicationStates, TypeOK, Exists
<1>4. Advanced(a, to).current_state = to
  BY <1>3 DEF Advanced, ApplicationRows
<1>5. r \in ApplicationRows /\ r.current_state = to
  BY <1>3, <1>4 DEF ApplicationRows
<1>6. /\ applications' = [applications EXCEPT ![a] = r]
      /\ reviews' = reviews /\ documents' = documents /\ handlers' = handlers
  BY DEF finalizeDecision
<1>7. auditLogs' \in [Applications -> Seq(AuditRows)]
  BY <1>1, <1>2, AuditType DEF finalizeDecision, ApplicationStates
<1> HIDE DEF r
<1>8. /\ applications' \in [Applications -> ApplicationRows \cup {NoApplication}]
      /\ ReviewsMatchState'
  BY <1>2, <1>5, <1>6, TransitionKeeps DEF FinalStates
<1> QED
  BY <1>1, <1>6, <1>7, <1>8 DEF RowsInv, TypeOK

LEMMA CreateKeeps ==
  ASSUME RowsInv, NEW a \in Applications, NEW u \in Users,
         NEW fields \in Contents, createApplication(a, u, fields)
  PROVE  RowsInv'
<1> DEFINE r == [applicant_id |-> u,
                 current_state |-> "DRAFT",
                 fields |-> fields,
                 lock_version |-> 0,
                 reviewed_by_id |-> NoUser,
                 decisioned_by_id |-> NoUser]
<1>1. TypeOK /\ ~Exists(a)
  BY DEF RowsInv, createApplication
<1>2. r \in ApplicationRows /\ r.current_state # "UNDER_REVIEW"
  BY BoundsAssumption
     DEF ApplicationRows, ApplicationStates, LockVersions, BoundsAssumption
<1>3. /\ applications' = [applications EXCEPT ![a] = r]
      /\ UNCHANGED <<reviews, auditLogs, documents, handlers>>
  BY DEF createApplication
<1> HIDE DEF r
<1>4. /\ applications' \in [Applications -> ApplicationRows \cup {NoApplication}]
      /\ ReviewsMatchState'
  BY <1>1, <1>2, <1>3, TransitionKeeps
<1> QED
  BY <1>1, <1>3, <1>4 DEF RowsInv, TypeOK

LEMMA BeginKeeps ==
  ASSUME RowsInv, NEW h \in Handlers, NEW request \in Requests, Begin(h, request)
  PROVE  RowsInv'
<1>1. UNCHANGED <<applications, reviews, auditLogs, documents>>
  BY DEF Begin
<1>2. ReviewsMatchState'
  BY <1>1 DEF RowsInv, ReviewsMatchState, OpenReviews, Exists, State
<1>3. handlers' \in [Handlers -> Requests \cup {NoRequest}]
  BY DEF RowsInv, TypeOK, Begin
<1> QED
  BY <1>1, <1>2, <1>3 DEF RowsInv, TypeOK

(* The columns a PATCH writes leave the row well formed and its state as   *)
(* it was.                                                                 *)
LEMMA PatchedRowType ==
  ASSUME BoundsAssumption, NEW row \in ApplicationRows,
         NEW request \in PatchRequests, request.lock_version < MaxLockVersion
  PROVE  /\ PatchedRow(row, request) \in ApplicationRows
         /\ PatchedRow(row, request) =
              [row EXCEPT !.fields = PatchedRow(row, request).fields,
                          !.lock_version = request.lock_version + 1]
<1> DEFINE changed == {k \in DOMAIN request.body :
                         request.body[k] # request.fields[k]}
           new == [k \in FieldKeys |->
                     IF k \in changed THEN request.body[k] ELSE row.fields[k]]
<1>1. request.body \in PatchBodies /\ request.lock_version \in LockVersions
  BY DEF PatchRequests
<1>2. PICK ks \in SUBSET FieldKeys :
        /\ request.body \in [ks -> FieldValues]
        /\ \A k \in MandatoryKeys : request.body[k] # NoValue
  BY <1>1 DEF PatchBodies
<1>3. row.fields \in Contents
  BY DEF ApplicationRows
<1>4. new \in Contents
  BY <1>2, <1>3, FieldsAssumption DEF Contents, FieldsAssumption
<1>5. request.lock_version + 1 \in LockVersions
  BY <1>1 DEF LockVersions, BoundsAssumption
<1>6. PatchedRow(row, request) =
        [row EXCEPT !.fields = new, !.lock_version = request.lock_version + 1]
  BY DEF PatchedRow
<1> HIDE DEF new
<1>7. PatchedRow(row, request) \in ApplicationRows
  BY <1>4, <1>5, <1>6 DEF ApplicationRows
<1>8. PatchedRow(row, request).fields = new
  BY <1>6 DEF ApplicationRows
<1> QED
  BY <1>6, <1>7, <1>8

LEMMA PatchKeeps ==
  ASSUME RowsInv, NEW h \in Handlers, finishUpdateDraft(h)
  PROVE  RowsInv'
<1>1. TypeOK /\ ReviewsMatchState
  BY DEF RowsInv
<1>2. handlers[h] \in PatchRequests /\ handlers[h].lock_version < MaxLockVersion
  BY DEF finishUpdateDraft
<1>3. PICK a \in Applications : a = handlers[h].app
  BY <1>2 DEF PatchRequests
<1> DEFINE r == PatchedRow(applications[a], handlers[h])
<1>4. applications[a] \in ApplicationRows
  BY <1>1, <1>3 DEF TypeOK, finishUpdateDraft, Exists
<1>5. r \in ApplicationRows
  BY <1>2, <1>4, PatchedRowType, BoundsAssumption
<1>6. r.current_state = applications[a].current_state
  BY <1>4 DEF PatchedRow, ApplicationRows
<1>7. /\ applications' = [applications EXCEPT ![a] = r]
      /\ reviews' = reviews /\ auditLogs' = auditLogs /\ documents' = documents
  BY <1>1, <1>3 DEF finishUpdateDraft, TypeOK
<1>8. handlers' \in [Handlers -> Requests \cup {NoRequest}]
  BY <1>1 DEF finishUpdateDraft, Finish, TypeOK
<1> HIDE DEF r
<1>9. /\ applications'[a] = r
      /\ \A b \in Applications : b # a => applications'[b] = applications[b]
      /\ applications' \in [Applications -> ApplicationRows \cup {NoApplication}]
  BY <1>1, <1>3, <1>5, <1>7, RowReplaced
<1>10. Exists(a) /\ Exists(a)'
  BY <1>4, <1>5, <1>9, NullAssumption DEF Exists, NullAssumption
<1>11. \A b \in Applications :
         (Exists(b) /\ State(b) = "UNDER_REVIEW")
           <=> (Exists(b) /\ State(b) = "UNDER_REVIEW")'
  BY <1>6, <1>9, <1>10 DEF Exists, State
<1>12. ReviewsMatchState'
  BY <1>1, <1>7, <1>11, ReviewsUntouched
<1> QED
  BY <1>1, <1>7, <1>8, <1>9, <1>12 DEF RowsInv, TypeOK

LEMMA SubmitKeeps ==
  ASSUME RowsInv, NEW h \in Handlers, finishSubmit(h)
  PROVE  RowsInv'
<1>1. TypeOK /\ ReviewsMatchState
  BY DEF RowsInv
<1>2. PICK a \in Applications, u \in Users, v \in LockVersions :
        /\ a = handlers[h].app
        /\ u = handlers[h].user
        /\ v = handlers[h].lock_version
  BY DEF finishSubmit, SubmitRequests
<1>3. submitApplication(a, u, v) /\ Finish(h)
  BY <1>2 DEF finishSubmit
<1>4. Exists(a) /\ State(a) = "DRAFT"
  BY <1>3 DEF submitApplication, checkApplicationState
<1>5. Advanced(a, "SUBMITTED") \in ApplicationRows
      /\ applications[a] \in ApplicationRows
  BY <1>1, <1>2, <1>3, <1>4, AdvancedType, BoundsAssumption
     DEF submitApplication, ApplicationStates, TypeOK, Exists
<1>6. Advanced(a, "SUBMITTED").current_state = "SUBMITTED"
  BY <1>5 DEF Advanced, ApplicationRows
<1>7. /\ applications' = [applications EXCEPT ![a] = Advanced(a, "SUBMITTED")]
      /\ reviews' = reviews /\ documents' = documents
  BY <1>3 DEF submitApplication
<1>8. auditLogs' \in [Applications -> Seq(AuditRows)]
  BY <1>1, <1>2, <1>3, <1>4, AuditType DEF submitApplication, ApplicationStates
<1>9. handlers' \in [Handlers -> Requests \cup {NoRequest}]
  BY <1>1, <1>3 DEF Finish, TypeOK
<1>10. /\ applications' \in [Applications -> ApplicationRows \cup {NoApplication}]
       /\ ReviewsMatchState'
  BY <1>2, <1>4, <1>5, <1>6, <1>7, TransitionKeeps
<1> QED
  BY <1>1, <1>7, <1>8, <1>9, <1>10 DEF RowsInv, TypeOK

LEMMA UploadKeeps ==
  ASSUME RowsInv, NEW h \in Handlers, finishUpload(h)
  PROVE  RowsInv'
<1>1. PICK a \in Applications, t \in DocumentTypes :
        a = handlers[h].app /\ t = handlers[h].document_type
  BY DEF finishUpload, UploadRequests
<1>2. documents[a] \in VersionCounts /\ documents[a][t] < MaxVersions
  BY <1>1 DEF finishUpload, RowsInv, TypeOK
<1>3. [documents[a] EXCEPT ![t] = @ + 1] \in VersionCounts
  BY <1>1, <1>2, BoundsAssumption DEF VersionCounts, BoundsAssumption
<1>4. documents' \in [Applications -> VersionCounts]
  BY <1>1, <1>3 DEF finishUpload, RowsInv, TypeOK
<1>5. UNCHANGED <<applications, reviews, auditLogs>>
  BY DEF finishUpload
<1>6. ReviewsMatchState'
  BY <1>5 DEF RowsInv, ReviewsMatchState, OpenReviews, Exists, State
<1>7. handlers' \in [Handlers -> Requests \cup {NoRequest}]
  BY DEF finishUpload, Finish, RowsInv, TypeOK
<1> QED
  BY <1>4, <1>5, <1>6, <1>7 DEF RowsInv, TypeOK

LEMMA AbandonKeeps ==
  ASSUME RowsInv, NEW h \in Handlers, abandon(h)
  PROVE  RowsInv'
<1>1. UNCHANGED <<applications, reviews, auditLogs, documents>>
  BY DEF abandon
<1>2. ReviewsMatchState'
  BY <1>1 DEF RowsInv, ReviewsMatchState, OpenReviews, Exists, State
<1>3. handlers' \in [Handlers -> Requests \cup {NoRequest}]
  BY DEF RowsInv, TypeOK, abandon, Finish
<1> QED
  BY <1>1, <1>2, <1>3 DEF RowsInv, TypeOK

-----------------------------------------------------------------------------
(* The requests the handlers put in flight are well formed.                *)
LEMMA BegunRequests ==
  ASSUME RowsInv, NEW h \in Handlers, NEW a \in Applications, NEW u \in Users,
         NEW v \in LockVersions,
         \/ \E body \in PatchBodies : beginUpdateDraft(h, a, u, v, body)
         \/ beginSubmit(h, a, u, v)
         \/ \E t \in DocumentTypes : beginUpload(h, a, u, t)
  PROVE  \E request \in Requests : Begin(h, request)
<1>1. ASSUME NEW body \in PatchBodies, beginUpdateDraft(h, a, u, v, body)
      PROVE  \E request \in Requests : Begin(h, request)
  <2>1. applications[a] \in ApplicationRows
    BY <1>1 DEF RowsInv, TypeOK, beginUpdateDraft, Exists
  <2>2. applications[a].fields \in Contents
    BY <2>1 DEF ApplicationRows
  <2>3. [op |-> "patch", app |-> a, fields |-> applications[a].fields,
         lock_version |-> v, body |-> body] \in Requests
    BY <2>2 DEF Requests, PatchRequests
  <2> QED
    BY <1>1, <2>3 DEF beginUpdateDraft
<1>2. ASSUME beginSubmit(h, a, u, v)
      PROVE  \E request \in Requests : Begin(h, request)
  <2>1. [op |-> "submit", app |-> a, user |-> u, lock_version |-> v] \in Requests
    BY DEF Requests, SubmitRequests
  <2> QED
    BY <1>2, <2>1 DEF beginSubmit
<1>3. ASSUME NEW t \in DocumentTypes, beginUpload(h, a, u, t)
      PROVE  \E request \in Requests : Begin(h, request)
  <2>1. [op |-> "upload", app |-> a, document_type |-> t] \in Requests
    BY DEF Requests, UploadRequests
  <2> QED
    BY <1>3, <2>1 DEF beginUpload
<1> QED
  BY <1>1, <1>2, <1>3

LEMMA RowsInvStep == RowsInv /\ [Next]_vars => RowsInv'
<1> SUFFICES ASSUME RowsInv, [Next]_vars PROVE RowsInv'
  OBVIOUS
<1>1. ASSUME NEW a \in Applications, NEW u \in Users, NEW v \in LockVersions,
             Internal(a, u, v)
      PROVE  RowsInv'
  <2>1. CASE startReview(a, u, v)
    BY <2>1, StartReviewKeeps
  <2>2. ASSUME NEW i \in DOMAIN reviews[a], NEW items \in InfoRequests,
               requestInformation(a, u, v, i, items)
        PROVE  RowsInv'
    <3>1. Exists(a)
      BY <2>2 DEF requestInformation, CompleteReview
    <3>2. buildRequestItems(a, items) \in SUBSET RequestItems
      BY <3>1, BuiltItems, RequestsAssumption, FieldsAssumption DEF RowsInv
    <3> QED
      BY <2>2, <3>2, CompleteReviewKeeps DEF requestInformation
  <2>3. ASSUME NEW i \in DOMAIN reviews[a], markReadyForDecision(a, u, v, i)
        PROVE  RowsInv'
    <3>1. {} \in SUBSET RequestItems
      OBVIOUS
    <3> QED
      BY <2>3, <3>1, CompleteReviewKeeps DEF markReadyForDecision
  <2>4. CASE approve(a, u, v)
    BY <2>4, FinalizeKeeps DEF approve, FinalStates
  <2>5. CASE reject(a, u, v)
    BY <2>5, FinalizeKeeps DEF reject, FinalStates
  <2> QED
    BY <1>1, <2>1, <2>2, <2>3, <2>4, <2>5 DEF Internal
<1>2. ASSUME NEW a \in Applications, NEW u \in Users, NEW v \in LockVersions,
             Applicant(a, u, v)
      PROVE  RowsInv'
  <2>1. ASSUME NEW i \in DOMAIN reviews[a], NEW answered \in SUBSET Questions,
               resubmitApplication(a, u, v, i, answered)
        PROVE  RowsInv'
    BY <2>1, ResubmitKeeps
  <2>2. ASSUME NEW h \in Handlers,
               \/ \E body \in PatchBodies : beginUpdateDraft(h, a, u, v, body)
               \/ beginSubmit(h, a, u, v)
        PROVE  RowsInv'
    BY <2>2, BegunRequests, BeginKeeps
  <2> QED
    BY <1>2, <2>1, <2>2 DEF Applicant
<1>3. ASSUME NEW a \in Applications, NEW u \in Users, NEW fields \in Contents,
             createApplication(a, u, fields)
      PROVE  RowsInv'
  BY <1>3, CreateKeeps
<1>4. ASSUME NEW h \in Handlers, NEW a \in Applications, NEW u \in Users,
             NEW t \in DocumentTypes, beginUpload(h, a, u, t)
      PROVE  RowsInv'
  <2>1. [op |-> "upload", app |-> a, document_type |-> t] \in Requests
    BY DEF Requests, UploadRequests
  <2> QED
    BY <1>4, <2>1, BeginKeeps DEF beginUpload
<1>5. ASSUME NEW h \in Handlers,
             finishUpdateDraft(h) \/ finishSubmit(h) \/ finishUpload(h) \/ abandon(h)
      PROVE  RowsInv'
  BY <1>5, PatchKeeps, SubmitKeeps, UploadKeeps, AbandonKeeps
<1>6. CASE UNCHANGED vars
  BY <1>6 DEF vars, RowsInv, TypeOK, ReviewsMatchState, OpenReviews, Exists, State
<1> QED
  BY <1>1, <1>2, <1>3, <1>4, <1>5, <1>6 DEF Next

(* Every reachable state is well typed: in particular lock_version stays   *)
(* within its bound and the next cycle number is always a number.          *)
THEOREM TypeCorrect == Spec => []TypeOK
<1>1. Spec => []RowsInv
  BY RowsInvInit, RowsInvStep, PTL DEF Spec
<1>2. RowsInv => TypeOK
  BY DEF RowsInv
<1> QED
  BY <1>1, <1>2, PTL

(* At every moment the review rows match the state: an application has an  *)
(* open review exactly while it is UNDER_REVIEW, and then exactly one, the *)
(* newest (workflow.service.ts, startReview and the two completions).      *)
THEOREM ReviewBookkeeping == Spec => []ReviewsMatchState
<1>1. Spec => []RowsInv
  BY RowsInvInit, RowsInvStep, PTL DEF Spec
<1>2. RowsInv => ReviewsMatchState
  BY DEF RowsInv
<1> QED
  BY <1>1, <1>2, PTL

-----------------------------------------------------------------------------
(* The five kinds of step, as far as states, reviewers and deciders go.    *)

SameRow(b) ==
  /\ Exists(b)' <=> Exists(b)
  /\ Exists(b) =>
       /\ State(b)' = State(b)
       /\ applications'[b].reviewed_by_id = applications[b].reviewed_by_id
       /\ applications'[b].decisioned_by_id = applications[b].decisioned_by_id

SameReviews(b) ==
  /\ DOMAIN reviews'[b] = DOMAIN reviews[b]
  /\ Len(reviews'[b]) = Len(reviews[b])
  /\ \A j \in DOMAIN reviews[b] :
       /\ reviews'[b][j].completed_at = reviews[b][j].completed_at
       /\ reviews'[b][j].reviewer_id = reviews[b][j].reviewer_id

OthersSame(a) ==
  \A b \in Applications : b # a => SameRow(b) /\ SameReviews(b)

Silent == \A b \in Applications : SameRow(b) /\ SameReviews(b)

SameColumns(a) ==
  /\ applications'[a].reviewed_by_id = applications[a].reviewed_by_id
  /\ applications'[a].decisioned_by_id = applications[a].decisioned_by_id

Created(a) ==
  /\ OthersSame(a) /\ SameReviews(a)
  /\ ~Exists(a) /\ Exists(a)'
  /\ State(a)' = "DRAFT"
  /\ applications'[a].reviewed_by_id = NoUser
  /\ applications'[a].decisioned_by_id = NoUser

HandedIn(a) ==
  /\ OthersSame(a) /\ SameReviews(a)
  /\ Exists(a) /\ Exists(a)'
  /\ \/ State(a) = "DRAFT" /\ State(a)' = "SUBMITTED"
     \/ State(a) = "INFO_REQUESTED" /\ State(a)' = "RESUBMITTED"
  /\ SameColumns(a)

TakenUp(a, u) ==
  LET n == Len(reviews[a]) IN
    /\ OthersSame(a)
    /\ Exists(a) /\ Exists(a)'
    /\ State(a) \in {"SUBMITTED", "RESUBMITTED"} /\ State(a)' = "UNDER_REVIEW"
    /\ SameColumns(a)
    /\ n \in Nat
    /\ DOMAIN reviews[a] = 1 .. n
    /\ DOMAIN reviews'[a] = 1 .. n + 1
    /\ Len(reviews'[a]) = n + 1
    /\ reviews'[a][n + 1].completed_at = 0
    /\ reviews'[a][n + 1].reviewer_id = u
    /\ \A j \in 1 .. n : reviews'[a][j] = reviews[a][j]

Closed(a, u) ==
  LET n == Len(reviews[a]) IN
    /\ OthersSame(a)
    /\ Exists(a) /\ Exists(a)'
    /\ State(a) = "UNDER_REVIEW"
    /\ State(a)' \in {"INFO_REQUESTED", "READY_FOR_DECISION"}
    /\ applications'[a].reviewed_by_id = u
    /\ applications'[a].decisioned_by_id = applications[a].decisioned_by_id
    /\ DOMAIN reviews'[a] = DOMAIN reviews[a]
    /\ Len(reviews'[a]) = n
    /\ n \in DOMAIN reviews[a]
    /\ reviews[a][n].reviewer_id = u
    /\ reviews'[a][n].reviewer_id = u
    /\ reviews'[a][n].completed_at # 0
    /\ \A j \in DOMAIN reviews[a] : j # n => reviews'[a][j] = reviews[a][j]

Decided(a, u) ==
  /\ OthersSame(a) /\ SameReviews(a)
  /\ Exists(a) /\ Exists(a)'
  /\ State(a) = "READY_FOR_DECISION" /\ State(a)' \in FinalStates
  /\ "APPROVER" \in RolesOf[u]
  /\ applications[a].reviewed_by_id \notin {NoUser, u}
  /\ applications'[a].reviewed_by_id = applications[a].reviewed_by_id
  /\ applications'[a].decisioned_by_id = u

LEMMA OtherApplications ==
  ASSUME TypeOK, NEW a \in Applications, NEW r,
         applications' = [applications EXCEPT ![a] = r],
         \A b \in Applications : b # a => reviews'[b] = reviews[b]
  PROVE  OthersSame(a)
  BY DEF TypeOK, OthersSame, SameRow, SameReviews, Exists, State

LEMMA SilentStep ==
  ASSUME UNCHANGED <<applications, reviews>>
  PROVE  Silent
  BY DEF Silent, SameRow, SameReviews, Exists, State

LEMMA StartReviewStep ==
  ASSUME RowsInv, NEW a \in Applications, NEW u \in Users, NEW v,
         startReview(a, u, v)
  PROVE  TakenUp(a, u)
<1>1. TypeOK /\ ReviewsMatchState
  BY DEF RowsInv
<1>2. /\ applications' =
           [applications EXCEPT ![a] = Advanced(a, "UNDER_REVIEW")]
      /\ Advanced(a, "UNDER_REVIEW") \in ApplicationRows
  BY <1>1, StartReviewEffect, BoundsAssumption
<1>3. PICK row \in ReviewRows :
        /\ reviews' = [reviews EXCEPT ![a] = Append(reviews[a], row)]
        /\ row.reviewer_id = u
        /\ row.completed_at = 0
  BY <1>1, StartReviewEffect, BoundsAssumption
<1>4. Exists(a) /\ State(a) \in {"SUBMITTED", "RESUBMITTED"}
  BY DEF startReview, checkApplicationState
<1>5. applications[a] \in ApplicationRows
  BY <1>1, <1>4 DEF TypeOK, Exists
<1>6. applications'[a] = Advanced(a, "UNDER_REVIEW")
  BY <1>1, <1>2, RowReplaced
<1>7. Exists(a)' /\ State(a)' = "UNDER_REVIEW" /\ SameColumns(a)
  <2>1. /\ Advanced(a, "UNDER_REVIEW").current_state = "UNDER_REVIEW"
        /\ Advanced(a, "UNDER_REVIEW").reviewed_by_id =
             applications[a].reviewed_by_id
        /\ Advanced(a, "UNDER_REVIEW").decisioned_by_id =
             applications[a].decisioned_by_id
    BY <1>5 DEF Advanced, ApplicationRows
  <2> QED
    BY <1>2, <1>6, <2>1, NullAssumption
       DEF NullAssumption, Exists, State, SameColumns
<1>8. /\ reviews[a] \in Seq(ReviewRows)
      /\ reviews'[a] = Append(reviews[a], row)
      /\ \A b \in Applications : b # a => reviews'[b] = reviews[b]
  BY <1>1, <1>3 DEF TypeOK
<1>9. OthersSame(a)
  BY <1>1, <1>2, <1>8, OtherApplications
<1> QED
  BY <1>3, <1>4, <1>7, <1>8, <1>9, AppendRow, LenProperties DEF TakenUp

LEMMA CompleteReviewStep ==
  ASSUME RowsInv, NEW a \in Applications, NEW u \in Users, NEW v,
         NEW i \in DOMAIN reviews[a],
         NEW to \in {"INFO_REQUESTED", "READY_FOR_DECISION"},
         NEW action \in {"MORE_INFO_REQUESTED",
                         "APPLICATION_MARKED_AS_READY_FOR_DECISION"},
         NEW items \in SUBSET RequestItems,
         CompleteReview(a, u, v, i, to, action, items)
  PROVE  Closed(a, u)
<1>1. TypeOK /\ ReviewsMatchState
  BY DEF RowsInv
<1>2. ReviewClosed(a, u, i, to)
  BY <1>1, CompleteReviewEffect, BoundsAssumption
<1>3. PICK r \in ApplicationRows :
        /\ applications' = [applications EXCEPT ![a] = r]
        /\ r.current_state = to
        /\ r.reviewed_by_id = u
        /\ r.decisioned_by_id = applications[a].decisioned_by_id
  BY <1>2 DEF ReviewClosed
<1>4. PICK row \in ReviewRows :
        /\ reviews' = [reviews EXCEPT ![a] = [reviews[a] EXCEPT ![i] = row]]
        /\ row.reviewer_id = u
        /\ row.completed_at = Len(auditLogs[a]) + 1
  BY <1>2 DEF ReviewClosed
<1>5. reviews[a] \in Seq(ReviewRows) /\ Len(auditLogs[a]) \in Nat
  BY <1>1, LenProperties DEF TypeOK
<1>6. /\ reviews'[a] = [reviews[a] EXCEPT ![i] = row]
      /\ \A b \in Applications : b # a => reviews'[b] = reviews[b]
  BY <1>1, <1>4 DEF TypeOK
<1>7. OthersSame(a)
  BY <1>1, <1>3, <1>6, OtherApplications
<1>8. applications'[a] = r
  BY <1>1, <1>3, RowReplaced
<1>9. /\ Exists(a) /\ Exists(a)'
      /\ State(a) = "UNDER_REVIEW" /\ State(a)' = to
      /\ i = Len(reviews[a]) /\ reviews[a][i].reviewer_id = u
  BY <1>2, <1>3, <1>8, NullAssumption
     DEF NullAssumption, ReviewClosed, Exists, State
<1>10. /\ DOMAIN reviews'[a] = DOMAIN reviews[a]
       /\ Len(reviews'[a]) = Len(reviews[a])
       /\ reviews'[a][i] = row
       /\ \A j \in DOMAIN reviews[a] : j # i => reviews'[a][j] = reviews[a][j]
  BY <1>5, <1>6, ReplaceRow
<1>11. row.completed_at # 0
  BY <1>4, <1>5
<1> QED
  BY <1>3, <1>4, <1>7, <1>8, <1>9, <1>10, <1>11 DEF Closed

(* Advancing the row of a to another state keeps reviewer and decider.     *)
LEMMA AdvancedStep ==
  ASSUME TypeOK, NEW a \in Applications, NEW to \in ApplicationStates, Exists(a),
         Advanced(a, to) \in ApplicationRows,
         applications' = [applications EXCEPT ![a] = Advanced(a, to)]
  PROVE  Exists(a)' /\ State(a)' = to /\ SameColumns(a)
<1>1. applications[a] \in ApplicationRows
  BY DEF TypeOK, Exists
<1>2. /\ Advanced(a, to).current_state = to
      /\ Advanced(a, to).reviewed_by_id = applications[a].reviewed_by_id
      /\ Advanced(a, to).decisioned_by_id = applications[a].decisioned_by_id
  BY <1>1 DEF Advanced, ApplicationRows
<1>3. applications'[a] = Advanced(a, to)
  BY RowReplaced
<1> QED
  BY <1>2, <1>3, NullAssumption DEF NullAssumption, Exists, State, SameColumns

LEMMA ResubmitStep ==
  ASSUME RowsInv, NEW a \in Applications, NEW u \in Users, NEW v,
         NEW i \in DOMAIN reviews[a], NEW answered,
         resubmitApplication(a, u, v, i, answered)
  PROVE  HandedIn(a)
<1> DEFINE old == reviews[a][i]
           row == [old EXCEPT !.responded = TRUE]
<1>1. TypeOK
  BY DEF RowsInv
<1>2. Exists(a) /\ State(a) = "INFO_REQUESTED"
  BY DEF resubmitApplication, checkApplicationState
<1>3. Advanced(a, "RESUBMITTED") \in ApplicationRows
  BY <1>1, <1>2, AdvancedType, BoundsAssumption
     DEF resubmitApplication, ApplicationStates
<1>4. applications' = [applications EXCEPT ![a] = Advanced(a, "RESUBMITTED")]
  BY DEF resubmitApplication
<1>5. Exists(a)' /\ State(a)' = "RESUBMITTED" /\ SameColumns(a)
  BY <1>1, <1>2, <1>3, <1>4, AdvancedStep DEF ApplicationStates
<1>6. reviews[a] \in Seq(ReviewRows) /\ old \in ReviewRows
  BY <1>1, LenProperties DEF TypeOK
<1>7. reviews' = [reviews EXCEPT ![a] = [reviews[a] EXCEPT ![i] = row]]
  BY <1>1 DEF resubmitApplication, TypeOK
<1> HIDE DEF old
<1>8. /\ row \in ReviewRows
      /\ row.completed_at = old.completed_at
      /\ row.reviewer_id = old.reviewer_id
  BY <1>6 DEF ReviewRows
<1> HIDE DEF row
<1>9. /\ reviews'[a] = [reviews[a] EXCEPT ![i] = row]
      /\ \A b \in Applications : b # a => reviews'[b] = reviews[b]
  BY <1>1, <1>7 DEF TypeOK
<1>10. OthersSame(a)
  BY <1>1, <1>4, <1>9, OtherApplications
<1>11. /\ DOMAIN reviews'[a] = DOMAIN reviews[a]
       /\ Len(reviews'[a]) = Len(reviews[a])
       /\ reviews'[a][i] = row
       /\ \A j \in DOMAIN reviews[a] : j # i => reviews'[a][j] = reviews[a][j]
  BY <1>6, <1>8, <1>9, ReplaceRow
<1>12. SameReviews(a)
  BY <1>8, <1>11 DEF SameReviews, old
<1> QED
  BY <1>2, <1>5, <1>10, <1>12 DEF HandedIn

LEMMA SubmitStep ==
  ASSUME RowsInv, NEW h \in Handlers, finishSubmit(h)
  PROVE  \E a \in Applications : HandedIn(a)
<1>1. TypeOK
  BY DEF RowsInv
<1>2. PICK a \in Applications, u \in Users, v \in LockVersions :
        /\ a = handlers[h].app
        /\ u = handlers[h].user
        /\ v = handlers[h].lock_version
  BY DEF finishSubmit, SubmitRequests
<1>3. submitApplication(a, u, v)
  BY <1>2 DEF finishSubmit
<1>4. Exists(a) /\ State(a) = "DRAFT"
  BY <1>3 DEF submitApplication, checkApplicationState
<1>5. Advanced(a, "SUBMITTED") \in ApplicationRows
  BY <1>1, <1>3, <1>4, AdvancedType, BoundsAssumption
     DEF submitApplication, ApplicationStates
<1>6. /\ applications' = [applications EXCEPT ![a] = Advanced(a, "SUBMITTED")]
      /\ reviews' = reviews
  BY <1>3 DEF submitApplication
<1>7. Exists(a)' /\ State(a)' = "SUBMITTED" /\ SameColumns(a)
  BY <1>1, <1>4, <1>5, <1>6, AdvancedStep DEF ApplicationStates
<1>8. OthersSame(a)
  BY <1>1, <1>6, OtherApplications
<1>9. SameReviews(a)
  BY <1>6 DEF SameReviews
<1> QED
  BY <1>4, <1>7, <1>8, <1>9 DEF HandedIn

LEMMA FinalizeStep ==
  ASSUME RowsInv, NEW a \in Applications, NEW u \in Users, NEW v,
         NEW to \in FinalStates,
         NEW action \in {"APPLICATION_APPROVED", "APPLICATION_REJECTED"},
         finalizeDecision(a, u, v, to, action)
  PROVE  Decided(a, u)
<1> DEFINE r == [Advanced(a, to) EXCEPT !.decisioned_by_id = u]
<1>1. TypeOK
  BY DEF RowsInv
<1>2. Exists(a) /\ State(a) = "READY_FOR_DECISION"
  BY DEF finalizeDecision, checkApplicationState
<1>3. Advanced(a, to) \in ApplicationRows /\ applications[a] \in ApplicationRows
  BY <1>1, <1>2, AdvancedType, BoundsAssumption
     DEF finalizeDecision, ApplicationStates, TypeOK, Exists
<1>4. /\ Advanced(a, to).current_state = to
      /\ Advanced(a, to).reviewed_by_id = applications[a].reviewed_by_id
  BY <1>3 DEF Advanced, ApplicationRows
<1>5. /\ r \in ApplicationRows
      /\ r.current_state = to
      /\ r.reviewed_by_id = applications[a].reviewed_by_id
      /\ r.decisioned_by_id = u
  BY <1>3, <1>4 DEF ApplicationRows
<1>6. applications' = [applications EXCEPT ![a] = r] /\ reviews' = reviews
  BY DEF finalizeDecision
<1> HIDE DEF r
<1>7. applications'[a] = r
  BY <1>1, <1>6, RowReplaced
<1>8. OthersSame(a) /\ SameReviews(a)
  BY <1>1, <1>6, OtherApplications DEF SameReviews
<1>9. /\ "APPROVER" \in RolesOf[u]
      /\ applications[a].reviewed_by_id \notin {NoUser, u}
  BY DEF finalizeDecision, checkUserRole
<1> QED
  BY <1>2, <1>5, <1>7, <1>8, <1>9, NullAssumption
     DEF NullAssumption, Decided, Exists, State

LEMMA CreateStep ==
  ASSUME RowsInv, NEW a \in Applications, NEW u \in Users,
         NEW fields \in Contents, createApplication(a, u, fields)
  PROVE  Created(a)
<1> DEFINE r == [applicant_id |-> u,
                 current_state |-> "DRAFT",
                 fields |-> fields,
                 lock_version |-> 0,
                 reviewed_by_id |-> NoUser,
                 decisioned_by_id |-> NoUser]
<1>1. TypeOK
  BY DEF RowsInv
<1>2. r \in ApplicationRows
  BY BoundsAssumption
     DEF ApplicationRows, ApplicationStates, LockVersions, BoundsAssumption
<1>3. /\ r.current_state = "DRAFT"
      /\ r.reviewed_by_id = NoUser
      /\ r.decisioned_by_id = NoUser
  OBVIOUS
<1>4. applications' = [applications EXCEPT ![a] = r] /\ reviews' = reviews
  BY DEF createApplication
<1> HIDE DEF r
<1>5. applications'[a] = r
  BY <1>1, <1>4, RowReplaced
<1>6. OthersSame(a) /\ SameReviews(a)
  BY <1>1, <1>4, OtherApplications DEF SameReviews
<1>7. ~Exists(a)
  BY DEF createApplication
<1> QED
  BY <1>2, <1>3, <1>5, <1>6, <1>7, NullAssumption
     DEF NullAssumption, Created, Exists, State

LEMMA PatchStep ==
  ASSUME RowsInv, NEW h \in Handlers, finishUpdateDraft(h)
  PROVE  Silent
<1>1. TypeOK
  BY DEF RowsInv
<1>2. handlers[h] \in PatchRequests /\ handlers[h].lock_version < MaxLockVersion
  BY DEF finishUpdateDraft
<1>3. PICK a \in Applications : a = handlers[h].app
  BY <1>2 DEF PatchRequests
<1> DEFINE r == PatchedRow(applications[a], handlers[h])
<1>4. applications[a] \in ApplicationRows
  BY <1>1, <1>3 DEF TypeOK, finishUpdateDraft, Exists
<1>5. r \in ApplicationRows
  BY <1>2, <1>4, PatchedRowType, BoundsAssumption
<1>6. /\ r.current_state = applications[a].current_state
      /\ r.reviewed_by_id = applications[a].reviewed_by_id
      /\ r.decisioned_by_id = applications[a].decisioned_by_id
  BY <1>4 DEF PatchedRow, ApplicationRows
<1>7. applications' = [applications EXCEPT ![a] = r] /\ reviews' = reviews
  BY <1>1, <1>3 DEF finishUpdateDraft, TypeOK
<1> HIDE DEF r
<1>8. applications'[a] = r /\ OthersSame(a)
  BY <1>1, <1>7, RowReplaced, OtherApplications
<1>9. SameRow(a)
  BY <1>4, <1>5, <1>6, <1>8, NullAssumption
     DEF NullAssumption, SameRow, Exists, State
<1>10. SameReviews(a)
  BY <1>7 DEF SameReviews
<1> QED
  BY <1>8, <1>9, <1>10 DEF Silent, OthersSame

(* Every step is of one of the five kinds.                                 *)
LEMMA StepKinds ==
  ASSUME RowsInv, [Next]_vars
  PROVE  \/ Silent
         \/ \E a \in Applications : Created(a) \/ HandedIn(a)
         \/ \E a \in Applications, u \in Users :
              TakenUp(a, u) \/ Closed(a, u) \/ Decided(a, u)
<1> DEFINE Goal == \/ Silent
                   \/ \E a \in Applications : Created(a) \/ HandedIn(a)
                   \/ \E a \in Applications, u \in Users :
                        TakenUp(a, u) \/ Closed(a, u) \/ Decided(a, u)
<1>1. ASSUME NEW a \in Applications, NEW u \in Users, NEW v \in LockVersions,
             Internal(a, u, v)
      PROVE  Goal
  <2>1. CASE startReview(a, u, v)
    BY <2>1, StartReviewStep
  <2>2. ASSUME NEW i \in DOMAIN reviews[a], NEW items \in InfoRequests,
               requestInformation(a, u, v, i, items)
        PROVE  Goal
    <3>1. Exists(a)
      BY <2>2 DEF requestInformation, CompleteReview
    <3>2. buildRequestItems(a, items) \in SUBSET RequestItems
      BY <3>1, BuiltItems, RequestsAssumption, FieldsAssumption DEF RowsInv
    <3>3. Closed(a, u)
      BY <2>2, <3>2, CompleteReviewStep DEF requestInformation
    <3> QED
      BY <3>3
  <2>3. ASSUME NEW i \in DOMAIN reviews[a], markReadyForDecision(a, u, v, i)
        PROVE  Goal
    <3>1. {} \in SUBSET RequestItems
      OBVIOUS
    <3>2. Closed(a, u)
      BY <2>3, <3>1, CompleteReviewStep DEF markReadyForDecision
    <3> QED
      BY <3>2
  <2>4. CASE approve(a, u, v)
    BY <2>4, FinalizeStep DEF approve, FinalStates
  <2>5. CASE reject(a, u, v)
    BY <2>5, FinalizeStep DEF reject, FinalStates
  <2> QED
    BY <1>1, <2>1, <2>2, <2>3, <2>4, <2>5 DEF Internal
<1>2. ASSUME NEW a \in Applications, NEW u \in Users, NEW v \in LockVersions,
             Applicant(a, u, v)
      PROVE  Goal
  <2>1. ASSUME NEW i \in DOMAIN reviews[a], NEW answered \in SUBSET Questions,
               resubmitApplication(a, u, v, i, answered)
        PROVE  Goal
    BY <2>1, ResubmitStep
  <2>2. ASSUME NEW h \in Handlers,
               \/ \E body \in PatchBodies : beginUpdateDraft(h, a, u, v, body)
               \/ beginSubmit(h, a, u, v)
        PROVE  Goal
    BY <2>2, SilentStep DEF beginUpdateDraft, beginSubmit, Begin
  <2> QED
    BY <1>2, <2>1, <2>2 DEF Applicant
<1>3. ASSUME NEW a \in Applications, NEW u \in Users, NEW fields \in Contents,
             createApplication(a, u, fields)
      PROVE  Goal
  BY <1>3, CreateStep
<1>4. ASSUME NEW h \in Handlers, NEW a \in Applications, NEW u \in Users,
             NEW t \in DocumentTypes, beginUpload(h, a, u, t)
      PROVE  Goal
  BY <1>4, SilentStep DEF beginUpload, Begin
<1>5. ASSUME NEW h \in Handlers,
             finishUpdateDraft(h) \/ finishSubmit(h) \/ finishUpload(h) \/ abandon(h)
      PROVE  Goal
  <2>1. CASE finishUpdateDraft(h)
    BY <2>1, PatchStep
  <2>2. CASE finishSubmit(h)
    BY <2>2, SubmitStep
  <2>3. CASE finishUpload(h) \/ abandon(h)
    BY <2>3, SilentStep DEF finishUpload, abandon
  <2> QED
    BY <1>5, <2>1, <2>2, <2>3
<1>6. CASE UNCHANGED vars
  BY <1>6, SilentStep DEF vars
<1> QED
  BY <1>1, <1>2, <1>3, <1>4, <1>5, <1>6 DEF Next

-----------------------------------------------------------------------------
(* Separation of duties                                                    *)

(* DecisionIsIndependent at one application.                               *)
Independent(a) ==
  /\ CompletedReviews(a) = {} <=> applications[a].reviewed_by_id = NoUser
  /\ \A i \in CompletedReviews(a) :
       (\A j \in CompletedReviews(a) : j <= i) =>
         applications[a].reviewed_by_id = reviews[a][i].reviewer_id
  /\ State(a) \in FinalStates <=> applications[a].decisioned_by_id # NoUser
  /\ State(a) \in FinalStates =>
       /\ "APPROVER" \in RolesOf[applications[a].decisioned_by_id]
       /\ applications[a].decisioned_by_id # applications[a].reviewed_by_id

(* No review refers to an application that does not exist.                 *)
ReviewsHaveApplication ==
  \A a \in Applications : ~Exists(a) => CompletedReviews(a) = {}

DutiesInv ==
  /\ RowsInv
  /\ ReviewsHaveApplication
  /\ \A a \in Applications : Exists(a) => Independent(a)

LEMMA DutiesInvInit == Init => DutiesInv
<1> SUFFICES ASSUME Init PROVE DutiesInv
  OBVIOUS
<1>1. \A a \in Applications : ~Exists(a) /\ reviews[a] = <<>>
  BY DEF Init, Exists
<1>2. \A a \in Applications : CompletedReviews(a) = {}
  BY <1>1 DEF CompletedReviews
<1> QED
  BY <1>1, <1>2, RowsInvInit DEF DutiesInv, ReviewsHaveApplication

LEMMA SameReviewsCompleted ==
  ASSUME NEW a \in Applications, SameReviews(a)
  PROVE  /\ CompletedReviews(a)' = CompletedReviews(a)
         /\ \A i \in CompletedReviews(a) :
              reviews'[a][i].reviewer_id = reviews[a][i].reviewer_id
  BY DEF SameReviews, CompletedReviews

LEMMA IndependentKept ==
  ASSUME NEW a \in Applications, Exists(a), Independent(a),
         SameRow(a), SameReviews(a)
  PROVE  Independent(a)'
  BY SameReviewsCompleted DEF Independent, SameRow

LEMMA DutiesInvStep == DutiesInv /\ [Next]_vars => DutiesInv'
<1> SUFFICES ASSUME DutiesInv, [Next]_vars PROVE DutiesInv'
  OBVIOUS
<1>1. RowsInv /\ RowsInv'
  BY RowsInvStep DEF DutiesInv
<1>2. TypeOK /\ TypeOK' /\ ReviewsMatchState
  BY <1>1 DEF RowsInv
<1> DEFINE Ok(b) == /\ ~Exists(b)' => CompletedReviews(b)' = {}
                    /\ Exists(b)' => Independent(b)'
<1>3. \A b \in Applications :
        /\ ~Exists(b) => CompletedReviews(b) = {}
        /\ Exists(b) => Independent(b)
  BY DEF DutiesInv, ReviewsHaveApplication
<1>4. ASSUME NEW b \in Applications, SameRow(b), SameReviews(b)
      PROVE  Ok(b)
  <2>1. CASE Exists(b)
    BY <1>3, <1>4, <2>1, IndependentKept DEF SameRow
  <2>2. CASE ~Exists(b)
    BY <1>3, <1>4, <2>2, SameReviewsCompleted DEF SameRow
  <2> QED
    BY <2>1, <2>2
<1>5. \A b \in Applications : Ok(b)
  <2>1. CASE Silent
    BY <1>4, <2>1 DEF Silent
  <2>2. ASSUME NEW a \in Applications, Created(a)
        PROVE  \A b \in Applications : Ok(b)
    <3>1. Independent(a)'
      BY <1>3, <2>2, SameReviewsCompleted
         DEF Created, Independent, FinalStates
    <3> QED
      BY <1>4, <2>2, <3>1 DEF Created, OthersSame
  <2>3. ASSUME NEW a \in Applications, HandedIn(a)
        PROVE  \A b \in Applications : Ok(b)
    <3>1. Independent(a)'
      BY <1>3, <2>3, SameReviewsCompleted
         DEF HandedIn, SameColumns, Independent, FinalStates
    <3> QED
      BY <1>4, <2>3, <3>1 DEF HandedIn, OthersSame
  <2>4. ASSUME NEW a \in Applications, NEW u \in Users, TakenUp(a, u)
        PROVE  \A b \in Applications : Ok(b)
    <3>1. CompletedReviews(a)' = CompletedReviews(a)
      BY <2>4 DEF TakenUp, CompletedReviews
    <3>2. \A i \in CompletedReviews(a) :
            reviews'[a][i].reviewer_id = reviews[a][i].reviewer_id
      BY <2>4 DEF TakenUp, CompletedReviews
    <3>3. Independent(a)'
      BY <1>3, <2>4, <3>1, <3>2
         DEF TakenUp, SameColumns, Independent, FinalStates
    <3> QED
      BY <1>4, <2>4, <3>3 DEF TakenUp, OthersSame
  <2>5. ASSUME NEW a \in Applications, NEW u \in Users, Closed(a, u)
        PROVE  \A b \in Applications : Ok(b)
    <3> DEFINE n == Len(reviews[a])
    <3>1. n \in Nat /\ DOMAIN reviews[a] = 1 .. n
      BY <1>2, LenProperties DEF TypeOK
    <3>2. CompletedReviews(a)' = CompletedReviews(a) \cup {n}
      BY <2>5 DEF Closed, CompletedReviews
    <3>3. ASSUME NEW i \in CompletedReviews(a)',
                 \A j \in CompletedReviews(a)' : j <= i
          PROVE  i = n
      <4>1. i \in 1 .. n
        BY <2>5, <3>1, <3>2 DEF Closed, CompletedReviews
      <4>2. n <= i
        BY <3>2, <3>3
      <4> QED
        BY <3>1, <4>1, <4>2
    <3>4. u # NoUser
      BY NullAssumption DEF NullAssumption
    <3>5. Independent(a)'
      BY <1>3, <2>5, <3>2, <3>3, <3>4 DEF Closed, Independent, FinalStates
    <3> QED
      BY <1>4, <2>5, <3>5 DEF Closed, OthersSame
  <2>6. ASSUME NEW a \in Applications, NEW u \in Users, Decided(a, u)
        PROVE  \A b \in Applications : Ok(b)
    <3>1. u # NoUser
      BY NullAssumption DEF NullAssumption
    <3>2. Independent(a)'
      BY <1>3, <2>6, <3>1, SameReviewsCompleted DEF Decided, Independent
    <3> QED
      BY <1>4, <2>6, <3>2 DEF Decided, OthersSame
  <2> QED
    BY <1>1, <2>1, <2>2, <2>3, <2>4, <2>5, <2>6, StepKinds
<1> QED
  BY <1>1, <1>5 DEF DutiesInv, ReviewsHaveApplication

LEMMA DutiesInvAlways == Spec => []DutiesInv
  BY DutiesInvInit, DutiesInvStep, PTL DEF Spec

(* The four-eyes rule of finalizeDecision, with the database's three       *)
(* constraints on decision columns: whoever decided is an approver other   *)
(* than the recorded reviewer, and the recorded reviewer is the one who    *)
(* completed the newest completed cycle, PATCHes in flight notwithstanding.*)
THEOREM SeparationOfDuties == Spec => []DecisionIsIndependent
<1>1. DutiesInv => DecisionIsIndependent
  BY DEF DutiesInv, Independent, DecisionIsIndependent, State
<1> QED
  BY <1>1, DutiesInvAlways, PTL

-----------------------------------------------------------------------------
(* Implementation of the life cycle                                        *)

LEMMA SameExaminer ==
  ASSUME TypeOK, TypeOK', NEW b \in Applications, SameReviews(b)
  PROVE  Examiner(b)' = Examiner(b)
<1>1. /\ Len(reviews[b]) \in Nat
      /\ DOMAIN reviews[b] = 1 .. Len(reviews[b])
      /\ reviews[b] # <<>> => Len(reviews[b]) \in Nat \ {0}
  BY LenProperties, EmptySeq DEF TypeOK
<1>2. /\ Len(reviews'[b]) \in Nat
      /\ reviews'[b] # <<>> => Len(reviews'[b]) \in Nat \ {0}
  BY LenProperties, EmptySeq DEF TypeOK
<1>3. CASE reviews[b] = <<>>
  <2>1. reviews'[b] = <<>>
    BY <1>2, <1>3, EmptySeq DEF SameReviews
  <2> QED
    BY <1>3, <2>1 DEF Examiner
<1>4. CASE reviews[b] # <<>>
  <2>1. Len(reviews[b]) \in DOMAIN reviews[b]
    BY <1>1, <1>4
  <2>2. reviews'[b] # <<>>
    BY <1>1, <1>4, EmptySeq DEF SameReviews
  <2> QED
    BY <1>4, <2>1, <2>2 DEF Examiner, SameReviews
<1> QED
  BY <1>3, <1>4

(* The life cycle sees no change of application b.                         *)
SameView(b) ==
  /\ Stage(b)' = Stage(b)
  /\ Examiner(b)' = Examiner(b)
  /\ Signer(b)' = Signer(b)
  /\ Decider(b)' = Decider(b)

LEMMA ViewKept ==
  ASSUME TypeOK, TypeOK', NEW b \in Applications, SameRow(b), SameReviews(b)
  PROVE  SameView(b)
<1>1. /\ Stage(b)' = Stage(b)
      /\ Signer(b)' = Signer(b)
      /\ Decider(b)' = Decider(b)
  BY DEF SameRow, Stage, Signer, Decider
<1>2. Examiner(b)' = Examiner(b)
  BY SameExaminer
<1> QED
  BY <1>1, <1>2 DEF SameView

(* The views as functions: at most the entry of a changes.                 *)
LEMMA ViewsOfOne ==
  ASSUME TypeOK, TypeOK', NEW a \in Applications, OthersSame(a)
  PROVE  /\ Lifecycle!vars' =
              <<[[b \in Applications |-> Stage(b)] EXCEPT ![a] = Stage(a)'],
                [[b \in Applications |-> Examiner(b)] EXCEPT ![a] = Examiner(a)'],
                [[b \in Applications |-> Signer(b)] EXCEPT ![a] = Signer(a)'],
                [[b \in Applications |-> Decider(b)] EXCEPT ![a] = Decider(a)']>>
<1>1. \A b \in Applications : b # a => SameView(b)
  BY ViewKept DEF OthersSame
<1>2. [b \in Applications |-> Stage(b)]' =
        [[b \in Applications |-> Stage(b)] EXCEPT ![a] = Stage(a)']
  BY <1>1 DEF SameView
<1>3. [b \in Applications |-> Examiner(b)]' =
        [[b \in Applications |-> Examiner(b)] EXCEPT ![a] = Examiner(a)']
  BY <1>1 DEF SameView
<1>4. [b \in Applications |-> Signer(b)]' =
        [[b \in Applications |-> Signer(b)] EXCEPT ![a] = Signer(a)']
  BY <1>1 DEF SameView
<1>5. [b \in Applications |-> Decider(b)]' =
        [[b \in Applications |-> Decider(b)] EXCEPT ![a] = Decider(a)']
  BY <1>1 DEF SameView
<1> QED
  BY <1>2, <1>3, <1>4, <1>5 DEF Lifecycle!vars

(* The recorded reviewer of an application that awaits its decision is the *)
(* user of its newest review.                                              *)
LEMMA ReviewerIsExaminer ==
  ASSUME DutiesInv, NEW a \in Applications, Exists(a),
         State(a) = "READY_FOR_DECISION",
         applications[a].reviewed_by_id # NoUser
  PROVE  Examiner(a) = applications[a].reviewed_by_id
<1> DEFINE n == Len(reviews[a])
<1>1. Independent(a) /\ TypeOK /\ ReviewsMatchState
  BY DEF DutiesInv, RowsInv
<1>2. n \in Nat /\ DOMAIN reviews[a] = 1 .. n
  BY <1>1, LenProperties DEF TypeOK
<1>3. CompletedReviews(a) # {}
  BY <1>1 DEF Independent
<1>4. OpenReviews(a) = {}
  BY <1>1 DEF ReviewsMatchState
<1>5. CompletedReviews(a) = 1 .. n
  BY <1>2, <1>4 DEF CompletedReviews, OpenReviews
<1>6. n \in 1 .. n /\ \A j \in 1 .. n : j <= n
  BY <1>2, <1>3, <1>5
<1>7. applications[a].reviewed_by_id = reviews[a][n].reviewer_id
  BY <1>1, <1>5, <1>6 DEF Independent
<1>8. reviews[a] # <<>>
  BY <1>6, EmptySeq
<1> QED
  BY <1>7, <1>8 DEF Examiner

(* A step of the first kind changes nothing the life cycle sees.           *)
LEMMA SilentView ==
  ASSUME TypeOK, TypeOK', Silent
  PROVE  UNCHANGED Lifecycle!vars
<1>1. \A b \in Applications : SameView(b)
  BY ViewKept DEF Silent
<1> QED
  BY <1>1 DEF SameView, Lifecycle!vars

LEMMA LifecycleInit == Init => Lifecycle!Init
<1> SUFFICES ASSUME Init PROVE Lifecycle!Init
  OBVIOUS
<1>1. \A a \in Applications : ~Exists(a) /\ reviews[a] = <<>>
  BY DEF Init, Exists
<1> QED
  BY <1>1 DEF Lifecycle!Init, Stage, Examiner, Signer, Decider

LEMMA LifecycleStep ==
  ASSUME DutiesInv, DutiesInv', [Next]_vars
  PROVE  [Lifecycle!Next]_(Lifecycle!vars)
<1>1. TypeOK /\ TypeOK' /\ RowsInv
  BY DEF DutiesInv, RowsInv
<1>2. CASE Silent
  BY <1>1, <1>2, SilentView
<1>3. ASSUME NEW a \in Applications, Created(a) \/ HandedIn(a)
      PROVE  Lifecycle!Apply(a)
  <2>1. OthersSame(a) /\ SameReviews(a)
    BY <1>3 DEF Created, HandedIn
  <2>2. Examiner(a)' = Examiner(a)
    BY <1>1, <2>1, SameExaminer
  <2>3. Signer(a)' = Signer(a) /\ Decider(a)' = Decider(a)
    BY <1>3 DEF Created, HandedIn, SameColumns, Signer, Decider
  <2>4. \/ Stage(a) = "NONE" /\ Stage(a)' = "DRAFT"
        \/ Stage(a) = "DRAFT" /\ Stage(a)' = "SUBMITTED"
        \/ Stage(a) = "INFO_REQUESTED" /\ Stage(a)' = "RESUBMITTED"
    BY <1>3 DEF Created, HandedIn, Stage
  <2> QED
    BY <1>1, <2>1, <2>2, <2>3, <2>4, ViewsOfOne
       DEF Lifecycle!Apply, Lifecycle!Hand, Lifecycle!vars
<1>4. ASSUME NEW a \in Applications, NEW u \in Users, TakenUp(a, u)
      PROVE  Lifecycle!TakeUp(a, u)
  <2>1. Examiner(a)' = u
    <3>1. reviews'[a] # <<>>
      BY <1>4, EmptySeq DEF TakenUp
    <3> QED
      BY <1>4, <3>1 DEF TakenUp, Examiner
  <2>2. /\ Stage(a) \in {"SUBMITTED", "RESUBMITTED"}
        /\ Stage(a)' = "UNDER_REVIEW"
        /\ Signer(a)' = Signer(a)
        /\ Decider(a)' = Decider(a)
    BY <1>4 DEF TakenUp, SameColumns, Stage, Signer, Decider
  <2>3. OthersSame(a)
    BY <1>4 DEF TakenUp
  <2> QED
    BY <1>1, <2>1, <2>2, <2>3, ViewsOfOne DEF Lifecycle!TakeUp, Lifecycle!vars
<1>5. ASSUME NEW a \in Applications, NEW u \in Users, Closed(a, u)
      PROVE  Lifecycle!CloseExamination(a)
  <2>1. Examiner(a) = u /\ Examiner(a)' = u
    <3>1. reviews[a] \in Seq(ReviewRows) /\ reviews'[a] \in Seq(ReviewRows)
      BY <1>1 DEF TypeOK
    <3>2. Len(reviews[a]) # 0
      BY <1>5, <3>1, LenProperties DEF Closed
    <3>3. reviews[a] # <<>> /\ reviews'[a] # <<>>
      BY <1>5, <3>2, EmptySeq DEF Closed
    <3> QED
      BY <1>5, <3>3 DEF Closed, Examiner
  <2>2. /\ Stage(a) = "UNDER_REVIEW"
        /\ Stage(a)' \in {"INFO_REQUESTED", "READY_FOR_DECISION"}
        /\ Signer(a)' = u
        /\ Decider(a)' = Decider(a)
    BY <1>5 DEF Closed, Stage, Signer, Decider
  <2>3. OthersSame(a)
    BY <1>5 DEF Closed
  <2> QED
    BY <1>1, <2>1, <2>2, <2>3, ViewsOfOne
       DEF Lifecycle!CloseExamination, Lifecycle!vars
<1>6. ASSUME NEW a \in Applications, NEW u \in Users, Decided(a, u)
      PROVE  Lifecycle!Decide(a, u)
  <2>1. Examiner(a)' = Examiner(a) /\ OthersSame(a)
    BY <1>1, <1>6, SameExaminer DEF Decided
  <2>2. /\ Signer(a) = Examiner(a)
        /\ Signer(a) # u
        /\ Signer(a)' = Signer(a)
    BY <1>6, ReviewerIsExaminer DEF Decided, Signer
  <2>3. /\ Stage(a) = "READY_FOR_DECISION"
        /\ Stage(a)' \in Lifecycle!FinalStages
        /\ Decider(a)' = u
    BY <1>6 DEF Decided, Stage, Decider, FinalStates, Lifecycle!FinalStages
  <2> QED
    BY <1>1, <2>1, <2>2, <2>3, ViewsOfOne DEF Lifecycle!Decide, Lifecycle!vars
<1> QED
  BY <1>1, <1>2, <1>3, <1>4, <1>5, <1>6, StepKinds DEF Lifecycle!Next

(* The workflow with all its handlers implements the promised life cycle:  *)
(* only the user who opened the newest review closes it, someone else      *)
(* decides, and a decided application takes no further step.               *)
THEOREM LifecycleImplemented == Spec => ImplementsLifecycle
<1>1. DutiesInv /\ DutiesInv' /\ [Next]_vars => [Lifecycle!Next]_(Lifecycle!vars)
  BY LifecycleStep
<1> QED
  BY <1>1, LifecycleInit, DutiesInvAlways, PTL
     DEF Spec, ImplementsLifecycle, Lifecycle!Spec

=============================================================================
