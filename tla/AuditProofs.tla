----------------------------- MODULE AuditProofs -----------------------------
(***************************************************************************)
(* The audit trail accounts for the state of every application, and the    *)
(* outcomes of its reviews agree with both, for every set of applications, *)
(* users, request items and request slots.  AuditExplainsState is          *)
(* inductive once the rows are typed and reviews are numbered (RowsInv of  *)
(* WorkflowProofs), and once it also says that an application that does    *)
(* not exist has no entries.  Every step does one of three things to an    *)
(* application: nothing the trail tells of, its creation, or one entry.    *)
(***************************************************************************)
EXTENDS WorkflowProofs

(* The entry that completed a review is the one the review names.          *)
Signed(log, row) ==
  /\ row.completed_at \in DOMAIN log
  /\ log[row.completed_at].acting_user_id = row.reviewer_id
  /\ log[row.completed_at].after_state = row.outcome

(* AuditExplainsState at one application.                                  *)
Explained(a) ==
  /\ \A n \in DOMAIN auditLogs[a] :
       auditLogs[a][n].before_state =
         IF n = 1 THEN "DRAFT" ELSE auditLogs[a][n - 1].after_state
  /\ Exists(a) =>
       State(a) = IF auditLogs[a] = <<>> THEN "DRAFT"
                  ELSE auditLogs[a][Len(auditLogs[a])].after_state
  /\ \A i \in DOMAIN reviews[a] :
       reviews[a][i].completed_at # 0 => Signed(auditLogs[a], reviews[a][i])

AuditInv ==
  /\ RowsInv
  /\ \A a \in Applications :
       Explained(a) /\ (~Exists(a) => auditLogs[a] = <<>>)

SameSignature(old, new) ==
  /\ new.completed_at = old.completed_at
  /\ new.reviewer_id = old.reviewer_id
  /\ new.outcome = old.outcome

(* The three things a step does to an application.                         *)
Untold(a) ==
  /\ auditLogs'[a] = auditLogs[a]
  /\ Exists(a)' <=> Exists(a)
  /\ Exists(a) => State(a)' = State(a)
  /\ reviews'[a] = reviews[a]

Born(a) ==
  /\ auditLogs'[a] = auditLogs[a]
  /\ ~Exists(a) /\ Exists(a)' /\ State(a)' = "DRAFT"
  /\ reviews'[a] = reviews[a]

Logged(a) ==
  \E entry \in AuditRows :
    /\ auditLogs'[a] = Append(auditLogs[a], entry)
    /\ Exists(a) /\ Exists(a)'
    /\ entry.before_state = State(a)
    /\ entry.after_state = State(a)'
    /\ \A i \in DOMAIN reviews'[a] : reviews'[a][i].completed_at # 0 =>
         \/ i \in DOMAIN reviews[a] /\ SameSignature(reviews[a][i], reviews'[a][i])
         \/ /\ reviews'[a][i].completed_at = Len(auditLogs[a]) + 1
            /\ reviews'[a][i].reviewer_id = entry.acting_user_id
            /\ reviews'[a][i].outcome = entry.after_state

-----------------------------------------------------------------------------

LEMMA UntoldKeeps ==
  ASSUME NEW a \in Applications, Explained(a), Untold(a)
  PROVE  Explained(a)'
  BY DEF Explained, Untold, Signed

LEMMA BornKeeps ==
  ASSUME NEW a \in Applications, Explained(a), auditLogs[a] = <<>>, Born(a)
  PROVE  Explained(a)'
  BY DEF Explained, Born, Signed

(* An entry that starts in the old state and ends in the new one continues *)
(* the trail, and what earlier reviews named is still in its place.        *)
LEMMA LoggedKeeps ==
  ASSUME TypeOK, NEW a \in Applications, Explained(a), Logged(a)
  PROVE  Explained(a)'
<1> DEFINE log == auditLogs[a]
           n   == Len(log)
<1>1. PICK entry \in AuditRows :
        /\ auditLogs'[a] = Append(log, entry)
        /\ Exists(a) /\ Exists(a)'
        /\ entry.before_state = State(a)
        /\ entry.after_state = State(a)'
        /\ \A i \in DOMAIN reviews'[a] : reviews'[a][i].completed_at # 0 =>
             \/ i \in DOMAIN reviews[a] /\ SameSignature(reviews[a][i], reviews'[a][i])
             \/ /\ reviews'[a][i].completed_at = n + 1
                /\ reviews'[a][i].reviewer_id = entry.acting_user_id
                /\ reviews'[a][i].outcome = entry.after_state
  BY DEF Logged
<1>2. log \in Seq(AuditRows)
  BY DEF TypeOK
<1>3. n \in Nat /\ DOMAIN log = 1 .. n
  BY <1>2, LenProperties
<1> DEFINE new == Append(log, entry)
<1>4. /\ Len(new) = n + 1
      /\ DOMAIN new = 1 .. n + 1
      /\ new[n + 1] = entry
      /\ \A k \in 1 .. n : new[k] = log[k]
  BY <1>2, <1>3, AppendRow
<1>5. n = 0 <=> log = <<>>
  BY <1>2, EmptySeq
<1> HIDE DEF log, n, new
<1>6. auditLogs'[a] = new
  BY <1>1 DEF new
<1>7. /\ \A k \in DOMAIN log :
           log[k].before_state = IF k = 1 THEN "DRAFT" ELSE log[k - 1].after_state
      /\ State(a) = IF log = <<>> THEN "DRAFT" ELSE log[n].after_state
      /\ \A i \in DOMAIN reviews[a] :
           reviews[a][i].completed_at # 0 => Signed(log, reviews[a][i])
  BY <1>1 DEF Explained, log, n
<1>8. ASSUME NEW k \in DOMAIN new
      PROVE  new[k].before_state = IF k = 1 THEN "DRAFT" ELSE new[k - 1].after_state
  <2>1. CASE k = n + 1
    BY <1>1, <1>3, <1>4, <1>5, <1>7, <2>1
  <2>2. CASE k # n + 1
    BY <1>3, <1>4, <1>7, <1>8, <2>2
  <2> QED
    BY <2>1, <2>2
<1>9. new # <<>> /\ State(a)' = new[Len(new)].after_state
  BY <1>1, <1>3, <1>4
<1>10. ASSUME NEW i \in DOMAIN reviews'[a], reviews'[a][i].completed_at # 0
       PROVE  Signed(new, reviews'[a][i])
  <2>1. CASE i \in DOMAIN reviews[a] /\ SameSignature(reviews[a][i], reviews'[a][i])
    BY <1>3, <1>4, <1>7, <1>10, <2>1 DEF Signed, SameSignature
  <2>2. CASE /\ reviews'[a][i].completed_at = n + 1
             /\ reviews'[a][i].reviewer_id = entry.acting_user_id
             /\ reviews'[a][i].outcome = entry.after_state
    BY <1>3, <1>4, <2>2 DEF Signed
  <2> QED
    BY <1>1, <1>10, <2>1, <2>2
<1> QED
  BY <1>6, <1>8, <1>9, <1>10 DEF Explained

-----------------------------------------------------------------------------
(* What each transaction does to the trail of its application.             *)

ActionTypes ==
  {"APPLICATION_SUBMITTED", "REVIEW_STARTED", "MORE_INFO_REQUESTED",
   "APPLICATION_RESUBMITTED", "APPLICATION_MARKED_AS_READY_FOR_DECISION",
   "APPLICATION_APPROVED", "APPLICATION_REJECTED"}

OthersUntold(a) == \A b \in Applications : b # a => Untold(b)

(* The reviews of a completed so far keep their entry, or one is completed *)
(* now, by u, with the entry that is being written.                        *)
SignedNow(a, u, to) ==
  \A i \in DOMAIN reviews'[a] : reviews'[a][i].completed_at # 0 =>
    \/ i \in DOMAIN reviews[a] /\ SameSignature(reviews[a][i], reviews'[a][i])
    \/ /\ reviews'[a][i].completed_at = Len(auditLogs[a]) + 1
       /\ reviews'[a][i].reviewer_id = u
       /\ reviews'[a][i].outcome = to

(* A transition writes one entry, from the old state to the new one.       *)
LEMMA TransitionLogged ==
  ASSUME TypeOK, NEW a \in Applications, NEW u \in Users,
         NEW to \in ApplicationStates, NEW action \in ActionTypes,
         NEW r \in ApplicationRows, r.current_state = to, Exists(a),
         applications' = [applications EXCEPT ![a] = r],
         \A b \in Applications : b # a => reviews'[b] = reviews[b],
         SignedNow(a, u, to), writeAuditLog(a, u, action, to)
  PROVE  Logged(a) /\ OthersUntold(a)
<1> DEFINE entry == [acting_user_id |-> u, action_type |-> action,
                     before_state |-> State(a), after_state |-> to]
<1>1. State(a) \in ApplicationStates
  BY DEF TypeOK, Exists, State, ApplicationRows
<1>2. /\ entry \in AuditRows
      /\ entry.acting_user_id = u
      /\ entry.before_state = State(a)
      /\ entry.after_state = to
  BY <1>1 DEF AuditRows, ActionTypes
<1>3. /\ auditLogs'[a] = Append(auditLogs[a], entry)
      /\ \A b \in Applications : b # a => auditLogs'[b] = auditLogs[b]
  BY DEF writeAuditLog, TypeOK
<1> HIDE DEF entry
<1>4. /\ applications'[a] = r
      /\ \A b \in Applications : b # a => applications'[b] = applications[b]
  BY RowReplaced
<1>5. Exists(a)' /\ State(a)' = to
  BY <1>4, NullAssumption DEF NullAssumption, Exists, State
<1>6. Logged(a)
  BY <1>2, <1>3, <1>5 DEF Logged, SignedNow
<1>7. OthersUntold(a)
  BY <1>3, <1>4 DEF OthersUntold, Untold, Exists, State
<1> QED
  BY <1>6, <1>7

(* The row of an advanced application is in its new state.                 *)
LEMMA AdvancedState ==
  ASSUME TypeOK, NEW a \in Applications, Exists(a), NEW to
  PROVE  Advanced(a, to).current_state = to
<1>1. applications[a] \in ApplicationRows
  BY DEF TypeOK, Exists
<1> QED
  BY <1>1 DEF Advanced, ApplicationRows

LEMMA UnchangedReviewsSigned ==
  ASSUME NEW a \in Applications, NEW u, NEW to, reviews' = reviews
  PROVE  SignedNow(a, u, to)
  BY DEF SignedNow, SameSignature

LEMMA StartReviewLogs ==
  ASSUME RowsInv, NEW a \in Applications, NEW u \in Users, NEW v,
         startReview(a, u, v)
  PROVE  Logged(a) /\ OthersUntold(a)
<1>1. TypeOK /\ ReviewsMatchState
  BY DEF RowsInv
<1>2. /\ applications' =
           [applications EXCEPT ![a] = Advanced(a, "UNDER_REVIEW")]
      /\ Advanced(a, "UNDER_REVIEW") \in ApplicationRows
  BY <1>1, StartReviewEffect, BoundsAssumption
<1>3. PICK row \in ReviewRows :
        /\ reviews' = [reviews EXCEPT ![a] = Append(reviews[a], row)]
        /\ row.completed_at = 0
  BY <1>1, StartReviewEffect, BoundsAssumption
<1>4. /\ reviews[a] \in Seq(ReviewRows)
      /\ reviews'[a] = Append(reviews[a], row)
      /\ \A b \in Applications : b # a => reviews'[b] = reviews[b]
  BY <1>1, <1>3 DEF TypeOK
<1>5. SignedNow(a, u, "UNDER_REVIEW")
  <2> DEFINE n == Len(reviews[a])
  <2>1. /\ n \in Nat
        /\ DOMAIN reviews[a] = 1 .. n
        /\ DOMAIN reviews'[a] = 1 .. n + 1
        /\ reviews'[a][n + 1] = row
        /\ \A j \in DOMAIN reviews[a] : reviews'[a][j] = reviews[a][j]
    BY <1>4, AppendRow, LenProperties
  <2> QED
    BY <1>3, <2>1 DEF SignedNow, SameSignature
<1>6. Exists(a) /\ Advanced(a, "UNDER_REVIEW").current_state = "UNDER_REVIEW"
  BY <1>1, AdvancedState DEF startReview
<1>7. writeAuditLog(a, u, "REVIEW_STARTED", "UNDER_REVIEW")
  BY DEF startReview
<1> QED
  BY <1>1, <1>2, <1>4, <1>5, <1>6, <1>7, TransitionLogged
     DEF ApplicationStates, ActionTypes

LEMMA CompleteReviewLogs ==
  ASSUME RowsInv, NEW a \in Applications, NEW u \in Users, NEW v,
         NEW i \in DOMAIN reviews[a],
         NEW to \in {"INFO_REQUESTED", "READY_FOR_DECISION"},
         NEW action \in {"MORE_INFO_REQUESTED",
                         "APPLICATION_MARKED_AS_READY_FOR_DECISION"},
         NEW items \in SUBSET RequestItems,
         CompleteReview(a, u, v, i, to, action, items)
  PROVE  Logged(a) /\ OthersUntold(a)
<1>1. TypeOK /\ ReviewsMatchState
  BY DEF RowsInv
<1>2. ReviewClosed(a, u, i, to)
  BY <1>1, CompleteReviewEffect, BoundsAssumption
<1>3. PICK r \in ApplicationRows :
        /\ applications' = [applications EXCEPT ![a] = r]
        /\ r.current_state = to
  BY <1>2 DEF ReviewClosed
<1>4. PICK row \in ReviewRows :
        /\ reviews' = [reviews EXCEPT ![a] = [reviews[a] EXCEPT ![i] = row]]
        /\ row.reviewer_id = u
        /\ row.completed_at = Len(auditLogs[a]) + 1
        /\ row.outcome = to
  BY <1>2 DEF ReviewClosed
<1>5. reviews[a] \in Seq(ReviewRows)
  BY <1>1 DEF TypeOK
<1>6. /\ reviews'[a] = [reviews[a] EXCEPT ![i] = row]
      /\ \A b \in Applications : b # a => reviews'[b] = reviews[b]
  BY <1>1, <1>4 DEF TypeOK
<1>7. /\ DOMAIN reviews'[a] = DOMAIN reviews[a]
      /\ reviews'[a][i] = row
      /\ \A j \in DOMAIN reviews[a] : j # i => reviews'[a][j] = reviews[a][j]
  BY <1>5, <1>6, ReplaceRow
<1>8. SignedNow(a, u, to)
  BY <1>4, <1>7 DEF SignedNow, SameSignature
<1>9. Exists(a) /\ writeAuditLog(a, u, action, to)
  BY DEF CompleteReview
<1> QED
  BY <1>1, <1>3, <1>6, <1>8, <1>9, TransitionLogged
     DEF ApplicationStates, ActionTypes

LEMMA ResubmitLogs ==
  ASSUME RowsInv, NEW a \in Applications, NEW u \in Users, NEW v,
         NEW i \in DOMAIN reviews[a], NEW answered,
         resubmitApplication(a, u, v, i, answered)
  PROVE  Logged(a) /\ OthersUntold(a)
<1> DEFINE old == reviews[a][i]
           row == [old EXCEPT !.responded = TRUE]
<1>1. TypeOK
  BY DEF RowsInv
<1>2. /\ Exists(a)
      /\ applications' = [applications EXCEPT ![a] = Advanced(a, "RESUBMITTED")]
      /\ writeAuditLog(a, u, "APPLICATION_RESUBMITTED", "RESUBMITTED")
  BY DEF resubmitApplication
<1>3. /\ Advanced(a, "RESUBMITTED") \in ApplicationRows
      /\ Advanced(a, "RESUBMITTED").current_state = "RESUBMITTED"
  BY <1>1, <1>2, AdvancedType, AdvancedState, BoundsAssumption
     DEF resubmitApplication, ApplicationStates
<1>4. reviews[a] \in Seq(ReviewRows) /\ old \in ReviewRows
  BY <1>1, LenProperties DEF TypeOK
<1>5. reviews' = [reviews EXCEPT ![a] = [reviews[a] EXCEPT ![i] = row]]
  BY <1>1 DEF resubmitApplication, TypeOK
<1> HIDE DEF old
<1>6. row \in ReviewRows /\ SameSignature(old, row)
  BY <1>4 DEF ReviewRows, SameSignature
<1> HIDE DEF row
<1>7. /\ reviews'[a] = [reviews[a] EXCEPT ![i] = row]
      /\ \A b \in Applications : b # a => reviews'[b] = reviews[b]
  BY <1>1, <1>5 DEF TypeOK
<1>8. /\ DOMAIN reviews'[a] = DOMAIN reviews[a]
      /\ reviews'[a][i] = row
      /\ \A j \in DOMAIN reviews[a] : j # i => reviews'[a][j] = reviews[a][j]
  BY <1>4, <1>6, <1>7, ReplaceRow
<1>9. SignedNow(a, u, "RESUBMITTED")
  BY <1>6, <1>8 DEF SignedNow, SameSignature, old
<1> QED
  BY <1>1, <1>2, <1>3, <1>7, <1>9, TransitionLogged
     DEF ApplicationStates, ActionTypes

LEMMA SubmitLogs ==
  ASSUME RowsInv, NEW h \in Handlers, finishSubmit(h)
  PROVE  \E a \in Applications : Logged(a) /\ OthersUntold(a)
<1>1. TypeOK
  BY DEF RowsInv
<1>2. PICK a \in Applications, u \in Users, v \in LockVersions :
        /\ a = handlers[h].app
        /\ u = handlers[h].user
        /\ v = handlers[h].lock_version
  BY DEF finishSubmit, SubmitRequests
<1>3. submitApplication(a, u, v)
  BY <1>2 DEF finishSubmit
<1>4. /\ Exists(a) /\ reviews' = reviews
      /\ applications' = [applications EXCEPT ![a] = Advanced(a, "SUBMITTED")]
      /\ writeAuditLog(a, u, "APPLICATION_SUBMITTED", "SUBMITTED")
  BY <1>3 DEF submitApplication
<1>5. /\ Advanced(a, "SUBMITTED") \in ApplicationRows
      /\ Advanced(a, "SUBMITTED").current_state = "SUBMITTED"
  BY <1>1, <1>3, <1>4, AdvancedType, AdvancedState, BoundsAssumption
     DEF submitApplication, ApplicationStates
<1>6. SignedNow(a, u, "SUBMITTED")
  BY <1>4, UnchangedReviewsSigned
<1>7. Logged(a) /\ OthersUntold(a)
  BY <1>1, <1>4, <1>5, <1>6, TransitionLogged DEF ApplicationStates, ActionTypes
<1> QED
  BY <1>7

LEMMA FinalizeLogs ==
  ASSUME RowsInv, NEW a \in Applications, NEW u \in Users, NEW v,
         NEW to \in FinalStates,
         NEW action \in {"APPLICATION_APPROVED", "APPLICATION_REJECTED"},
         finalizeDecision(a, u, v, to, action)
  PROVE  Logged(a) /\ OthersUntold(a)
<1> DEFINE r == [Advanced(a, to) EXCEPT !.decisioned_by_id = u]
<1>1. TypeOK
  BY DEF RowsInv
<1>2. /\ Exists(a) /\ reviews' = reviews
      /\ applications' = [applications EXCEPT ![a] = r]
      /\ writeAuditLog(a, u, action, to)
  BY DEF finalizeDecision
<1>3. Advanced(a, to) \in ApplicationRows /\ Advanced(a, to).current_state = to
  BY <1>1, <1>2, AdvancedType, AdvancedState, BoundsAssumption
     DEF finalizeDecision, ApplicationStates
<1>4. r \in ApplicationRows /\ r.current_state = to
  BY <1>3 DEF ApplicationRows
<1> HIDE DEF r
<1>5. SignedNow(a, u, to)
  BY <1>2, UnchangedReviewsSigned
<1> QED
  BY <1>1, <1>2, <1>4, <1>5, TransitionLogged
     DEF ApplicationStates, FinalStates, ActionTypes

-----------------------------------------------------------------------------
(* The other handlers leave the trail alone.                               *)

LEMMA CreateUntold ==
  ASSUME RowsInv, NEW a \in Applications, NEW u \in Users,
         NEW fields \in Contents, createApplication(a, u, fields)
  PROVE  Born(a) /\ OthersUntold(a)
<1>1. Created(a)
  BY CreateStep
<1>2. auditLogs' = auditLogs /\ reviews' = reviews
  BY DEF createApplication
<1> QED
  BY <1>1, <1>2 DEF Created, OthersSame, SameRow, Born, OthersUntold, Untold

LEMMA SilentUntold ==
  ASSUME Silent, auditLogs' = auditLogs, reviews' = reviews,
         NEW b \in Applications
  PROVE  Untold(b)
  BY DEF Silent, SameRow, Untold

(* Every step is of one of the three kinds for every application.          *)
LEMMA StepTraces ==
  ASSUME RowsInv, [Next]_vars, NEW b \in Applications
  PROVE  Untold(b) \/ Born(b) \/ Logged(b)
<1> DEFINE Goal == Untold(b) \/ Born(b) \/ Logged(b)
<1>1. ASSUME NEW a \in Applications, OthersUntold(a), Logged(a) \/ Born(a)
      PROVE  Goal
  BY <1>1 DEF OthersUntold
<1>2. ASSUME NEW a \in Applications, NEW u \in Users, NEW v \in LockVersions,
             Internal(a, u, v)
      PROVE  Goal
  <2>1. CASE startReview(a, u, v)
    BY <1>1, <2>1, StartReviewLogs
  <2>2. ASSUME NEW i \in DOMAIN reviews[a], NEW items \in InfoRequests,
               requestInformation(a, u, v, i, items)
        PROVE  Goal
    <3>1. Exists(a)
      BY <2>2 DEF requestInformation, CompleteReview
    <3>2. buildRequestItems(a, items) \in SUBSET RequestItems
      BY <3>1, BuiltItems, RequestsAssumption, FieldsAssumption DEF RowsInv
    <3>3. Logged(a) /\ OthersUntold(a)
      BY <2>2, <3>2, CompleteReviewLogs DEF requestInformation
    <3> QED
      BY <1>1, <3>3
  <2>3. ASSUME NEW i \in DOMAIN reviews[a], markReadyForDecision(a, u, v, i)
        PROVE  Goal
    <3>1. {} \in SUBSET RequestItems
      OBVIOUS
    <3>2. Logged(a) /\ OthersUntold(a)
      BY <2>3, <3>1, CompleteReviewLogs DEF markReadyForDecision
    <3> QED
      BY <1>1, <3>2
  <2>4. CASE approve(a, u, v)
    BY <1>1, <2>4, FinalizeLogs DEF approve, FinalStates
  <2>5. CASE reject(a, u, v)
    BY <1>1, <2>5, FinalizeLogs DEF reject, FinalStates
  <2> QED
    BY <1>2, <2>1, <2>2, <2>3, <2>4, <2>5 DEF Internal
<1>3. ASSUME UNCHANGED <<applications, reviews, auditLogs>>
      PROVE  Goal
  BY <1>3, SilentStep, SilentUntold
<1>4. ASSUME NEW a \in Applications, NEW u \in Users, NEW v \in LockVersions,
             Applicant(a, u, v)
      PROVE  Goal
  <2>1. ASSUME NEW i \in DOMAIN reviews[a], NEW answered \in SUBSET Questions,
               resubmitApplication(a, u, v, i, answered)
        PROVE  Goal
    BY <1>1, <2>1, ResubmitLogs
  <2>2. ASSUME NEW h \in Handlers,
               \/ \E body \in PatchBodies : beginUpdateDraft(h, a, u, v, body)
               \/ beginSubmit(h, a, u, v)
        PROVE  Goal
    BY <1>3, <2>2 DEF beginUpdateDraft, beginSubmit, Begin
  <2> QED
    BY <1>4, <2>1, <2>2 DEF Applicant
<1>5. ASSUME NEW a \in Applications, NEW u \in Users, NEW fields \in Contents,
             createApplication(a, u, fields)
      PROVE  Goal
  BY <1>1, <1>5, CreateUntold
<1>6. ASSUME NEW h \in Handlers, NEW a \in Applications, NEW u \in Users,
             NEW t \in DocumentTypes, beginUpload(h, a, u, t)
      PROVE  Goal
  BY <1>3, <1>6 DEF beginUpload, Begin
<1>7. ASSUME NEW h \in Handlers,
             finishUpdateDraft(h) \/ finishSubmit(h) \/ finishUpload(h) \/ abandon(h)
      PROVE  Goal
  <2>1. CASE finishUpdateDraft(h)
    BY <2>1, PatchStep, SilentUntold DEF finishUpdateDraft
  <2>2. CASE finishSubmit(h)
    BY <1>1, <2>2, SubmitLogs
  <2>3. CASE finishUpload(h) \/ abandon(h)
    BY <1>3, <2>3 DEF finishUpload, abandon
  <2> QED
    BY <1>7, <2>1, <2>2, <2>3
<1>8. CASE UNCHANGED vars
  BY <1>3, <1>8 DEF vars
<1> QED
  BY <1>2, <1>4, <1>5, <1>6, <1>7, <1>8 DEF Next

-----------------------------------------------------------------------------

LEMMA AuditInvInit == Init => AuditInv
<1> SUFFICES ASSUME Init PROVE AuditInv
  OBVIOUS
<1>1. \A a \in Applications :
        ~Exists(a) /\ auditLogs[a] = <<>> /\ reviews[a] = <<>>
  BY DEF Init, Exists
<1> QED
  BY <1>1, RowsInvInit DEF AuditInv, Explained

LEMMA AuditInvStep == AuditInv /\ [Next]_vars => AuditInv'
<1> SUFFICES ASSUME AuditInv, [Next]_vars PROVE AuditInv'
  OBVIOUS
<1>1. RowsInv /\ RowsInv' /\ TypeOK
  BY RowsInvStep DEF AuditInv, RowsInv
<1>2. ASSUME NEW b \in Applications
      PROVE  Explained(b)' /\ (~Exists(b)' => auditLogs'[b] = <<>>)
  <2>1. Explained(b) /\ (~Exists(b) => auditLogs[b] = <<>>)
    BY DEF AuditInv
  <2>2. CASE Untold(b)
    BY <2>1, <2>2, UntoldKeeps DEF Untold
  <2>3. CASE Born(b)
    BY <2>1, <2>3, BornKeeps DEF Born
  <2>4. CASE Logged(b)
    BY <1>1, <2>1, <2>4, LoggedKeeps DEF Logged
  <2> QED
    BY <1>1, <2>2, <2>3, <2>4, StepTraces
<1> QED
  BY <1>1, <1>2 DEF AuditInv

(* The audit trail of WorkflowService.writeAuditLog accounts for every     *)
(* application: its entries lead from DRAFT to the current state without a *)
(* gap, whatever handlers interleave, and each completed review cycle names*)
(* the entry that completed it, signed by its reviewer.                    *)
THEOREM AuditTrailExplains == Spec => []AuditExplainsState
<1>1. AuditInv => AuditExplainsState
  BY DEF AuditInv, Explained, Signed, AuditExplainsState
<1>2. Spec => []AuditInv
  BY AuditInvInit, AuditInvStep, PTL DEF Spec
<1> QED
  BY <1>1, <1>2, PTL

-----------------------------------------------------------------------------
(* What the review rows say about an application agrees with its state,    *)
(* every answered information request was delivered, and no step rewrites  *)
(* what is recorded.  A resubmission answers the information request with  *)
(* the latest time of completion; that this is the newest review, unless   *)
(* the clock was set back in between, follows from the audit trail, whose  *)
(* positions are the times of completion.                                  *)

(* OutcomesMatchState at one application.                                  *)
Outcomes(a) ==
  LET rows == reviews[a]
      last == rows[Len(rows)] IN
    /\ \A i \in DOMAIN rows : i < Len(rows) =>
         rows[i].outcome = "INFO_REQUESTED" /\ AnsweredOrMisled(a, i)
    /\ rows # <<>> =>
         /\ Exists(a)
         /\ State(a) = "INFO_REQUESTED" =>
              last.outcome = "INFO_REQUESTED" /\ ~last.responded
         /\ State(a) = "RESUBMITTED" =>
              last.outcome = "INFO_REQUESTED" /\ AnsweredOrMisled(a, Len(rows))
         /\ State(a) \in {"READY_FOR_DECISION"} \cup FinalStates =>
              last.outcome = "READY_FOR_DECISION"

(* Reviews are completed one after the other, and only a completed one has *)
(* an outcome and can be answered.                                         *)
Sequenced(a) ==
  /\ Exists(a) /\ State(a) \in {"DRAFT", "SUBMITTED"} => reviews[a] = <<>>
  /\ \A i \in DOMAIN reviews[a] :
       /\ reviews[a][i].completed_at = 0 => ~reviews[a][i].responded
       /\ \A j \in DOMAIN reviews[a] :
            i < j /\ reviews[a][j].completed_at # 0 =>
              reviews[a][i].completed_at < reviews[a][j].completed_at

IsDocumentItem(item) == item.type \in {"DOCUMENT_REPLACEMENT", "ADDITIONAL_DOCUMENT"}

NamesDocuments(row) ==
  \A item \in row.request_items :
    IsDocumentItem(item) => item.target \in DocumentTypes

DeliveredTo(counts, row) ==
  \A item \in row.request_items : item.required /\ IsDocumentItem(item) =>
    counts[item.target] > row.documents_then[item.target]

(* AnsweredRequestsDelivered at one application.                           *)
Delivered(a) ==
  \A i \in DOMAIN reviews[a] :
    /\ NamesDocuments(reviews[a][i])
    /\ reviews[a][i].responded /\ ~reviews[a][i].behind =>
         DeliveredTo(documents[a], reviews[a][i])

OutcomeInv ==
  /\ AuditInv
  /\ \A a \in Applications : Outcomes(a) /\ Sequenced(a) /\ Delivered(a)

-----------------------------------------------------------------------------
(* What a transaction does to the state and the reviews of its application.*)

Moves(a, from, to) ==
  /\ Exists(a) /\ Exists(a)'
  /\ State(a) \in from
  /\ State(a)' \in to

Submitted(a) == Moves(a, {"DRAFT"}, {"SUBMITTED"}) /\ reviews'[a] = reviews[a]

Opened(a) ==
  /\ Moves(a, {"SUBMITTED", "RESUBMITTED"}, {"UNDER_REVIEW"})
  /\ \E row \in ReviewRows :
       /\ reviews'[a] = Append(reviews[a], row)
       /\ row.completed_at = 0
       /\ ~row.responded
       /\ row.request_items = {}

Completed(a) ==
  LET n == Len(reviews[a]) IN
    /\ Moves(a, {"UNDER_REVIEW"}, {"INFO_REQUESTED", "READY_FOR_DECISION"})
    /\ n \in DOMAIN reviews[a]
    /\ reviews[a][n].completed_at = 0
    /\ \E row \in ReviewRows :
         /\ reviews'[a] = [reviews[a] EXCEPT ![n] = row]
         /\ row.completed_at = Len(auditLogs[a]) + 1
         /\ row.outcome = State(a)'
         /\ ~row.responded
         /\ NamesDocuments(row)

Answered(a) ==
  /\ Moves(a, {"INFO_REQUESTED"}, {"RESUBMITTED"})
  /\ \E i \in DOMAIN reviews[a] :
       /\ getLatestInfoRequestReview(a, i)
       /\ ~reviews[a][i].behind => DeliveredTo(documents[a], reviews[a][i])
       /\ reviews'[a] =
            [reviews[a] EXCEPT ![i] = [reviews[a][i] EXCEPT !.responded = TRUE]]

Finalized(a) ==
  Moves(a, {"READY_FOR_DECISION"}, FinalStates) /\ reviews'[a] = reviews[a]

Transacted(a) ==
  Submitted(a) \/ Opened(a) \/ Completed(a) \/ Answered(a) \/ Finalized(a)

DocumentsGrow(a) ==
  \A t \in DocumentTypes : documents'[a][t] >= documents[a][t]

(* The row of a transaction's application.                                 *)
LEMMA MovedRow ==
  ASSUME TypeOK, NEW a \in Applications, Exists(a), NEW from, State(a) \in from,
         NEW to, NEW r \in ApplicationRows, r.current_state = to,
         applications' = [applications EXCEPT ![a] = r]
  PROVE  Moves(a, from, {to})
<1>1. applications'[a] = r
  BY RowReplaced
<1> QED
  BY <1>1, NullAssumption DEF NullAssumption, Exists, State, Moves

LEMMA StartReviewOpens ==
  ASSUME RowsInv, NEW a \in Applications, NEW u \in Users, NEW v,
         startReview(a, u, v)
  PROVE  Opened(a) /\ OthersUntold(a)
<1> DEFINE row == [reviewer_id |-> u,
                   cycle_number |-> getNextCycleNumber(a),
                   completed_at |-> 0,
                   behind |-> FALSE,
                   outcome |-> "NONE",
                   request_items |-> {},
                   documents_then |-> [t \in DocumentTypes |-> 0],
                   responded |-> FALSE]
<1>1. TypeOK /\ ReviewsMatchState
  BY DEF RowsInv
<1>2. row \in ReviewRows
  <2>1. getNextCycleNumber(a) \in Nat
    BY <1>1, NextCycleNumber, LenProperties DEF TypeOK
  <2>2. [t \in DocumentTypes |-> 0] \in VersionCounts
    BY BoundsAssumption DEF BoundsAssumption, VersionCounts
  <2> QED
    BY <2>1, <2>2 DEF ReviewRows
<1>3. reviews'[a] = Append(reviews[a], row)
  BY <1>1 DEF startReview, TypeOK
<1>4. row.completed_at = 0 /\ ~row.responded /\ row.request_items = {}
  OBVIOUS
<1> HIDE DEF row
<1>5. Moves(a, {"SUBMITTED", "RESUBMITTED"}, {"UNDER_REVIEW"})
  <2>1. /\ applications' =
             [applications EXCEPT ![a] = Advanced(a, "UNDER_REVIEW")]
        /\ Advanced(a, "UNDER_REVIEW") \in ApplicationRows
    BY <1>1, StartReviewEffect, BoundsAssumption
  <2>2. Exists(a) /\ State(a) \in {"SUBMITTED", "RESUBMITTED"}
    BY DEF startReview, checkApplicationState
  <2>3. Advanced(a, "UNDER_REVIEW").current_state = "UNDER_REVIEW"
    BY <1>1, <2>2, AdvancedState
  <2> QED
    BY <1>1, <2>1, <2>2, <2>3, MovedRow
<1> QED
  BY <1>2, <1>3, <1>4, <1>5, StartReviewLogs DEF Opened

(* An information request names the documents it wants by their type.      *)
LEMMA BuiltItemsNameDocuments ==
  ASSUME NEW a \in Applications, NEW items \in InfoRequests,
         NEW item \in buildRequestItems(a, items), IsDocumentItem(item)
  PROVE  item.target \in DocumentTypes
<1>1. PICK input \in items : /\ item.type = input.type
                             /\ item.target = input.target
  BY DEF buildRequestItems
<1>2. input \in RequestItemInputs
  BY RequestsAssumption DEF RequestsAssumption
<1> QED
  BY <1>1, <1>2 DEF IsDocumentItem, RequestItemInputs, DocumentTypes

LEMMA CompleteReviewCompletes ==
  ASSUME RowsInv, NEW a \in Applications, NEW u \in Users, NEW v,
         NEW i \in DOMAIN reviews[a],
         NEW to \in {"INFO_REQUESTED", "READY_FOR_DECISION"},
         NEW action \in {"MORE_INFO_REQUESTED",
                         "APPLICATION_MARKED_AS_READY_FOR_DECISION"},
         NEW items \in SUBSET RequestItems,
         \A item \in items : IsDocumentItem(item) => item.target \in DocumentTypes,
         CompleteReview(a, u, v, i, to, action, items)
  PROVE  Completed(a) /\ OthersUntold(a)
<1>0. PICK behind \in BOOLEAN :
        reviews' =
          [reviews EXCEPT ![a][i] =
             [@ EXCEPT !.completed_at = Len(auditLogs[a]) + 1,
                       !.behind = behind,
                       !.outcome = to,
                       !.request_items = items,
                       !.documents_then = documents[a],
                       !.responded = FALSE]]
  BY DEF CompleteReview
<1> DEFINE old == reviews[a][i]
           row == [old EXCEPT !.completed_at = Len(auditLogs[a]) + 1,
                              !.behind = behind,
                              !.outcome = to,
                              !.request_items = items,
                              !.documents_then = documents[a],
                              !.responded = FALSE]
<1>1. TypeOK /\ ReviewsMatchState
  BY DEF RowsInv
<1>2. ReviewClosed(a, u, i, to)
  BY <1>1, CompleteReviewEffect, BoundsAssumption
<1>3. i = Len(reviews[a]) /\ reviews[a][i].completed_at = 0
  BY <1>2 DEF ReviewClosed
<1>4. old \in ReviewRows /\ Len(auditLogs[a]) + 1 \in Nat /\ documents[a] \in VersionCounts
  BY <1>1, LenProperties DEF TypeOK
<1>5. reviews'[a] = [reviews[a] EXCEPT ![i] = row]
  BY <1>0, <1>1 DEF TypeOK
<1> HIDE DEF old
<1>6. row \in ReviewRows
  BY <1>4, ClosedRow
<1>7. /\ row.completed_at = Len(auditLogs[a]) + 1
      /\ row.outcome = to
      /\ row.request_items = items
      /\ ~row.responded
  BY <1>4 DEF ReviewRows
<1> HIDE DEF row
<1>8. Moves(a, {"UNDER_REVIEW"}, {to})
  BY <1>1, <1>2, MovedRow DEF ReviewClosed
<1>9. NamesDocuments(row)
  BY <1>7 DEF NamesDocuments
<1>10. Completed(a)
  BY <1>3, <1>5, <1>6, <1>7, <1>8, <1>9 DEF Completed, Moves
<1> QED
  BY <1>10, CompleteReviewLogs

(* A resubmission passes only with every required document delivered.      *)
LEMMA ResubmitAnswers ==
  ASSUME RowsInv, NEW a \in Applications, NEW u \in Users, NEW v,
         NEW i \in DOMAIN reviews[a], NEW answered,
         resubmitApplication(a, u, v, i, answered)
  PROVE  Answered(a) /\ OthersUntold(a)
<1>1. TypeOK
  BY DEF RowsInv
<1>2. /\ Exists(a) /\ State(a) \in {"INFO_REQUESTED"}
      /\ applications' = [applications EXCEPT ![a] = Advanced(a, "RESUBMITTED")]
      /\ getLatestInfoRequestReview(a, i)
  BY DEF resubmitApplication, checkApplicationState
<1>3. /\ Advanced(a, "RESUBMITTED") \in ApplicationRows
      /\ Advanced(a, "RESUBMITTED").current_state = "RESUBMITTED"
  BY <1>1, <1>2, AdvancedType, AdvancedState, BoundsAssumption
     DEF resubmitApplication, ApplicationStates
<1>4. Moves(a, {"INFO_REQUESTED"}, {"RESUBMITTED"})
  BY <1>1, <1>2, <1>3, MovedRow
<1>5. reviews'[a] =
        [reviews[a] EXCEPT ![i] = [reviews[a][i] EXCEPT !.responded = TRUE]]
  BY <1>1 DEF resubmitApplication, TypeOK
<1>6. ~reviews[a][i].behind => DeliveredTo(documents[a], reviews[a][i])
  BY DEF resubmitApplication, validateRequiredRequestItems, Satisfied,
         DeliveredTo, IsDocumentItem
<1> QED
  BY <1>2, <1>4, <1>5, <1>6, ResubmitLogs DEF Answered

LEMMA SubmitSubmits ==
  ASSUME RowsInv, NEW h \in Handlers, finishSubmit(h)
  PROVE  \E a \in Applications : Submitted(a) /\ OthersUntold(a)
<1>1. TypeOK
  BY DEF RowsInv
<1>2. PICK a \in Applications : Logged(a) /\ OthersUntold(a) /\ a = handlers[h].app
  <2>1. handlers[h].app \in Applications
    BY DEF finishSubmit, SubmitRequests
  <2>2. PICK b \in Applications : Logged(b) /\ OthersUntold(b)
    BY SubmitLogs
  <2>3. ASSUME b # handlers[h].app PROVE FALSE
    <3>1. /\ auditLogs[b] \in Seq(AuditRows)
          /\ Len(auditLogs'[b]) = Len(auditLogs[b]) + 1
      BY <1>1, <2>2, AppendRow DEF TypeOK, Logged
    <3>2. auditLogs'[b] = auditLogs[b]
      BY <2>1, <2>3, <1>1
         DEF finishSubmit, submitApplication, writeAuditLog, TypeOK
    <3> QED
      BY <3>1, <3>2, LenProperties
  <2> QED
    BY <2>1, <2>2, <2>3
<1>3. /\ Exists(a) /\ State(a) \in {"DRAFT"} /\ reviews' = reviews
      /\ applications' = [applications EXCEPT ![a] = Advanced(a, "SUBMITTED")]
      /\ checkLockVersion(a, handlers[h].lock_version)
  BY <1>2 DEF finishSubmit, submitApplication, checkApplicationState
<1>4. /\ Advanced(a, "SUBMITTED") \in ApplicationRows
      /\ Advanced(a, "SUBMITTED").current_state = "SUBMITTED"
  BY <1>1, <1>3, AdvancedType, AdvancedState, BoundsAssumption
     DEF ApplicationStates
<1>5. Submitted(a)
  BY <1>1, <1>3, <1>4, MovedRow DEF Submitted
<1> QED
  BY <1>2, <1>5

LEMMA FinalizeFinalizes ==
  ASSUME RowsInv, NEW a \in Applications, NEW u \in Users, NEW v,
         NEW to \in FinalStates,
         NEW action \in {"APPLICATION_APPROVED", "APPLICATION_REJECTED"},
         finalizeDecision(a, u, v, to, action)
  PROVE  Finalized(a) /\ OthersUntold(a)
<1> DEFINE r == [Advanced(a, to) EXCEPT !.decisioned_by_id = u]
<1>1. TypeOK
  BY DEF RowsInv
<1>2. /\ Exists(a) /\ State(a) \in {"READY_FOR_DECISION"} /\ reviews' = reviews
      /\ applications' = [applications EXCEPT ![a] = r]
      /\ checkLockVersion(a, v)
  BY DEF finalizeDecision, checkApplicationState
<1>3. Advanced(a, to) \in ApplicationRows /\ Advanced(a, to).current_state = to
  BY <1>1, <1>2, AdvancedType, AdvancedState, BoundsAssumption
     DEF ApplicationStates
<1>4. r \in ApplicationRows /\ r.current_state = to
  BY <1>3 DEF ApplicationRows
<1> HIDE DEF r
<1>5. Moves(a, {"READY_FOR_DECISION"}, {to})
  BY <1>1, <1>2, <1>4, MovedRow
<1>6. Finalized(a)
  BY <1>2, <1>5 DEF Finalized, Moves
<1> QED
  BY <1>6, FinalizeLogs

-----------------------------------------------------------------------------
(* Only finishUpload changes the version counts, and it adds to one.       *)
LEMMA UploadGrows ==
  ASSUME TypeOK, NEW h \in Handlers, finishUpload(h), NEW b \in Applications
  PROVE  DocumentsGrow(b)
<1>1. PICK a \in Applications, t \in DocumentTypes :
        a = handlers[h].app /\ t = handlers[h].document_type
  BY DEF finishUpload, UploadRequests
<1>2. documents' = [documents EXCEPT ![a] = [documents[a] EXCEPT ![t] = documents[a][t] + 1]]
  BY <1>1 DEF finishUpload, TypeOK
<1>3. /\ documents \in [Applications -> VersionCounts]
      /\ documents[a] \in VersionCounts /\ documents[b] \in VersionCounts
  BY DEF TypeOK
<1>4. \A s \in DocumentTypes : documents[a][s] \in Nat /\ documents[b][s] \in Nat
  BY <1>3, BoundsAssumption DEF BoundsAssumption, VersionCounts
<1>5. CASE b = a
  <2>1. documents'[b] = [documents[a] EXCEPT ![t] = documents[a][t] + 1]
    BY <1>2, <1>3, <1>5
  <2> QED
    BY <1>3, <1>4, <2>1, <1>5 DEF DocumentsGrow, VersionCounts
<1>6. CASE b # a
  BY <1>2, <1>3, <1>4, <1>6 DEF DocumentsGrow
<1> QED
  BY <1>5, <1>6

LEMMA SameDocumentsGrow ==
  ASSUME TypeOK, documents' = documents, NEW b \in Applications
  PROVE  DocumentsGrow(b)
<1>1. \A t \in DocumentTypes : documents[b][t] \in Nat
  BY BoundsAssumption DEF BoundsAssumption, VersionCounts, TypeOK
<1> QED
  BY <1>1 DEF DocumentsGrow

LEMMA StepDocuments ==
  ASSUME TypeOK, [Next]_vars, NEW b \in Applications
  PROVE  DocumentsGrow(b)
<1>1. ASSUME NEW a \in Applications, NEW u \in Users, NEW v \in LockVersions,
             Internal(a, u, v)
      PROVE  documents' = documents
  BY <1>1 DEF Internal, startReview, requestInformation, markReadyForDecision,
              CompleteReview, approve, reject, finalizeDecision
<1>2. ASSUME NEW a \in Applications, NEW u \in Users, NEW v \in LockVersions,
             Applicant(a, u, v)
      PROVE  documents' = documents
  BY <1>2 DEF Applicant, resubmitApplication, beginUpdateDraft, beginSubmit, Begin
<1>3. ASSUME NEW a \in Applications, NEW u \in Users, NEW fields \in Contents,
             createApplication(a, u, fields)
      PROVE  documents' = documents
  BY <1>3 DEF createApplication
<1>4. ASSUME NEW h \in Handlers, NEW a \in Applications, NEW u \in Users,
             NEW t \in DocumentTypes, beginUpload(h, a, u, t)
      PROVE  documents' = documents
  BY <1>4 DEF beginUpload, Begin
<1>5. ASSUME NEW h \in Handlers, finishUpdateDraft(h) \/ finishSubmit(h) \/ abandon(h)
      PROVE  documents' = documents
  BY <1>5 DEF finishUpdateDraft, finishSubmit, submitApplication, abandon
<1>6. CASE UNCHANGED vars
  BY <1>6, SameDocumentsGrow DEF vars
<1> QED
  BY <1>1, <1>2, <1>3, <1>4, <1>5, <1>6, UploadGrows, SameDocumentsGrow DEF Next

(* Every step leaves the reviews and the state of an application alone,    *)
(* creates it, or is one of its five transactions.                         *)
LEMMA StepRows ==
  ASSUME RowsInv, [Next]_vars, NEW b \in Applications
  PROVE  Untold(b) \/ Born(b) \/ Transacted(b)
<1> DEFINE Goal == Untold(b) \/ Born(b) \/ Transacted(b)
<1>1. ASSUME NEW a \in Applications, OthersUntold(a), Transacted(a) \/ Born(a)
      PROVE  Goal
  BY <1>1 DEF OthersUntold
<1>2. ASSUME NEW a \in Applications, NEW u \in Users, NEW v \in LockVersions,
             Internal(a, u, v)
      PROVE  Goal
  <2>1. CASE startReview(a, u, v)
    BY <1>1, <2>1, StartReviewOpens DEF Transacted
  <2>2. ASSUME NEW i \in DOMAIN reviews[a], NEW items \in InfoRequests,
               requestInformation(a, u, v, i, items)
        PROVE  Goal
    <3>1. Exists(a)
      BY <2>2 DEF requestInformation, CompleteReview
    <3>2. buildRequestItems(a, items) \in SUBSET RequestItems
      BY <3>1, BuiltItems, RequestsAssumption, FieldsAssumption DEF RowsInv
    <3>3. Completed(a) /\ OthersUntold(a)
      BY <2>2, <3>2, BuiltItemsNameDocuments, CompleteReviewCompletes
         DEF requestInformation
    <3> QED
      BY <1>1, <3>3 DEF Transacted
  <2>3. ASSUME NEW i \in DOMAIN reviews[a], markReadyForDecision(a, u, v, i)
        PROVE  Goal
    <3>1. {} \in SUBSET RequestItems
      OBVIOUS
    <3>2. Completed(a) /\ OthersUntold(a)
      BY <2>3, <3>1, CompleteReviewCompletes DEF markReadyForDecision
    <3> QED
      BY <1>1, <3>2 DEF Transacted
  <2>4. CASE approve(a, u, v) \/ reject(a, u, v)
    BY <1>1, <2>4, FinalizeFinalizes DEF approve, reject, FinalStates, Transacted
  <2> QED
    BY <1>2, <2>1, <2>2, <2>3, <2>4 DEF Internal
<1>3. ASSUME UNCHANGED <<applications, reviews, auditLogs>>
      PROVE  Goal
  BY <1>3, SilentStep, SilentUntold
<1>4. ASSUME NEW a \in Applications, NEW u \in Users, NEW v \in LockVersions,
             Applicant(a, u, v)
      PROVE  Goal
  <2>1. ASSUME NEW i \in DOMAIN reviews[a], NEW answered \in SUBSET Questions,
               resubmitApplication(a, u, v, i, answered)
        PROVE  Goal
    BY <1>1, <2>1, ResubmitAnswers DEF Transacted
  <2>2. ASSUME NEW h \in Handlers,
               \/ \E body \in PatchBodies : beginUpdateDraft(h, a, u, v, body)
               \/ beginSubmit(h, a, u, v)
        PROVE  Goal
    BY <1>3, <2>2 DEF beginUpdateDraft, beginSubmit, Begin
  <2> QED
    BY <1>4, <2>1, <2>2 DEF Applicant
<1>5. ASSUME NEW a \in Applications, NEW u \in Users, NEW fields \in Contents,
             createApplication(a, u, fields)
      PROVE  Goal
  BY <1>1, <1>5, CreateUntold
<1>6. ASSUME NEW h \in Handlers, NEW a \in Applications, NEW u \in Users,
             NEW t \in DocumentTypes, beginUpload(h, a, u, t)
      PROVE  Goal
  BY <1>3, <1>6 DEF beginUpload, Begin
<1>7. ASSUME NEW h \in Handlers,
             finishUpdateDraft(h) \/ finishSubmit(h) \/ finishUpload(h) \/ abandon(h)
      PROVE  Goal
  <2>1. CASE finishUpdateDraft(h)
    BY <2>1, PatchStep, SilentUntold DEF finishUpdateDraft
  <2>2. CASE finishSubmit(h)
    BY <1>1, <2>2, SubmitSubmits DEF Transacted
  <2>3. CASE finishUpload(h) \/ abandon(h)
    BY <1>3, <2>3 DEF finishUpload, abandon
  <2> QED
    BY <1>7, <2>1, <2>2, <2>3
<1>8. CASE UNCHANGED vars
  BY <1>3, <1>8 DEF vars
<1> QED
  BY <1>2, <1>4, <1>5, <1>6, <1>7, <1>8 DEF Next

-----------------------------------------------------------------------------

RowsOf(a) == Outcomes(a) /\ Sequenced(a) /\ Delivered(a)

LEMMA DeliveredKept ==
  ASSUME NEW a \in Applications, TypeOK, TypeOK', DocumentsGrow(a),
         NEW row, NamesDocuments(row), row.documents_then \in VersionCounts,
         DeliveredTo(documents[a], row)
  PROVE  DeliveredTo(documents'[a], row)
<1>1. \A t \in DocumentTypes :
        /\ documents[a][t] \in Nat /\ documents'[a][t] \in Nat
        /\ row.documents_then[t] \in Nat
        /\ documents'[a][t] >= documents[a][t]
  BY BoundsAssumption
     DEF BoundsAssumption, VersionCounts, TypeOK, DocumentsGrow
<1>2. SUFFICES ASSUME NEW item \in row.request_items,
                      item.required, IsDocumentItem(item)
               PROVE  documents'[a][item.target] > row.documents_then[item.target]
  BY DEF DeliveredTo
<1>3. item.target \in DocumentTypes
  BY <1>2 DEF NamesDocuments
<1>4. documents[a][item.target] > row.documents_then[item.target]
  BY <1>2 DEF DeliveredTo
<1> QED
  BY <1>1, <1>3, <1>4

(* Whether the clock misled about a review depends on the reviews up to it.*)
LEMMA MisledKept ==
  ASSUME NEW a \in Applications, NEW i \in Nat,
         reviews[a][i].responded => reviews'[a][i].responded,
         \A k \in 1 .. i : reviews'[a][k].behind = reviews[a][k].behind,
         AnsweredOrMisled(a, i)
  PROVE  AnsweredOrMisled(a, i)'
<1>1. CASE reviews[a][i].responded
  BY <1>1 DEF AnsweredOrMisled
<1>2. CASE SetBackBetween(a, 1, i)
  <2>1. PICK k \in (1 + 1) .. i : reviews[a][k].behind
    BY <1>2 DEF SetBackBetween
  <2>2. k \in 1 .. i
    OBVIOUS
  <2>3. SetBackBetween(a, 1, i)'
    BY <2>1, <2>2 DEF SetBackBetween
  <2> QED
    BY <2>3 DEF AnsweredOrMisled
<1> QED
  BY <1>1, <1>2 DEF AnsweredOrMisled

(* Rows that stay answered stay delivered.                                 *)
LEMMA UntouchedKeeps ==
  ASSUME NEW a \in Applications, TypeOK, TypeOK', DocumentsGrow(a), Delivered(a),
         reviews'[a] = reviews[a]
  PROVE  Delivered(a)'
<1>1. SUFFICES ASSUME NEW i \in DOMAIN reviews[a]
               PROVE  /\ NamesDocuments(reviews[a][i])
                      /\ reviews[a][i].responded /\ ~reviews[a][i].behind =>
                           DeliveredTo(documents'[a], reviews[a][i])
  BY DEF Delivered, DeliveredTo, NamesDocuments, IsDocumentItem
<1>2. reviews[a][i].documents_then \in VersionCounts
  <2>1. reviews[a][i] \in ReviewRows
    BY LenProperties DEF TypeOK
  <2> QED
    BY <2>1 DEF ReviewRows
<1> QED
  BY <1>2, DeliveredKept DEF Delivered

LEMMA UntoldRows ==
  ASSUME NEW a \in Applications, TypeOK, TypeOK', DocumentsGrow(a), RowsOf(a),
         Untold(a)
  PROVE  RowsOf(a)'
<1>1. Delivered(a)'
  BY UntouchedKeeps DEF RowsOf, Untold
<1>2. Outcomes(a)'
  BY DEF RowsOf, Untold, Outcomes, AnsweredOrMisled, SetBackBetween
<1>3. Sequenced(a)'
  BY DEF RowsOf, Untold, Sequenced
<1> QED
  BY <1>1, <1>2, <1>3 DEF RowsOf

LEMMA BornRows ==
  ASSUME NEW a \in Applications, TypeOK, TypeOK', DocumentsGrow(a), RowsOf(a),
         Born(a)
  PROVE  RowsOf(a)'
<1>1. Delivered(a)'
  BY UntouchedKeeps DEF RowsOf, Born
<1>2. reviews[a] = <<>> /\ reviews'[a] = <<>>
  BY DEF RowsOf, Outcomes, Born
<1>3. Outcomes(a)' /\ Sequenced(a)'
  BY <1>2 DEF Outcomes, Sequenced
<1> QED
  BY <1>1, <1>3 DEF RowsOf

LEMMA SubmittedRows ==
  ASSUME NEW a \in Applications, TypeOK, TypeOK', DocumentsGrow(a), RowsOf(a),
         Submitted(a)
  PROVE  RowsOf(a)'
<1>1. Delivered(a)'
  BY UntouchedKeeps DEF RowsOf, Submitted
<1>2. reviews[a] = <<>> /\ reviews'[a] = <<>>
  BY DEF RowsOf, Sequenced, Submitted, Moves
<1>3. Outcomes(a)' /\ Sequenced(a)'
  BY <1>2 DEF Outcomes, Sequenced
<1> QED
  BY <1>1, <1>3 DEF RowsOf

LEMMA FinalizedRows ==
  ASSUME NEW a \in Applications, TypeOK, TypeOK', DocumentsGrow(a), RowsOf(a),
         Finalized(a)
  PROVE  RowsOf(a)'
<1>1. Delivered(a)'
  BY UntouchedKeeps DEF RowsOf, Finalized
<1>2. Outcomes(a)'
  BY DEF RowsOf, Outcomes, Finalized, Moves, FinalStates,
         AnsweredOrMisled, SetBackBetween
<1>3. Sequenced(a)'
  BY DEF RowsOf, Sequenced, Finalized, Moves, FinalStates
<1> QED
  BY <1>1, <1>2, <1>3 DEF RowsOf

(* A new cycle starts only on a submitted application, which has none, or  *)
(* on a resubmitted one, whose last cycle is answered.                     *)
LEMMA OpenedRows ==
  ASSUME NEW a \in Applications, TypeOK, TypeOK', DocumentsGrow(a), RowsOf(a),
         Opened(a)
  PROVE  RowsOf(a)'
<1> DEFINE n == Len(reviews[a])
<1>1. PICK row \in ReviewRows :
        /\ reviews'[a] = Append(reviews[a], row)
        /\ row.completed_at = 0 /\ ~row.responded /\ row.request_items = {}
  BY DEF Opened
<1>2. /\ n \in Nat /\ DOMAIN reviews[a] = 1 .. n
      /\ DOMAIN reviews'[a] = 1 .. n + 1 /\ Len(reviews'[a]) = n + 1
      /\ reviews'[a][n + 1] = row
      /\ \A j \in DOMAIN reviews[a] : reviews'[a][j] = reviews[a][j]
  BY <1>1, AppendRow, LenProperties DEF TypeOK
<1>3. n = 0 <=> reviews[a] = <<>>
  BY EmptySeq DEF TypeOK
<1> HIDE DEF n
<1>4. /\ Exists(a) /\ Exists(a)' /\ State(a)' = "UNDER_REVIEW"
      /\ State(a) \in {"SUBMITTED", "RESUBMITTED"}
  BY DEF Opened, Moves
<1>5. \A i \in 1 .. n :
        reviews[a][i].outcome = "INFO_REQUESTED" /\ AnsweredOrMisled(a, i)
  <2>1. \A i \in 1 .. n : i < n =>
          reviews[a][i].outcome = "INFO_REQUESTED" /\ AnsweredOrMisled(a, i)
    BY <1>2 DEF RowsOf, Outcomes, n
  <2>2. n # 0 =>
          reviews[a][n].outcome = "INFO_REQUESTED" /\ AnsweredOrMisled(a, n)
    BY <1>3, <1>4 DEF RowsOf, Outcomes, Sequenced, n
  <2> QED
    BY <1>2, <2>1, <2>2
<1>6. Outcomes(a)'
  <2>1. ASSUME NEW i \in 1 .. n PROVE AnsweredOrMisled(a, i)'
    <3>1. i \in Nat /\ \A k \in 1 .. i : reviews'[a][k] = reviews[a][k]
      BY <1>2
    <3> QED
      BY <1>2, <1>5, <3>1, MisledKept
  <2>2. \A i \in 1 .. n + 1 : i < n + 1 =>
          reviews'[a][i].outcome = "INFO_REQUESTED" /\ AnsweredOrMisled(a, i)'
    BY <1>2, <1>5, <2>1
  <2> QED
    BY <1>2, <1>4, <2>2 DEF Outcomes, FinalStates
<1>7. Sequenced(a)'
  BY <1>1, <1>2, <1>4 DEF RowsOf, Sequenced
<1>8. Delivered(a)'
  <2>1. ASSUME NEW i \in 1 .. n
        PROVE  /\ NamesDocuments(reviews[a][i])
               /\ reviews[a][i].responded /\ ~reviews[a][i].behind =>
                    DeliveredTo(documents'[a], reviews[a][i])
    <3>1. reviews[a][i].documents_then \in VersionCounts
      <4>1. reviews[a][i] \in ReviewRows
        BY <1>2, LenProperties DEF TypeOK
      <4> QED
        BY <4>1 DEF ReviewRows
    <3> QED
      BY <1>2, <3>1, DeliveredKept DEF RowsOf, Delivered
  <2>2. NamesDocuments(row)
    BY <1>1 DEF NamesDocuments
  <2>3. ASSUME NEW i \in 1 .. n + 1
        PROVE  /\ NamesDocuments(reviews'[a][i])
               /\ reviews'[a][i].responded /\ ~reviews'[a][i].behind =>
                    DeliveredTo(documents'[a], reviews'[a][i])
    <3>1. CASE i = n + 1
      BY <1>1, <1>2, <2>2, <3>1
    <3>2. CASE i # n + 1
      BY <1>2, <2>1, <3>2
    <3> QED
      BY <3>1, <3>2
  <2> QED
    BY <1>2, <2>3 DEF Delivered, DeliveredTo, NamesDocuments, IsDocumentItem
<1> QED
  BY <1>6, <1>7, <1>8 DEF RowsOf

(* Completed cycles name entries of the trail, so the one completed now is *)
(* later than all of them.                                                 *)
LEMMA CompletedRows ==
  ASSUME NEW a \in Applications, AuditInv, TypeOK', DocumentsGrow(a), RowsOf(a),
         Completed(a)
  PROVE  RowsOf(a)'
<1> DEFINE n == Len(reviews[a])
<1>1. TypeOK
  BY DEF AuditInv, RowsInv
<1>2. PICK row \in ReviewRows :
        /\ reviews'[a] = [reviews[a] EXCEPT ![n] = row]
        /\ row.completed_at = Len(auditLogs[a]) + 1
        /\ row.outcome = State(a)' /\ ~row.responded
        /\ NamesDocuments(row)
  BY DEF Completed
<1>3. n \in DOMAIN reviews[a] /\ reviews[a][n].completed_at = 0
  BY DEF Completed
<1>4. /\ n \in Nat /\ DOMAIN reviews[a] = 1 .. n
      /\ DOMAIN reviews'[a] = 1 .. n /\ Len(reviews'[a]) = n
      /\ reviews'[a][n] = row
      /\ \A j \in DOMAIN reviews[a] : j # n => reviews'[a][j] = reviews[a][j]
  BY <1>1, <1>2, <1>3, ReplaceRow, LenProperties DEF TypeOK
<1> HIDE DEF n
<1>5. /\ Exists(a)' /\ State(a)' \in {"INFO_REQUESTED", "READY_FOR_DECISION"}
  BY DEF Completed, Moves
<1>6. reviews'[a] # <<>>
  BY <1>3, <1>4
<1>7. Outcomes(a)'
  <2>1. ASSUME NEW i \in 1 .. n, i < n
        PROVE  reviews'[a][i].outcome = "INFO_REQUESTED" /\ AnsweredOrMisled(a, i)'
    <3>1. i \in Nat /\ \A k \in 1 .. i : reviews'[a][k] = reviews[a][k]
      BY <1>4, <2>1
    <3>2. reviews[a][i].outcome = "INFO_REQUESTED" /\ AnsweredOrMisled(a, i)
      BY <1>4, <2>1 DEF RowsOf, Outcomes, n
    <3> QED
      BY <1>4, <2>1, <3>1, <3>2, MisledKept
  <2> QED
    BY <1>2, <1>4, <1>5, <2>1 DEF Outcomes, FinalStates
<1>8. Sequenced(a)'
  <2>1. ASSUME NEW i \in DOMAIN reviews[a]
        PROVE  reviews[a][i].completed_at \in 0 .. Len(auditLogs[a])
    <3>1. /\ reviews[a][i].completed_at \in Nat
          /\ Len(auditLogs[a]) \in Nat
          /\ DOMAIN auditLogs[a] = 1 .. Len(auditLogs[a])
      <4>1. reviews[a][i] \in ReviewRows
        BY <1>1, LenProperties DEF TypeOK
      <4> QED
        BY <1>1, <4>1, LenProperties DEF ReviewRows, TypeOK
    <3>2. reviews[a][i].completed_at # 0 =>
            reviews[a][i].completed_at \in DOMAIN auditLogs[a]
      BY DEF AuditInv, Explained, Signed
    <3> QED
      BY <3>1, <3>2
  <2>2. Len(auditLogs[a]) \in Nat
    BY <1>1, LenProperties DEF TypeOK
  <2>3. \A i \in DOMAIN reviews'[a] :
          reviews'[a][i].completed_at = 0 => ~reviews'[a][i].responded
    BY <1>2, <1>4 DEF RowsOf, Sequenced
  <2>4. ASSUME NEW i \in DOMAIN reviews'[a], NEW j \in DOMAIN reviews'[a],
               i < j, reviews'[a][j].completed_at # 0
        PROVE  reviews'[a][i].completed_at < reviews'[a][j].completed_at
    <3>1. i # n /\ reviews'[a][i] = reviews[a][i]
      BY <1>4, <2>4
    <3>2. CASE j = n
      BY <1>2, <1>4, <2>1, <2>2, <3>1, <3>2
    <3>3. CASE j # n
      BY <1>4, <2>4, <3>1, <3>3 DEF RowsOf, Sequenced
    <3> QED
      BY <3>2, <3>3
  <2> QED
    BY <1>5, <2>3, <2>4 DEF Sequenced
<1>9. Delivered(a)'
  <2>1. ASSUME NEW i \in 1 .. n
        PROVE  /\ NamesDocuments(reviews'[a][i])
               /\ reviews'[a][i].responded /\ ~reviews'[a][i].behind =>
                    DeliveredTo(documents'[a], reviews'[a][i])
    <3>1. reviews[a][i].documents_then \in VersionCounts
      <4>1. reviews[a][i] \in ReviewRows
        BY <1>1, <1>4, LenProperties DEF TypeOK
      <4> QED
        BY <4>1 DEF ReviewRows
    <3>2. CASE i = n
      BY <1>2, <1>4, <3>2
    <3>3. CASE i # n
      BY <1>1, <1>4, <3>1, <3>3, DeliveredKept DEF RowsOf, Delivered
    <3> QED
      BY <3>2, <3>3
  <2> QED
    BY <1>4, <2>1 DEF Delivered, DeliveredTo, NamesDocuments, IsDocumentItem
<1> QED
  BY <1>7, <1>8, <1>9 DEF RowsOf

(* The information request with the latest time of completion is the newest*)
(* cycle, or the clock was set back after it.                              *)
LEMMA LatestRequestIsLast ==
  ASSUME NEW a \in Applications, TypeOK, ReviewsMatchState, RowsOf(a),
         Exists(a), State(a) = "INFO_REQUESTED",
         NEW i \in DOMAIN reviews[a], getLatestInfoRequestReview(a, i)
  PROVE  i = Len(reviews[a]) \/ SetBackBetween(a, i, Len(reviews[a]))
<1> DEFINE n == Len(reviews[a])
           asked == {j \in DOMAIN reviews[a] :
                       /\ reviews[a][j].outcome = "INFO_REQUESTED"
                       /\ reviews[a][j].completed_at # 0}
<1>1. n \in Nat /\ DOMAIN reviews[a] = 1 .. n
  BY LenProperties DEF TypeOK
<1>2. n \in DOMAIN reviews[a] /\ reviews[a] # <<>>
  BY <1>1
<1>3. reviews[a][n].outcome = "INFO_REQUESTED"
  BY <1>2 DEF RowsOf, Outcomes
<1>4. reviews[a][n].completed_at # 0
  BY <1>2 DEF ReviewsMatchState, OpenReviews
<1>5. /\ i \in asked
      /\ \A j \in asked :
           \/ reviews[a][j].completed_at <= reviews[a][i].completed_at
           \/ SetBackBetween(a, i, j)
  BY DEF getLatestInfoRequestReview
<1>6. \/ reviews[a][n].completed_at <= reviews[a][i].completed_at
      \/ SetBackBetween(a, i, n)
  BY <1>2, <1>3, <1>4, <1>5
<1>7. reviews[a][n].completed_at \in Nat /\ reviews[a][i].completed_at \in Nat
  <2>1. reviews[a][n] \in ReviewRows /\ reviews[a][i] \in ReviewRows
    BY <1>2, LenProperties DEF TypeOK
  <2> QED
    BY <2>1 DEF ReviewRows
<1>8. i < n => reviews[a][i].completed_at < reviews[a][n].completed_at
  BY <1>2, <1>4 DEF RowsOf, Sequenced
<1> QED
  BY <1>1, <1>6, <1>7, <1>8

(* The answered review keeps its outcome and times; it is the newest one,  *)
(* or the clock misled about the newest one.                               *)
LEMMA AnsweredRows ==
  ASSUME NEW a \in Applications, RowsInv, TypeOK', DocumentsGrow(a), RowsOf(a),
         Answered(a)
  PROVE  RowsOf(a)'
<1> DEFINE n == Len(reviews[a])
<1>1. TypeOK /\ ReviewsMatchState
  BY DEF RowsInv
<1>2. /\ Exists(a) /\ Exists(a)'
      /\ State(a) = "INFO_REQUESTED" /\ State(a)' = "RESUBMITTED"
  BY DEF Answered, Moves
<1>3. PICK i \in DOMAIN reviews[a] :
        /\ getLatestInfoRequestReview(a, i)
        /\ ~reviews[a][i].behind => DeliveredTo(documents[a], reviews[a][i])
        /\ reviews'[a] =
             [reviews[a] EXCEPT ![i] = [reviews[a][i] EXCEPT !.responded = TRUE]]
  BY DEF Answered
<1> DEFINE old == reviews[a][i]
           row == [old EXCEPT !.responded = TRUE]
<1>4. /\ reviews[a] \in Seq(ReviewRows) /\ old \in ReviewRows
      /\ n \in Nat /\ DOMAIN reviews[a] = 1 .. n
  BY <1>1, <1>3, LenProperties DEF TypeOK
<1> HIDE DEF old
<1>5. /\ row \in ReviewRows /\ row.responded
      /\ row.outcome = old.outcome /\ row.completed_at = old.completed_at
      /\ row.behind = old.behind
      /\ row.request_items = old.request_items
      /\ row.documents_then = old.documents_then
      /\ old.documents_then \in VersionCounts
  BY <1>4 DEF ReviewRows
<1> HIDE DEF row
<1>6. reviews'[a] = [reviews[a] EXCEPT ![i] = row]
  BY <1>3 DEF old, row
<1>7. /\ DOMAIN reviews'[a] = 1 .. n /\ Len(reviews'[a]) = n
      /\ reviews'[a][i] = row
      /\ \A j \in DOMAIN reviews[a] : j # i => reviews'[a][j] = reviews[a][j]
  BY <1>3, <1>4, <1>5, <1>6, ReplaceRow
<1>8. old.outcome = "INFO_REQUESTED" /\ old.completed_at # 0
  BY <1>3 DEF getLatestInfoRequestReview, old
<1>9. \A j \in 1 .. n :
         /\ reviews'[a][j].outcome = reviews[a][j].outcome
         /\ reviews'[a][j].behind = reviews[a][j].behind
         /\ reviews[a][j].responded => reviews'[a][j].responded
  BY <1>4, <1>5, <1>7 DEF old
<1>10. n \in 1 .. n /\ reviews[a][n].outcome = "INFO_REQUESTED"
  <2>1. reviews[a] # <<>>
    BY <1>3
  <2> QED
    BY <1>2, <1>3, <1>4, <2>1 DEF RowsOf, Outcomes
<1>11. AnsweredOrMisled(a, n)'
  <2>1. CASE i = n
    BY <1>5, <1>7, <2>1 DEF AnsweredOrMisled
  <2>2. CASE SetBackBetween(a, i, n)
    <3>1. PICK k \in (i + 1) .. n : reviews[a][k].behind
      BY <2>2 DEF SetBackBetween
    <3>2. k \in (1 + 1) .. n /\ k \in 1 .. n
      BY <1>3, <1>4
    <3>3. SetBackBetween(a, 1, n)'
      BY <1>7, <1>9, <3>1, <3>2 DEF SetBackBetween
    <3> QED
      BY <3>3, <1>7 DEF AnsweredOrMisled
  <2> QED
    BY <1>1, <1>2, <1>3, <2>1, <2>2, LatestRequestIsLast
<1>12. Outcomes(a)'
  <2>1. ASSUME NEW j \in 1 .. n, j < n
        PROVE  reviews'[a][j].outcome = "INFO_REQUESTED" /\ AnsweredOrMisled(a, j)'
    <3>1. reviews[a][j].outcome = "INFO_REQUESTED" /\ AnsweredOrMisled(a, j)
      BY <1>4, <2>1 DEF RowsOf, Outcomes
    <3>2. j \in Nat /\ 1 .. j \subseteq 1 .. n
      BY <1>4
    <3> QED
      BY <1>9, <3>1, <3>2, MisledKept
  <2>2. AnsweredOrMisled(a, n)' => AnsweredOrMisled(a, Len(reviews[a]))'
    BY <1>7 DEF AnsweredOrMisled, SetBackBetween
  <2> HIDE DEF n
  <2>3. reviews'[a][n].outcome = "INFO_REQUESTED"
    BY <1>9, <1>10
  <2> QED
    BY <1>2, <1>7, <1>11, <2>1, <2>2, <2>3 DEF Outcomes, FinalStates
<1>13. Sequenced(a)'
  <2>1. \A j \in DOMAIN reviews'[a] :
          reviews'[a][j].completed_at = reviews[a][j].completed_at
    BY <1>4, <1>5, <1>7 DEF old
  <2>2. \A j \in DOMAIN reviews'[a] :
          reviews'[a][j].completed_at = 0 => ~reviews'[a][j].responded
    BY <1>4, <1>5, <1>7, <1>8 DEF RowsOf, Sequenced
  <2>3. DOMAIN reviews'[a] = DOMAIN reviews[a]
    BY <1>4, <1>7
  <2>4. \A k, j \in DOMAIN reviews'[a] :
          k < j /\ reviews'[a][j].completed_at # 0 =>
            reviews'[a][k].completed_at < reviews'[a][j].completed_at
    BY <2>1, <2>3 DEF RowsOf, Sequenced
  <2> QED
    BY <1>2, <2>2, <2>4 DEF Sequenced
<1>14. Delivered(a)'
  <2>1. NamesDocuments(row) /\ (~row.behind => DeliveredTo(documents[a], row))
    BY <1>3, <1>5
       DEF RowsOf, Delivered, NamesDocuments, DeliveredTo, IsDocumentItem, old
  <2>2. ASSUME NEW j \in 1 .. n
        PROVE  /\ NamesDocuments(reviews'[a][j])
               /\ reviews'[a][j].responded /\ ~reviews'[a][j].behind =>
                    DeliveredTo(documents'[a], reviews'[a][j])
    <3>1. CASE j = i
      BY <1>1, <1>5, <1>7, <2>1, <3>1, DeliveredKept
    <3>2. CASE j # i
      <4>1. reviews[a][j].documents_then \in VersionCounts
        <5>1. reviews[a][j] \in ReviewRows
          BY <1>4, LenProperties
        <5> QED
          BY <5>1 DEF ReviewRows
      <4> QED
        BY <1>1, <1>4, <1>7, <3>2, <4>1, DeliveredKept DEF RowsOf, Delivered
    <3> QED
      BY <3>1, <3>2
  <2> QED
    BY <1>7, <2>2 DEF Delivered, DeliveredTo, NamesDocuments, IsDocumentItem
<1> QED
  BY <1>12, <1>13, <1>14 DEF RowsOf

-----------------------------------------------------------------------------

LEMMA OutcomeInvInit == Init => OutcomeInv
<1> SUFFICES ASSUME Init PROVE OutcomeInv
  OBVIOUS
<1>1. \A a \in Applications : ~Exists(a) /\ reviews[a] = <<>>
  BY DEF Init, Exists
<1> QED
  BY <1>1, AuditInvInit DEF OutcomeInv, Outcomes, Sequenced, Delivered

LEMMA OutcomeInvStep == OutcomeInv /\ [Next]_vars => OutcomeInv'
<1> SUFFICES ASSUME OutcomeInv, [Next]_vars PROVE OutcomeInv'
  OBVIOUS
<1>1. /\ AuditInv /\ AuditInv'
      /\ RowsInv /\ TypeOK /\ TypeOK'
  BY AuditInvStep DEF OutcomeInv, AuditInv, RowsInv
<1>2. ASSUME NEW b \in Applications PROVE RowsOf(b)'
  <2>1. RowsOf(b) /\ DocumentsGrow(b)
    BY <1>1, StepDocuments DEF OutcomeInv, RowsOf
  <2>2. CASE Untold(b)
    BY <1>1, <2>1, <2>2, UntoldRows
  <2>3. CASE Born(b)
    BY <1>1, <2>1, <2>3, BornRows
  <2>4. CASE Transacted(b)
    BY <1>1, <2>1, <2>4, SubmittedRows, OpenedRows, CompletedRows, AnsweredRows,
       FinalizedRows DEF Transacted
  <2> QED
    BY <1>1, <2>2, <2>3, <2>4, StepRows
<1> QED
  BY <1>1, <1>2 DEF OutcomeInv, RowsOf

LEMMA OutcomeInvAlways == Spec => []OutcomeInv
  BY OutcomeInvInit, OutcomeInvStep, PTL DEF Spec

(* What WorkflowService reads back from application_reviews is what the    *)
(* state says: the newest cycle ended as the application stands, and every *)
(* earlier one asked for information and was answered.                     *)
THEOREM OutcomesAgree == Spec => []OutcomesMatchState
<1>1. OutcomeInv => OutcomesMatchState
  BY DEF OutcomeInv, Outcomes, OutcomesMatchState
<1> QED
  BY <1>1, OutcomeInvAlways, PTL

(* resubmitApplication lets no old upload count: whenever a request is     *)
(* marked as answered, each document it requires has a version stored after*)
(* the request, and later steps never take one away.                       *)
THEOREM RequestsDelivered == Spec => []AnsweredRequestsDelivered
<1>1. OutcomeInv => AnsweredRequestsDelivered
  BY DEF OutcomeInv, Delivered, DeliveredTo, IsDocumentItem,
         AnsweredRequestsDelivered
<1> QED
  BY <1>1, OutcomeInvAlways, PTL

LogKept(a) ==
  \A n \in DOMAIN auditLogs[a] :
    n \in DOMAIN auditLogs'[a] /\ auditLogs'[a][n] = auditLogs[a][n]

ReviewKept(old, new) ==
  /\ old.completed_at # 0 => new = [old EXCEPT !.responded = new.responded]
  /\ old.responded => new.responded

LEMMA StepKeepsLog ==
  ASSUME RowsInv, [Next]_vars, NEW a \in Applications
  PROVE  LogKept(a)
<1>1. auditLogs[a] \in Seq(AuditRows)
  BY DEF RowsInv, TypeOK
<1>2. CASE Untold(a) \/ Born(a)
  BY <1>2 DEF Untold, Born, LogKept
<1>3. ASSUME NEW entry \in AuditRows, auditLogs'[a] = Append(auditLogs[a], entry)
      PROVE  LogKept(a)
  BY <1>1, <1>3, AppendRow, LenProperties DEF LogKept
<1> QED
  BY <1>2, <1>3, StepTraces DEF Logged

LEMMA StepKeepsReviews ==
  ASSUME OutcomeInv, [Next]_vars, NEW a \in Applications, NEW i \in DOMAIN reviews[a]
  PROVE  i \in DOMAIN reviews'[a] /\ ReviewKept(reviews[a][i], reviews'[a][i])
<1> DEFINE Goal == i \in DOMAIN reviews'[a] /\ ReviewKept(reviews[a][i], reviews'[a][i])
<1>1. RowsInv /\ TypeOK /\ RowsOf(a)
  BY DEF OutcomeInv, AuditInv, RowsInv, RowsOf
<1>2. reviews[a] \in Seq(ReviewRows) /\ reviews[a][i] \in ReviewRows
  BY <1>1, LenProperties DEF TypeOK
<1>3. ASSUME i \in DOMAIN reviews'[a], reviews'[a][i] = reviews[a][i]
      PROVE  Goal
  <2>1. \A row \in ReviewRows : row = [row EXCEPT !.responded = row.responded]
    BY DEF ReviewRows
  <2> QED
    BY <1>2, <1>3, <2>1 DEF ReviewKept
<1>4. CASE Untold(a) \/ Born(a) \/ Submitted(a) \/ Finalized(a)
  BY <1>3, <1>4 DEF Untold, Born, Submitted, Finalized
<1>5. CASE Opened(a)
  BY <1>2, <1>3, <1>5, AppendRow, LenProperties DEF Opened
<1>6. CASE Completed(a)
  <2>1. PICK row \in ReviewRows :
          reviews'[a] = [reviews[a] EXCEPT ![Len(reviews[a])] = row]
    BY <1>6 DEF Completed
  <2>2. /\ Len(reviews[a]) \in DOMAIN reviews[a]
        /\ reviews[a][Len(reviews[a])].completed_at = 0
    BY <1>6 DEF Completed
  <2>3. CASE i = Len(reviews[a])
    BY <1>1, <1>2, <2>1, <2>2, <2>3, ReplaceRow
       DEF RowsOf, Sequenced, ReviewKept
  <2>4. CASE i # Len(reviews[a])
    BY <1>2, <1>3, <2>1, <2>2, <2>4, ReplaceRow
  <2> QED
    BY <2>3, <2>4
<1>7. CASE Answered(a)
  <2>1. PICK k \in DOMAIN reviews[a] :
          reviews'[a] =
            [reviews[a] EXCEPT ![k] = [reviews[a][k] EXCEPT !.responded = TRUE]]
    BY <1>7 DEF Answered
  <2> DEFINE row == [reviews[a][k] EXCEPT !.responded = TRUE]
  <2>2. reviews[a][k] \in ReviewRows
    BY <1>2, LenProperties
  <2>3. row \in ReviewRows /\ row.responded
    BY <2>2 DEF ReviewRows
  <2>4. row = [reviews[a][k] EXCEPT !.responded = row.responded]
    BY <2>3
  <2> HIDE DEF row
  <2>5. reviews'[a] = [reviews[a] EXCEPT ![k] = row]
    BY <2>1 DEF row
  <2>6. CASE i = k
    BY <1>2, <2>3, <2>4, <2>5, <2>6, ReplaceRow DEF ReviewKept
  <2>7. CASE i # k
    BY <1>2, <1>3, <2>3, <2>5, <2>7, ReplaceRow
  <2> QED
    BY <2>6, <2>7
<1> QED
  BY <1>1, <1>4, <1>5, <1>6, <1>7, StepRows DEF Transacted

(* No handler or transaction of the workflow rewrites what is recorded: an *)
(* audit entry stays where it is, a completed review keeps its reviewer,   *)
(* outcome, items and time, and an answer is never withdrawn.              *)
THEOREM HistoryKept == Spec => HistoryIsKept
<1>1. OutcomeInv /\ [Next]_vars =>
        [\A a \in Applications :
           /\ \A n \in DOMAIN auditLogs[a] :
                n \in DOMAIN auditLogs'[a] /\ auditLogs'[a][n] = auditLogs[a][n]
           /\ \A i \in DOMAIN reviews[a] :
                LET old == reviews[a][i]
                    new == reviews'[a][i] IN
                  /\ i \in DOMAIN reviews'[a]
                  /\ old.completed_at # 0 =>
                       new = [old EXCEPT !.responded = new.responded]
                  /\ old.responded => new.responded]_vars
  <2> SUFFICES ASSUME OutcomeInv, [Next]_vars, NEW a \in Applications
               PROVE  /\ LogKept(a)
                      /\ \A i \in DOMAIN reviews[a] :
                           /\ i \in DOMAIN reviews'[a]
                           /\ ReviewKept(reviews[a][i], reviews'[a][i])
    BY DEF LogKept, ReviewKept
  <2>1. RowsInv
    BY DEF OutcomeInv, AuditInv
  <2> QED
    BY <2>1, StepKeepsLog, StepKeepsReviews
<1> QED
  BY <1>1, OutcomeInvAlways, PTL DEF Spec, HistoryIsKept

=============================================================================
