--------------------------- MODULE AuditTransaction --------------------------
(***************************************************************************)
(* The transactions that move an application (services/workflow.service.ts)*)
(* or an account (register and verifyEmail of auth.repository.ts) and      *)
(* append to its hash-chained audit trail, statement by statement, with    *)
(* the e-mails they send.                                                  *)
(*                                                                         *)
(* What a transaction writes is visible to the others after COMMIT; until  *)
(* then it holds the lock of the row it moves (SELECT ... FOR UPDATE, or   *)
(* the INSERT or UPDATE of the users row) and the key request_id of the    *)
(* entry it inserted.  Who may call what is in Workflow.tla and            *)
(* Accounts.tla; here every call carries the version its client last read. *)
(***************************************************************************)
EXTENDS Naturals, Sequences, FiniteSetsExt

CONSTANTS
  Applications,    \* subjects with a trail in audit_logs
  Accounts,        \* subjects with a trail in user_audit_logs
  Calls,           \* slots for calls in progress
  ClientIds,       \* values of the header x-request-id
  MaxEntries,      \* bound on the entries of all trails together
  MaxClockSteps,   \* bound: times the clock stands still or steps back
  NoCall           \* a row nobody has locked

Subjects == Applications \cup Accounts

(* crypto.randomUUID(), where the client sent no header: never repeated.   *)
Fresh == "fresh"

ASSUME SubjectsAssumption == Applications \cap Accounts = {}
ASSUME CallsAssumption == NoCall \notin Calls /\ Fresh \notin ClientIds
ASSUME BoundsAssumption == MaxEntries \in Nat /\ MaxClockSteps \in Nat

(* The states an operation may start from ...                              *)
From ==
  [submitApplication    |-> {"DRAFT"},
   startReview          |-> {"SUBMITTED", "RESUBMITTED"},
   requestInformation   |-> {"UNDER_REVIEW"},
   markReadyForDecision |-> {"UNDER_REVIEW"},
   resubmitApplication  |-> {"INFO_REQUESTED"},
   approve              |-> {"READY_FOR_DECISION"},
   reject               |-> {"READY_FOR_DECISION"},
   register             |-> {"NONE"},
   verifyEmail          |-> {"PENDING_EMAIL_VERIFICATION", "ACTIVE"}]

(* ... and the one it leads to.  verifyEmail does not look at the status.  *)
To ==
  [submitApplication    |-> "SUBMITTED",
   startReview          |-> "UNDER_REVIEW",
   requestInformation   |-> "INFO_REQUESTED",
   markReadyForDecision |-> "READY_FOR_DECISION",
   resubmitApplication  |-> "RESUBMITTED",
   approve              |-> "APPROVED",
   reject               |-> "REJECTED",
   register             |-> "PENDING_EMAIL_VERIFICATION",
   verifyEmail          |-> "ACTIVE"]

Operations == DOMAIN To

OperationsOn(s) ==
  IF s \in Accounts THEN {"register", "verifyEmail"}
                    ELSE Operations \ {"register", "verifyEmail"}

(* Mutant: every e-mail is started inside the transaction.                 *)
NotifiesInside_All(op) == TRUE

(* The e-mail of a decision is started inside the transaction ...          *)
NotifiesInside(op) == op \in {"approve", "reject"}

(* ... the others are sent when the transaction has returned.              *)
NotifiesAfter(op) ==
  op \in {"submitApplication", "requestInformation", "markReadyForDecision",
          "register"}

States == (UNION {From[op] : op \in Operations}) \cup {To[op] : op \in Operations}

(* Columns of audit_logs and user_audit_logs (which has no states; there   *)
(* they tell what the entry's event did to the account).  "previous" is the position  *)
(* of the entry whose hash is previous_hash, 0 for null.  "occurred_at"    *)
(* stands for the pair (occurred_at, created_at) and counts the commits on *)
(* the subject: an entry written after n commits, by a clock that has      *)
(* moved on since the last of them, is stamped n + 1.                      *)
Entries ==
  [before_state : States, after_state : States, previous : Nat,
   occurred_at : Nat, request_id : ClientIds \cup {Fresh}]

Idle == [step |-> "idle"]

(* A call that waits for the row, has read and checked it, has written its *)
(* entry and commits, or has committed and sends its e-mail.               *)
Waiting ==
  [step : {"waiting"}, op : Operations, subject : Subjects,
   lock_version : Nat, request_id : ClientIds \cup {Fresh}]

Writing ==
  [step : {"checked"}, op : Operations, subject : Subjects,
   read : States, request_id : ClientIds \cup {Fresh}]

Committing ==
  [step : {"committing"}, op : Operations, subject : Subjects,
   entry : Entries]

Notifying == [step : {"notifying"}, op : Operations, subject : Subjects]

VARIABLES
  rows,        \* rows[s]: the committed state and lock_version of s
  trail,       \* trail[s]: the committed entries of s, in commit order
  lockedBy,    \* lockedBy[s]: the call whose transaction holds the row
  calls,       \* calls[c]: the call in slot c
  mails,       \* e-mails started before their COMMIT: subject and state told
  rolledBack,  \* decisions told by a transaction that was rolled back
  clockSteps   \* times the clock stood still or stepped back

vars == <<rows, trail, lockedBy, calls, mails, rolledBack, clockSteps>>

Mails == [subject : Subjects, state : States]

TypeOK ==
  /\ rows \in [Subjects -> [state : States, lock_version : Nat]]
  /\ trail \in [Subjects -> Seq(Entries)]
  /\ lockedBy \in [Subjects -> Calls \cup {NoCall}]
  /\ calls \in [Calls -> {Idle} \cup Waiting \cup Writing \cup Committing \cup Notifying]
  /\ mails \subseteq Mails
  /\ rolledBack \subseteq mails
  /\ clockSteps \in 0..MaxClockSteps

FirstState == [s \in Subjects |-> IF s \in Accounts THEN "NONE" ELSE "DRAFT"]

Init ==
  /\ rows = [s \in Subjects |-> [state |-> FirstState[s], lock_version |-> 0]]
  /\ trail = [s \in Subjects |-> <<>>]
  /\ lockedBy = [s \in Subjects |-> NoCall]
  /\ calls = [c \in Calls |-> Idle]
  /\ mails = {}
  /\ rolledBack = {}
  /\ clockSteps = 0

-----------------------------------------------------------------------------

Continue(c, call) == calls' = [calls EXCEPT ![c] = call]

Step(c) == calls[c].step

Bounded == MapThenSumSet(LAMBDA s : Len(trail[s]), Subjects) < MaxEntries

OnOneTable(s, t) == (s \in Accounts) <=> (t \in Accounts)

(* A client that has read the row asks for an operation its state allows;  *)
(* the token that verifyEmail looks up first is consumed with its COMMIT.  *)
begin(c, op, s, id) ==
  /\ Step(c) = "idle"
  /\ op \in OperationsOn(s)
  /\ rows[s].state \in From[op] \ {"ACTIVE"}
  /\ Bounded
  /\ Continue(c, [step |-> "waiting", op |-> op, subject |-> s,
                  lock_version |-> rows[s].lock_version, request_id |-> id])
  /\ UNCHANGED <<rows, trail, lockedBy, mails, rolledBack, clockSteps>>

(* checkApplicationState and checkLockVersion on the row just read.        *)
Passes(call) ==
  /\ rows[call.subject].state \in From[call.op]
  /\ call.subject \in Applications =>
       rows[call.subject].lock_version = call.lock_version
  /\ Bounded

(* Mutant: SELECT without FOR UPDATE.                                      *)
Lockable_Always(c, s) == TRUE

Lockable(c, s) == lockedBy[s] = NoCall

(* The row is locked and read; a call that does not pass is rolled back.   *)
lockRow(c) ==
  /\ Step(c) = "waiting"
  /\ LET call == calls[c]
         s    == call.subject IN
       /\ Lockable(c, s)
       /\ IF Passes(call)
          THEN /\ Continue(c, [step |-> "checked", op |-> call.op, subject |-> s,
                               read |-> rows[s].state,
                               request_id |-> call.request_id])
               /\ lockedBy' = [lockedBy EXCEPT ![s] = c]
          ELSE Continue(c, Idle) /\ UNCHANGED lockedBy
  /\ UNCHANGED <<rows, trail, mails, rolledBack, clockSteps>>

(* Mutant: the oldest entry instead of the newest.                         *)
Predecessors_Oldest(s) ==
  {n \in DOMAIN trail[s] :
     \A m \in DOMAIN trail[s] : trail[s][n].occurred_at <= trail[s][m].occurred_at}

(* findOne ORDER BY occurred_at DESC, created_at DESC: any of the newest.  *)
Predecessors(s) ==
  {n \in DOMAIN trail[s] :
     \A m \in DOMAIN trail[s] : trail[s][m].occurred_at <= trail[s][n].occurred_at}

(* new Date(): later than every commit so far, unless the clock fails.     *)
Now(s, now) ==
  \/ /\ now = Len(trail[s]) + 1
     /\ UNCHANGED clockSteps
  \/ /\ clockSteps < MaxClockSteps
     /\ now \in 1..Len(trail[s])
     /\ clockSteps' = clockSteps + 1

(* The unique index on request_id: an open transaction has inserted the id *)
(* and the INSERT waits, or a committed entry has it and the INSERT fails. *)
Blocked(c, s, id) ==
  /\ id # Fresh
  /\ \E d \in Calls \ {c} :
       /\ Step(d) = "committing"
       /\ OnOneTable(calls[d].subject, s)
       /\ calls[d].entry.request_id = id

(* Mutant: no unique index on request_id.                                  *)
Taken_Never(s, id) == FALSE

Taken(s, id) ==
  /\ id # Fresh
  /\ \E t \in Subjects : OnOneTable(s, t) /\
       \E n \in DOMAIN trail[t] : trail[t][n].request_id = id

Release(c) ==
  lockedBy' = [s \in Subjects |-> IF lockedBy[s] = c THEN NoCall ELSE lockedBy[s]]

(* Mutant: the operation where the state is expected.                      *)
MailOf_Operation(call) == [subject |-> call.subject, state |-> call.op]

MailOf(call) == [subject |-> call.subject, state |-> To[call.op]]

(* The rows are updated, the entry is inserted over the one found last, the*)
(* row is read again for the answer, and a decision starts its e-mail.     *)
writeAuditLog(c) ==
  /\ Step(c) = "checked"
  /\ LET call == calls[c]
         s    == call.subject IN
       /\ ~Blocked(c, s, call.request_id)
       /\ IF Taken(s, call.request_id)
          THEN Continue(c, Idle) /\ Release(c) /\ UNCHANGED <<mails, clockSteps>>
          ELSE \E now \in 1..(Len(trail[s]) + 1) :
                 \E previous \in IF trail[s] = <<>> THEN {0} ELSE Predecessors(s) :
                   /\ Now(s, now)
                   /\ Continue(c, [step |-> "committing", op |-> call.op, subject |-> s,
                                   entry |-> [before_state |-> call.read,
                                              after_state |-> To[call.op],
                                              previous |-> previous,
                                              occurred_at |-> now,
                                              request_id |-> call.request_id]])
                   /\ mails' = IF NotifiesInside(call.op) THEN mails \cup {MailOf(call)} ELSE mails
                   /\ UNCHANGED lockedBy
  /\ UNCHANGED <<rows, trail, rolledBack>>

(* COMMIT.  When only its answer is lost the call ends without an e-mail.  *)
commit(c) ==
  /\ Step(c) = "committing"
  /\ LET call == calls[c]
         s    == call.subject IN
       /\ rows' = [rows EXCEPT ![s] =
                     [state |-> To[call.op],
                      lock_version |-> IF s \in Accounts THEN 0
                                                         ELSE @.lock_version + 1]]
       /\ trail' = [trail EXCEPT ![s] = Append(@, call.entry)]
       /\ \/ Continue(c, Idle)
          \/ /\ NotifiesAfter(call.op)
             /\ Continue(c, [step |-> "notifying", op |-> call.op, subject |-> s])
  /\ Release(c)
  /\ UNCHANGED <<mails, rolledBack, clockSteps>>

(* The e-mail is awaited, and the caller answered whether it went out or   *)
(* not.                                                                    *)
notify(c) ==
  /\ Step(c) = "notifying"
  /\ Continue(c, Idle)
  /\ UNCHANGED <<rows, trail, lockedBy, mails, rolledBack, clockSteps>>

InTransaction(c) == Step(c) \in {"checked", "committing"}

(* Mutant: the row stays locked.                                           *)
rollback_Held(c) ==
  /\ InTransaction(c)
  /\ Continue(c, Idle)
  /\ UNCHANGED <<rows, trail, lockedBy, mails, rolledBack, clockSteps>>

(* A statement or COMMIT fails, or the process stops.                      *)
rollback(c) ==
  /\ InTransaction(c)
  /\ Continue(c, Idle)
  /\ Release(c)
  /\ rolledBack' = IF Step(c) = "committing" /\ NotifiesInside(calls[c].op)
                   THEN rolledBack \cup {MailOf(calls[c])}
                   ELSE rolledBack
  /\ UNCHANGED <<rows, trail, mails, clockSteps>>

-----------------------------------------------------------------------------

Proceed(c) == lockRow(c) \/ writeAuditLog(c) \/ commit(c) \/ notify(c)

Next ==
  \/ \E c \in Calls, op \in Operations, s \in Subjects, id \in ClientIds \cup {Fresh} :
       begin(c, op, s, id)
  \/ \E c \in Calls : Proceed(c) \/ rollback(c)

(* The event loop continues every call and the database answers it.  Who   *)
(* waits for a row or a key is woken when its holder ends, and does not    *)
(* lose it to newcomers for ever.                                          *)
Fairness == \A c \in Calls : SF_vars(Proceed(c))

Spec == Init /\ [][Next]_vars /\ Fairness

-----------------------------------------------------------------------------

(* A trail has one root, and the chain of hashes follows the commits: a    *)
(* link that skips an entry is paid for by a clock that did not move on    *)
(* between two commits, one link for each time (workflow.service.ts:905,   *)
(* user-audit.service.ts:20).                                              *)
ChainFollowsCommits ==
  /\ \A s \in Subjects : \A n \in DOMAIN trail[s] :
       trail[s][n].previous \in IF n = 1 THEN {0} ELSE 1..(n - 1)
  /\ Cardinality(
       UNION {{<<s, n>> : n \in {k \in DOMAIN trail[s] : trail[s][k].previous # k - 1}} :
                s \in Subjects}) <= clockSteps

(* A request that is sent again under its id, to the same or to another    *)
(* subject, takes effect at most once (request-id.middleware.ts:13 with    *)
(* the unique indexes on request_id).                                      *)
RequestsTakeEffectOnce ==
  \A s, t \in Subjects : OnOneTable(s, t) =>
    \A n \in DOMAIN trail[s], m \in DOMAIN trail[t] :
      trail[s][n].request_id = trail[t][m].request_id /\ trail[s][n].request_id # Fresh =>
        s = t /\ n = m

(* An e-mail tells what was committed.  Only that of a decision is started *)
(* ahead of its COMMIT, and wrong when that fails: of two decisions told,  *)
(* one was rolled back (workflow.service.ts:485).                          *)
MailsTellCommitted ==
  LET Committed(mail) ==
        \E n \in DOMAIN trail[mail.subject] :
          trail[mail.subject][n].after_state = mail.state IN
    /\ \A c \in Calls : Step(c) = "notifying" => Committed(MailOf(calls[c]))
    /\ \A mail \in mails :
         /\ mail.state \in {"APPROVED", "REJECTED"}
         /\ \/ Committed(mail)
            \/ mail \in rolledBack
            \/ \E c \in Calls : Step(c) = "committing" /\ MailOf(calls[c]) = mail

(* Transactions that run side by side move a subject and its trail as if   *)
(* they had run one after the other.                                       *)
Trail == INSTANCE AuditTrail WITH
  Steps      <- UNION {From[op] \X {To[op]} : op \in Operations},
  FirstStage <- FirstState,
  stage      <- [s \in Subjects |-> rows[s].state],
  trail      <- [s \in Subjects |->
                   [n \in DOMAIN trail[s] |->
                      <<trail[s][n].before_state, trail[s][n].after_state>>]]

ImplementsTrail == Trail!Spec

(* No call waits for ever, for a row or for a request id.                  *)
CallsEnd == \A c \in Calls : Step(c) # "idle" ~> Step(c) = "idle"

=============================================================================
