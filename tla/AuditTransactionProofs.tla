------------------------ MODULE AuditTransactionProofs -----------------------
(***************************************************************************)
(* The transactions of AuditTransaction.tla, for every number of subjects, *)
(* calls and client ids: they implement AuditTrail.tla, a request takes    *)
(* effect once, e-mails tell what was committed, and the chain of hashes   *)
(* follows the commits.  Everything rests on the row lock: between locking *)
(* a row and COMMIT or ROLLBACK a call is the only one on its subject, so  *)
(* what it has read still holds when it commits.                           *)
(***************************************************************************)
EXTENDS AuditTransaction, FiniteSetTheorems, SequenceTheorems, TLAPS

CallStates == {Idle} \cup Waiting \cup Writing \cup Committing \cup Notifying

(* A transaction holds the row of its subject.                             *)
RowsLocked ==
  \A c \in Calls : InTransaction(c) => lockedBy[calls[c].subject] = c

(* What it has read is what is committed, and it allows the operation; a   *)
(* decision that only waits for its COMMIT has started its e-mail.         *)
ReadsHold ==
  \A c \in Calls :
    /\ Step(c) = "checked" =>
         /\ calls[c].read = rows[calls[c].subject].state
         /\ calls[c].read \in From[calls[c].op]
    /\ Step(c) = "committing" =>
         /\ calls[c].entry.before_state = rows[calls[c].subject].state
         /\ calls[c].entry.before_state \in From[calls[c].op]
         /\ calls[c].entry.after_state = To[calls[c].op]
         /\ NotifiesInside(calls[c].op) => MailOf(calls[c]) \in mails

LockInv == TypeOK /\ RowsLocked /\ ReadsHold

-----------------------------------------------------------------------------
(* The states and steps of calls.                                          *)

LEMMA CallKinds ==
  ASSUME TypeOK, NEW c \in Calls
  PROVE  /\ Step(c) = "idle" => calls[c] = Idle
         /\ Step(c) = "waiting" => calls[c] \in Waiting
         /\ Step(c) = "checked" => calls[c] \in Writing
         /\ Step(c) = "committing" => calls[c] \in Committing
         /\ Step(c) = "notifying" => calls[c] \in Notifying
  BY DEF TypeOK, Step, Idle, Waiting, Writing, Committing, Notifying

LEMMA StatesOfOperations ==
  ASSUME NEW op \in Operations
  PROVE  From[op] \subseteq States /\ To[op] \in States
  BY DEF States

LEMMA FirstStatesAreStates == FirstState \in [Subjects -> States]
<1>1. "submitApplication" \in Operations /\ "register" \in Operations
  BY DEF Operations, To
<1>2. "DRAFT" \in From["submitApplication"] /\ "NONE" \in From["register"]
  BY DEF From
<1>3. "DRAFT" \in States /\ "NONE" \in States
  BY <1>1, <1>2 DEF States
<1> QED
  BY <1>3 DEF FirstState

LEMMA Continues ==
  ASSUME TypeOK, NEW c \in Calls, NEW call, Continue(c, call)
  PROVE  /\ calls'[c] = call
         /\ \A d \in Calls : d # c => calls'[d] = calls[d]
         /\ call \in CallStates => calls' \in [Calls -> CallStates]
  BY DEF TypeOK, Continue, CallStates

LEMMA Releases ==
  ASSUME TypeOK, NEW c \in Calls, Release(c)
  PROVE  /\ lockedBy' \in [Subjects -> Calls \cup {NoCall}]
         /\ \A s \in Subjects : lockedBy[s] # c => lockedBy'[s] = lockedBy[s]
  BY DEF TypeOK, Release

-----------------------------------------------------------------------------

LEMMA LockInvInit == Init => LockInv
<1> SUFFICES ASSUME Init PROVE LockInv
  OBVIOUS
<1>1. TypeOK
  <2>1. rows \in [Subjects -> [state : States, lock_version : Nat]]
    BY FirstStatesAreStates DEF Init
  <2>2. trail \in [Subjects -> Seq(Entries)]
    BY EmptySeq DEF Init
  <2>3. clockSteps \in 0..MaxClockSteps
    BY BoundsAssumption DEF BoundsAssumption, Init
  <2> QED
    BY <2>1, <2>2, <2>3 DEF Init, TypeOK
<1>2. \A c \in Calls : Step(c) = "idle"
  BY DEF Init, Step, Idle
<1> QED
  BY <1>1, <1>2 DEF LockInv, RowsLocked, ReadsHold, InTransaction

(* A call that begins, gives up or ends outside a transaction.             *)
LEMMA LeavesLocks ==
  ASSUME LockInv, NEW c \in Calls, NEW call \in {Idle} \cup Waiting \cup Notifying,
         Continue(c, call),
         lockedBy' = lockedBy \/ Release(c),
         rows' = rows, trail' \in [Subjects -> Seq(Entries)],
         mails' = mails, rolledBack' \subseteq mails',
         clockSteps' \in 0..MaxClockSteps
  PROVE  LockInv'
<1>1. TypeOK /\ call \in CallStates
  BY DEF LockInv, CallStates
<1>2. /\ calls'[c] = call
      /\ \A d \in Calls : d # c => calls'[d] = calls[d]
      /\ calls' \in [Calls -> CallStates]
  BY <1>1, Continues
<1>3. TypeOK'
  BY <1>1, <1>2, Releases DEF TypeOK, CallStates
<1>4. ~InTransaction(c)'
  BY <1>2 DEF InTransaction, Step, Idle, Waiting, Notifying
<1>5. ASSUME NEW d \in Calls, d # c
      PROVE  /\ InTransaction(d)' => lockedBy'[calls'[d].subject] = d
             /\ Step(d)' = "checked" =>
                  /\ calls'[d].read = rows'[calls'[d].subject].state
                  /\ calls'[d].read \in From[calls'[d].op]
             /\ Step(d)' = "committing" =>
                  /\ calls'[d].entry.before_state = rows'[calls'[d].subject].state
                  /\ calls'[d].entry.before_state \in From[calls'[d].op]
                  /\ calls'[d].entry.after_state = To[calls'[d].op]
                  /\ NotifiesInside(calls'[d].op) => MailOf(calls'[d]) \in mails'
  <2>1. calls'[d] = calls[d]
    BY <1>2, <1>5
  <2>2. InTransaction(d) => calls[d].subject \in Subjects
    BY <1>1, CallKinds DEF InTransaction, Writing, Committing
  <2>3. InTransaction(d) => lockedBy'[calls[d].subject] = lockedBy[calls[d].subject]
    BY <1>1, <1>5, <2>2, Releases DEF LockInv, RowsLocked
  <2> QED
    BY <2>1, <2>3 DEF LockInv, RowsLocked, ReadsHold, InTransaction, Step, MailOf
<1> QED
  BY <1>3, <1>4, <1>5 DEF LockInv, RowsLocked, ReadsHold, InTransaction

LEMMA LockRowKeepsLocks ==
  ASSUME LockInv, NEW c \in Calls, lockRow(c)
  PROVE  LockInv'
<1> DEFINE call == calls[c]
           s == call.subject
           writing == [step |-> "checked", op |-> call.op, subject |-> s,
                       read |-> rows[s].state, request_id |-> call.request_id]
<1>1. TypeOK /\ UNCHANGED <<rows, trail, mails, rolledBack, clockSteps>>
  BY DEF LockInv, lockRow
<1>2. call \in Waiting
  BY <1>1, CallKinds DEF lockRow
<1>3. CASE ~Passes(call)
  BY <1>1, <1>3, LeavesLocks DEF lockRow, TypeOK
<1>4. CASE Passes(call)
  <2>1. /\ Continue(c, writing)
        /\ lockedBy' = [lockedBy EXCEPT ![s] = c]
        /\ lockedBy[s] = NoCall
    BY <1>4 DEF lockRow, Lockable
  <2>2. s \in Subjects /\ call.op \in Operations /\ rows[s].state \in States
    BY <1>1, <1>2 DEF Waiting, TypeOK
  <2>3. writing \in Writing
    BY <1>2, <2>2 DEF Writing, Waiting
  <2>4. /\ writing.step = "checked" /\ writing.subject = s
        /\ writing.read = rows[s].state /\ writing.op = call.op
    OBVIOUS
  <2>5. rows[s].state \in From[call.op]
    BY <1>4 DEF Passes
  <2> HIDE DEF writing, call, s
  <2>6. /\ calls'[c] = writing
        /\ \A d \in Calls : d # c => calls'[d] = calls[d]
        /\ calls' \in [Calls -> CallStates]
    BY <1>1, <2>1, <2>3, Continues DEF CallStates
  <2>7. /\ lockedBy'[s] = c
        /\ \A t \in Subjects : t # s => lockedBy'[t] = lockedBy[t]
        /\ lockedBy' \in [Subjects -> Calls \cup {NoCall}]
    BY <1>1, <2>1, <2>2 DEF TypeOK
  <2>8. TypeOK'
    BY <1>1, <2>6, <2>7 DEF TypeOK, CallStates
  <2>9. ASSUME NEW d \in Calls, d # c
        PROVE  /\ InTransaction(d)' => lockedBy'[calls'[d].subject] = d
               /\ Step(d)' = "checked" =>
                    /\ calls'[d].read = rows'[calls'[d].subject].state
                    /\ calls'[d].read \in From[calls'[d].op]
               /\ Step(d)' = "committing" =>
                    /\ calls'[d].entry.before_state = rows'[calls'[d].subject].state
                    /\ calls'[d].entry.before_state \in From[calls'[d].op]
                    /\ calls'[d].entry.after_state = To[calls'[d].op]
                    /\ NotifiesInside(calls'[d].op) => MailOf(calls'[d]) \in mails'
    <3>1. calls'[d] = calls[d] /\ rows' = rows /\ mails' = mails
      BY <1>1, <2>6, <2>9
    <3>2. InTransaction(d) => calls[d].subject \in Subjects \ {s}
      BY <1>1, <2>1, CallKinds, CallsAssumption
         DEF LockInv, RowsLocked, InTransaction, Writing, Committing, CallsAssumption
    <3>3. InTransaction(d) => lockedBy'[calls[d].subject] = d
      BY <2>7, <3>2 DEF LockInv, RowsLocked
    <3> QED
      BY <3>1, <3>3 DEF LockInv, ReadsHold, InTransaction, Step, MailOf
  <2>10. /\ InTransaction(c)' => lockedBy'[calls'[c].subject] = c
         /\ Step(c)' = "checked" =>
              /\ calls'[c].read = rows'[calls'[c].subject].state
              /\ calls'[c].read \in From[calls'[c].op]
         /\ Step(c)' # "committing"
    BY <1>1, <2>4, <2>5, <2>6, <2>7 DEF Step
  <2>11. RowsLocked'
    BY <2>9, <2>10 DEF RowsLocked, InTransaction, Step
  <2>12. ReadsHold'
    BY <2>9, <2>10 DEF ReadsHold, MailOf, Step
  <2> QED
    BY <2>8, <2>11, <2>12 DEF LockInv
<1> QED
  BY <1>3, <1>4

(* What writeAuditLog leaves for the COMMIT.                               *)
Written(c) ==
  /\ Step(c) = "checked"
  /\ calls'[c] \in Committing
  /\ calls' = [calls EXCEPT ![c] = calls'[c]]
  /\ \A d \in Calls : d # c => calls'[d] = calls[d]
  /\ calls'[c].op = calls[c].op
  /\ calls'[c].subject = calls[c].subject
  /\ calls'[c].entry.before_state = calls[c].read
  /\ calls'[c].entry.after_state = To[calls[c].op]
  /\ calls'[c].entry.request_id = calls[c].request_id
  /\ ~Blocked(c, calls[c].subject, calls[c].request_id)
  /\ ~Taken(calls[c].subject, calls[c].request_id)
  /\ LET log == trail[calls[c].subject]
         entry == calls'[c].entry IN
       /\ entry.previous \in IF log = <<>> THEN {0} ELSE Predecessors(calls[c].subject)
       /\ entry.occurred_at \in 1 .. Len(log) + 1
       /\ Now(calls[c].subject, entry.occurred_at)
  /\ mails' = IF NotifiesInside(calls[c].op) THEN mails \cup {MailOf(calls[c])} ELSE mails
  /\ UNCHANGED <<rows, trail, lockedBy, rolledBack>>

LEMMA WriteEffect ==
  ASSUME TypeOK, NEW c \in Calls, writeAuditLog(c),
         ~Taken(calls[c].subject, calls[c].request_id)
  PROVE  Written(c)
<1> DEFINE call == calls[c]
           s == call.subject
<1>1. call \in Writing
  BY CallKinds DEF writeAuditLog
<1>2. s \in Subjects /\ call.op \in Operations /\ call.read \in States
      /\ call.request_id \in ClientIds \cup {Fresh}
  BY <1>1 DEF Writing
<1>3. Len(trail[s]) \in Nat /\ DOMAIN trail[s] = 1 .. Len(trail[s])
  BY <1>2, LenProperties DEF TypeOK
<1>4. PICK now \in 1 .. Len(trail[s]) + 1,
           previous \in IF trail[s] = <<>> THEN {0} ELSE Predecessors(s) :
        /\ Now(s, now)
        /\ Continue(c, [step |-> "committing", op |-> call.op, subject |-> s,
                        entry |-> [before_state |-> call.read,
                                   after_state |-> To[call.op],
                                   previous |-> previous,
                                   occurred_at |-> now,
                                   request_id |-> call.request_id]])
        /\ mails' = IF NotifiesInside(call.op) THEN mails \cup {MailOf(call)} ELSE mails
        /\ UNCHANGED lockedBy
  BY DEF writeAuditLog
<1> DEFINE entry == [before_state |-> call.read, after_state |-> To[call.op],
                     previous |-> previous, occurred_at |-> now,
                     request_id |-> call.request_id]
           next == [step |-> "committing", op |-> call.op, subject |-> s,
                    entry |-> entry]
<1>5. previous \in Nat
  BY <1>3 DEF Predecessors
<1>6. To[call.op] \in States
  BY <1>2, StatesOfOperations
<1>7. entry \in Entries
  BY <1>2, <1>3, <1>5, <1>6 DEF Entries
<1>8. /\ entry.before_state = call.read /\ entry.after_state = To[call.op]
      /\ entry.previous = previous /\ entry.occurred_at = now
      /\ entry.request_id = call.request_id
  OBVIOUS
<1> HIDE DEF entry
<1>9. /\ next \in Committing /\ next.op = call.op /\ next.subject = s
      /\ next.entry = entry
  BY <1>2, <1>7 DEF Committing
<1>10. Continue(c, next)
  BY <1>4 DEF entry
<1> HIDE DEF next
<1>11. /\ calls'[c] = next
       /\ calls' = [calls EXCEPT ![c] = next]
       /\ \A d \in Calls : d # c => calls'[d] = calls[d]
  BY <1>10, Continues DEF Continue
<1>12. Step(c) = "checked" /\ ~Blocked(c, s, call.request_id)
       /\ UNCHANGED <<rows, trail, rolledBack>>
  BY DEF writeAuditLog
<1> QED
  BY <1>4, <1>8, <1>9, <1>11, <1>12 DEF Written

LEMMA WriteKeepsLocks ==
  ASSUME LockInv, NEW c \in Calls, Written(c)
  PROVE  LockInv'
<1>1. TypeOK /\ rows' = rows /\ lockedBy' = lockedBy /\ mails \subseteq mails'
  BY DEF LockInv, Written
<1>2. calls[c] \in Writing
  BY <1>1, CallKinds DEF Written
<1>3. calls'[c] \in Committing /\ Step(c)' = "committing"
  BY DEF Written, Committing, Step
<1>4. TypeOK'
  <2>1. calls' \in [Calls -> CallStates]
    BY <1>1, <1>3 DEF TypeOK, Written, CallStates
  <2>2. MailOf(calls[c]) \in Mails
    BY <1>2, StatesOfOperations DEF MailOf, Mails, Writing
  <2>3. clockSteps' \in 0 .. MaxClockSteps
    BY <1>1, BoundsAssumption DEF TypeOK, Written, Now, BoundsAssumption
  <2> QED
    BY <1>1, <2>1, <2>2, <2>3 DEF TypeOK, Written, CallStates
<1>5. RowsLocked'
  BY <1>1, <1>3 DEF LockInv, RowsLocked, InTransaction, Step, Written
<1>6. ReadsHold'
  <2>1. ASSUME NEW d \in Calls, d # c
        PROVE  /\ calls'[d] = calls[d]
               /\ MailOf(calls'[d]) = MailOf(calls[d])
    BY <2>1 DEF Written, MailOf
  <2>2. /\ calls'[c].entry.before_state = rows'[calls'[c].subject].state
        /\ calls'[c].entry.before_state \in From[calls'[c].op]
        /\ calls'[c].entry.after_state = To[calls'[c].op]
    BY <1>1 DEF LockInv, ReadsHold, Written
  <2>3. NotifiesInside(calls'[c].op) => MailOf(calls'[c]) \in mails'
    BY DEF Written, MailOf
  <2>4. ASSUME NEW d \in Calls
        PROVE  /\ Step(d)' = "checked" =>
                    /\ calls'[d].read = rows'[calls'[d].subject].state
                    /\ calls'[d].read \in From[calls'[d].op]
               /\ Step(d)' = "committing" =>
                    /\ calls'[d].entry.before_state = rows'[calls'[d].subject].state
                    /\ calls'[d].entry.before_state \in From[calls'[d].op]
                    /\ calls'[d].entry.after_state = To[calls'[d].op]
                    /\ NotifiesInside(calls'[d].op) => MailOf(calls'[d]) \in mails'
    <3>1. CASE d = c
      BY <1>3, <2>2, <2>3, <3>1
    <3>2. CASE d # c
      BY <1>1, <2>1, <3>2 DEF LockInv, ReadsHold, Step
    <3> QED
      BY <3>1, <3>2
  <2> QED
    BY <2>4 DEF ReadsHold, MailOf
<1> QED
  BY <1>4, <1>5, <1>6 DEF LockInv

(* A COMMIT moves the row of its subject and adds its entry to the trail.  *)
Committed(c) ==
  LET s == calls[c].subject IN
    /\ Step(c) = "committing"
    /\ \E row \in [state : {To[calls[c].op]}, lock_version : Nat] :
         rows' = [rows EXCEPT ![s] = row]
    /\ trail' = [trail EXCEPT ![s] = Append(trail[s], calls[c].entry)]
    /\ \/ Continue(c, Idle)
       \/ /\ NotifiesAfter(calls[c].op)
          /\ Continue(c, [step |-> "notifying", op |-> calls[c].op, subject |-> s])
    /\ Release(c)
    /\ UNCHANGED <<mails, rolledBack, clockSteps>>

LEMMA CommitEffect ==
  ASSUME TypeOK, NEW c \in Calls, commit(c)
  PROVE  Committed(c)
<1> DEFINE s == calls[c].subject
           r == [state |-> To[calls[c].op],
                 lock_version |-> IF s \in Accounts THEN 0 ELSE rows[s].lock_version + 1]
<1>1. calls[c] \in Committing
  BY CallKinds DEF commit
<1>2. s \in Subjects
  BY <1>1 DEF Committing
<1>3. rows' = [rows EXCEPT ![s] = r] /\ trail' = [trail EXCEPT ![s] = Append(trail[s], calls[c].entry)]
  BY <1>2 DEF commit, TypeOK
<1>4. rows[s].lock_version \in Nat
  BY <1>2 DEF TypeOK
<1>5. r \in [state : {To[calls[c].op]}, lock_version : Nat]
  BY <1>4
<1> QED
  BY <1>3, <1>5 DEF Committed, commit

LEMMA CommitKeepsLocks ==
  ASSUME LockInv, NEW c \in Calls, Committed(c)
  PROVE  LockInv'
<1> DEFINE s == calls[c].subject
<1>1. TypeOK /\ calls[c] \in Committing
  BY CallKinds DEF LockInv, Committed
<1>2. s \in Subjects /\ calls[c].op \in Operations /\ calls[c].entry \in Entries
  BY <1>1 DEF Committing
<1>3. /\ calls'[c] \in {Idle} \cup Notifying
      /\ \A d \in Calls : d # c => calls'[d] = calls[d]
      /\ calls' \in [Calls -> CallStates]
  BY <1>1, <1>2, Continues DEF Committed, Notifying, CallStates
<1>4. ~InTransaction(c)'
  BY <1>3 DEF InTransaction, Step, Idle, Notifying
<1>5. trail' \in [Subjects -> Seq(Entries)]
  <2>1. Append(trail[s], calls[c].entry) \in Seq(Entries)
    BY <1>1, <1>2 DEF TypeOK
  <2> QED
    BY <1>1, <1>2, <2>1 DEF TypeOK, Committed
<1>6. PICK row \in [state : {To[calls[c].op]}, lock_version : Nat] :
        rows' = [rows EXCEPT ![s] = row]
  BY DEF Committed
<1>7. rows' \in [Subjects -> [state : States, lock_version : Nat]]
  <2>1. row \in [state : States, lock_version : Nat]
    BY <1>2, StatesOfOperations
  <2> QED
    BY <1>1, <1>2, <1>6, <2>1 DEF TypeOK
<1>8. TypeOK'
  BY <1>1, <1>3, <1>5, <1>7, Releases DEF TypeOK, Committed, CallStates
<1>9. ASSUME NEW d \in Calls, d # c, InTransaction(d)
      PROVE  /\ lockedBy'[calls[d].subject] = d
             /\ rows'[calls[d].subject] = rows[calls[d].subject]
  <2>1. calls[d].subject \in Subjects
    BY <1>1, <1>9, CallKinds DEF InTransaction, Writing, Committing
  <2>2. lockedBy[calls[d].subject] = d /\ lockedBy[s] = c
    BY <1>9 DEF LockInv, RowsLocked, InTransaction, Committed
  <2> QED
    BY <1>1, <1>6, <1>9, <2>1, <2>2, Releases DEF TypeOK, Committed
<1>10. RowsLocked'
  BY <1>3, <1>4, <1>9 DEF RowsLocked, InTransaction, Step
<1>11. ReadsHold'
  <2>1. mails' = mails
    BY DEF Committed
  <2>2. ASSUME NEW d \in Calls
        PROVE  /\ Step(d)' = "checked" =>
                    /\ calls'[d].read = rows'[calls'[d].subject].state
                    /\ calls'[d].read \in From[calls'[d].op]
               /\ Step(d)' = "committing" =>
                    /\ calls'[d].entry.before_state = rows'[calls'[d].subject].state
                    /\ calls'[d].entry.before_state \in From[calls'[d].op]
                    /\ calls'[d].entry.after_state = To[calls'[d].op]
                    /\ NotifiesInside(calls'[d].op) => MailOf(calls'[d]) \in mails'
    <3>1. CASE d = c
      BY <1>4, <3>1 DEF InTransaction
    <3>2. CASE d # c
      BY <1>3, <1>9, <2>1, <3>2 DEF LockInv, ReadsHold, InTransaction, Step, MailOf
    <3> QED
      BY <3>1, <3>2
  <2> QED
    BY <2>2 DEF ReadsHold, MailOf
<1> QED
  BY <1>8, <1>10, <1>11 DEF LockInv

-----------------------------------------------------------------------------
(* Every step is one of three things for the trails: it leaves them alone, *)
(* writes the entry of one call, or commits it.                            *)

Silent(c) ==
  /\ \A d \in Calls : d # c => calls'[d] = calls[d]
  /\ Step(c)' \notin {"committing", "notifying"}
  /\ rolledBack \subseteq rolledBack'
  /\ Step(c) = "committing" /\ NotifiesInside(calls[c].op) =>
       MailOf(calls[c]) \in rolledBack'
  /\ UNCHANGED <<rows, trail, mails, clockSteps>>

LEMMA Ends ==
  ASSUME LockInv, NEW c \in Calls, Step(c) \in {"waiting", "checked", "notifying"},
         Continue(c, Idle), lockedBy' = lockedBy \/ Release(c),
         UNCHANGED <<rows, trail, mails, rolledBack, clockSteps>>
  PROVE  LockInv' /\ Silent(c)
<1>1. TypeOK
  BY DEF LockInv
<1>2. LockInv'
  BY <1>1, LeavesLocks DEF TypeOK
<1>3. /\ calls'[c] = Idle
      /\ \A d \in Calls : d # c => calls'[d] = calls[d]
  BY <1>1, Continues
<1> QED
  BY <1>2, <1>3 DEF Silent, Step, Idle

LEMMA BeginSilent ==
  ASSUME LockInv, NEW c \in Calls, NEW op \in Operations, NEW s \in Subjects,
         NEW id \in ClientIds \cup {Fresh}, begin(c, op, s, id)
  PROVE  LockInv' /\ Silent(c)
<1> DEFINE call == [step |-> "waiting", op |-> op, subject |-> s,
                    lock_version |-> rows[s].lock_version, request_id |-> id]
<1>1. TypeOK
  BY DEF LockInv
<1>2. call \in Waiting /\ call.step = "waiting"
  <2>1. rows[s].lock_version \in Nat
    BY <1>1 DEF TypeOK
  <2> QED
    BY <2>1 DEF Waiting
<1>3. /\ Step(c) = "idle" /\ Continue(c, call)
      /\ UNCHANGED <<rows, trail, lockedBy, mails, rolledBack, clockSteps>>
  BY DEF begin
<1> HIDE DEF call
<1>4. LockInv'
  BY <1>1, <1>2, <1>3, LeavesLocks DEF TypeOK
<1>5. /\ calls'[c] = call
      /\ \A d \in Calls : d # c => calls'[d] = calls[d]
  BY <1>1, <1>3, Continues
<1> QED
  BY <1>2, <1>3, <1>4, <1>5 DEF Silent, Step

LEMMA LockRowSilent ==
  ASSUME LockInv, NEW c \in Calls, lockRow(c)
  PROVE  LockInv' /\ Silent(c)
<1>1. LockInv'
  BY LockRowKeepsLocks
<1>2. TypeOK /\ calls \in [Calls -> CallStates]
  BY DEF LockInv, TypeOK, CallStates
<1>3. /\ Step(c)' \in {"idle", "checked"}
      /\ \A d \in Calls : d # c => calls'[d] = calls[d]
  BY <1>2 DEF lockRow, Continue, Step, Idle
<1> QED
  BY <1>1, <1>3 DEF lockRow, Silent

LEMMA RollbackSilent ==
  ASSUME LockInv, NEW c \in Calls, rollback(c)
  PROVE  LockInv' /\ Silent(c)
<1>1. TypeOK /\ Continue(c, Idle) /\ Release(c)
      /\ UNCHANGED <<rows, trail, mails, clockSteps>>
  BY DEF LockInv, rollback
<1>2. rolledBack \subseteq rolledBack' /\ rolledBack' \subseteq mails
  BY <1>1 DEF rollback, TypeOK, LockInv, ReadsHold
<1>3. LockInv'
  BY <1>1, <1>2, LeavesLocks DEF TypeOK
<1>4. /\ calls'[c] = Idle
      /\ \A d \in Calls : d # c => calls'[d] = calls[d]
  BY <1>1, Continues
<1>5. Step(c) = "committing" /\ NotifiesInside(calls[c].op) =>
        MailOf(calls[c]) \in rolledBack'
  BY DEF rollback
<1> QED
  BY <1>1, <1>2, <1>3, <1>4, <1>5 DEF Silent, Step, Idle

LEMMA StepKinds ==
  ASSUME LockInv, Next
  PROVE  /\ LockInv'
         /\ \E c \in Calls : Silent(c) \/ Written(c) \/ Committed(c)
<1>1. TypeOK
  BY DEF LockInv
<1>2. ASSUME NEW c \in Calls, NEW op \in Operations, NEW s \in Subjects,
             NEW id \in ClientIds \cup {Fresh}, begin(c, op, s, id)
      PROVE  LockInv' /\ Silent(c)
  BY <1>2, BeginSilent
<1>3. ASSUME NEW c \in Calls, lockRow(c) \/ notify(c) \/ rollback(c)
      PROVE  LockInv' /\ Silent(c)
  BY <1>3, LockRowSilent, RollbackSilent, Ends DEF notify
<1>4. ASSUME NEW c \in Calls, writeAuditLog(c)
      PROVE  LockInv' /\ (Silent(c) \/ Written(c))
  <2>1. CASE Taken(calls[c].subject, calls[c].request_id)
    BY <1>4, <2>1, Ends DEF writeAuditLog
  <2>2. CASE ~Taken(calls[c].subject, calls[c].request_id)
    BY <1>1, <1>4, <2>2, WriteEffect, WriteKeepsLocks
  <2> QED
    BY <2>1, <2>2
<1>5. ASSUME NEW c \in Calls, commit(c)
      PROVE  LockInv' /\ Committed(c)
  BY <1>1, <1>5, CommitEffect, CommitKeepsLocks
<1> QED
  BY <1>2, <1>3, <1>4, <1>5 DEF Next, Proceed

LEMMA LockInvStutter == LockInv /\ UNCHANGED vars => LockInv'
  BY DEF LockInv, TypeOK, RowsLocked, ReadsHold, InTransaction, Step, MailOf, vars

LEMMA LockInvStep == LockInv /\ [Next]_vars => LockInv'
  BY StepKinds, LockInvStutter

LEMMA LockInvAlways == Spec => []LockInv
  BY LockInvInit, LockInvStep, PTL DEF Spec

(* Calls, rows, trails and e-mails stay well formed, whatever is rolled    *)
(* back: in particular a decision told and rolled back was really told.    *)
THEOREM TransactionTypes == Spec => []TypeOK
<1>1. LockInv => TypeOK
  BY DEF LockInv
<1> QED
  BY <1>1, LockInvAlways, PTL

-----------------------------------------------------------------------------
(* AuditTrail: the stages and steps it sees.                               *)

Stages == [s \in Subjects |-> rows[s].state]

StepsOf(log) == [n \in DOMAIN log |-> <<log[n].before_state, log[n].after_state>>]

Recorded == [s \in Subjects |-> StepsOf(trail[s])]

LEMMA StepsAreSequence ==
  ASSUME NEW log \in Seq(Entries)
  PROVE  /\ StepsOf(log) \in Seq(States \X States)
         /\ Len(StepsOf(log)) = Len(log)
         /\ \A n \in 1 .. Len(log) :
              StepsOf(log)[n] = <<log[n].before_state, log[n].after_state>>
<1>1. Len(log) \in Nat /\ DOMAIN log = 1 .. Len(log)
  BY LenProperties
<1>2. \A n \in 1 .. Len(log) :
        <<log[n].before_state, log[n].after_state>> \in States \X States
  <2>1. \A n \in 1 .. Len(log) : log[n] \in Entries
    BY LenProperties
  <2> QED
    BY <2>1 DEF Entries
<1>3. StepsOf(log) \in [1 .. Len(log) -> States \X States]
  BY <1>1, <1>2 DEF StepsOf
<1>4. StepsOf(log) \in Seq(States \X States)
  BY <1>1, <1>3, SeqDef
<1>5. DOMAIN StepsOf(log) = 1 .. Len(log)
  BY <1>3
<1>6. Len(StepsOf(log)) = Len(log)
  BY <1>1, <1>4, <1>5, LenProperties
<1> QED
  BY <1>1, <1>4, <1>6 DEF StepsOf

LEMMA StepsAppended ==
  ASSUME NEW log \in Seq(Entries), NEW entry \in Entries
  PROVE  StepsOf(Append(log, entry)) =
           Append(StepsOf(log), <<entry.before_state, entry.after_state>>)
<1> DEFINE step == <<entry.before_state, entry.after_state>>
           longer == Append(log, entry)
<1>1. longer \in Seq(Entries) /\ step \in States \X States
  BY DEF Entries
<1>2. /\ Len(log) \in Nat /\ Len(longer) = Len(log) + 1
      /\ longer[Len(log) + 1] = entry
      /\ \A n \in 1 .. Len(log) : longer[n] = log[n]
  BY LenProperties
<1> HIDE DEF longer, step
<1>3. /\ StepsOf(log) \in Seq(States \X States) /\ Len(StepsOf(log)) = Len(log)
      /\ StepsOf(longer) \in Seq(States \X States)
      /\ Len(StepsOf(longer)) = Len(log) + 1
  BY <1>1, <1>2, StepsAreSequence
<1>4. /\ Append(StepsOf(log), step) \in Seq(States \X States)
      /\ Len(Append(StepsOf(log), step)) = Len(log) + 1
  BY <1>1, <1>3
<1>5. ASSUME NEW n \in 1 .. Len(log) + 1
      PROVE  StepsOf(longer)[n] = Append(StepsOf(log), step)[n]
  <2>1. CASE n = Len(log) + 1
    <3>1. Append(StepsOf(log), step)[n] = step
      BY <1>1, <1>2, <1>3, <2>1
    <3>2. StepsOf(longer)[n] = <<longer[n].before_state, longer[n].after_state>>
      BY <1>1, <1>2, StepsAreSequence
    <3>3. longer[n] = entry
      BY <1>2, <2>1
    <3> QED
      BY <3>1, <3>2, <3>3 DEF step
  <2>2. CASE n # Len(log) + 1
    <3>1. n \in 1 .. Len(log)
      BY <1>2, <2>2
    <3>2. Append(StepsOf(log), step)[n] = StepsOf(log)[n]
      BY <1>1, <1>3, <3>1
    <3> QED
      BY <1>1, <1>2, <3>1, <3>2, StepsAreSequence
  <2> QED
    BY <2>1, <2>2
<1>6. StepsOf(longer) = Append(StepsOf(log), step)
  BY <1>3, <1>4, <1>5, SeqEqual
<1> QED
  BY <1>6 DEF longer, step

LEMMA TrailInit == Init => Trail!Init
<1> SUFFICES ASSUME Init PROVE Trail!Init
  OBVIOUS
<1>1. \A s \in Subjects : rows[s].state = FirstState[s] /\ trail[s] = <<>>
  BY DEF Init
<1>2. Stages = FirstState
  BY <1>1, FirstStatesAreStates DEF Stages
<1>3. StepsOf(<<>>) = <<>>
  <2>1. StepsOf(<<>>) \in Seq(States \X States) /\ Len(StepsOf(<<>>)) = 0
    BY EmptySeq, StepsAreSequence
  <2> QED
    BY <2>1, EmptySeq
<1>4. Recorded = [s \in Subjects |-> <<>>]
  BY <1>1, <1>3 DEF Recorded
<1> QED
  BY <1>2, <1>4 DEF Trail!Init, Stages, Recorded, StepsOf

LEMMA CommitRecords ==
  ASSUME LockInv, NEW c \in Calls, Committed(c)
  PROVE  Trail!Next
<1> DEFINE s == calls[c].subject
           op == calls[c].op
           entry == calls[c].entry
           step == <<entry.before_state, entry.after_state>>
<1>1. TypeOK /\ calls[c] \in Committing
  BY CallKinds DEF LockInv, Committed
<1>2. s \in Subjects /\ op \in Operations /\ entry \in Entries
  BY <1>1 DEF Committing
<1>3. /\ entry.before_state = rows[s].state
      /\ entry.before_state \in From[op]
      /\ entry.after_state = To[op]
  BY DEF LockInv, ReadsHold, Committed
<1>4. step \in UNION {From[o] \X {To[o]} : o \in Operations}
  <2>1. step \in From[op] \X {To[op]}
    BY <1>3
  <2> QED
    BY <1>2, <2>1
<1>5. PICK row \in [state : {To[op]}, lock_version : Nat] :
        rows' = [rows EXCEPT ![s] = row]
  BY DEF Committed
<1>6. trail' = [trail EXCEPT ![s] = Append(trail[s], entry)]
  BY DEF Committed
<1> HIDE DEF s, op, entry
<1>7. Stages[s] = step[1] /\ Stages' = [Stages EXCEPT ![s] = step[2]]
  BY <1>1, <1>2, <1>3, <1>5 DEF Stages, TypeOK
<1>8. Recorded' = [Recorded EXCEPT ![s] = Append(Recorded[s], step)]
  <2>1. trail[s] \in Seq(Entries)
    BY <1>1, <1>2 DEF TypeOK
  <2>2. StepsOf(Append(trail[s], entry)) = Append(StepsOf(trail[s]), step)
    BY <1>2, <2>1, StepsAppended
  <2>3. \A t \in Subjects :
          trail'[t] = IF t = s THEN Append(trail[s], entry) ELSE trail[t]
    BY <1>1, <1>2, <1>6 DEF TypeOK
  <2> HIDE DEF step
  <2>4. \A t \in Subjects :
          StepsOf(trail'[t]) = IF t = s THEN Append(StepsOf(trail[s]), step)
                                        ELSE StepsOf(trail[t])
    BY <2>2, <2>3
  <2>5. Recorded' = [t \in Subjects |-> StepsOf(trail'[t])]
    BY DEF Recorded, StepsOf
  <2> QED
    BY <1>2, <2>4, <2>5 DEF Recorded
<1>9. \E t \in Subjects, st \in UNION {From[o] \X {To[o]} : o \in Operations} :
        /\ Stages[t] = st[1]
        /\ Stages' = [Stages EXCEPT ![t] = st[2]]
        /\ Recorded' = [Recorded EXCEPT ![t] = Append(Recorded[t], st)]
  <2> HIDE DEF step
  <2> QED
    BY <1>2, <1>4, <1>7, <1>8
<1> QED
  BY <1>9 DEF Trail!Next, Trail!Record, Stages, Recorded, StepsOf

LEMMA OthersUnrecorded ==
  ASSUME UNCHANGED <<rows, trail>>
  PROVE  UNCHANGED Trail!vars
  BY DEF Trail!vars

(* services/workflow.service.ts and user-audit.service.ts keep the promise *)
(* of AuditTrail.tla: whatever calls interleave, fail or are rolled back,  *)
(* each COMMIT moves a subject and its trail together by one recorded step *)
(* from the committed state, and nothing else touches either.              *)
THEOREM TrailImplemented == Spec => ImplementsTrail
<1>1. LockInv /\ [Next]_vars => [Trail!Next]_(Trail!vars)
  <2> SUFFICES ASSUME LockInv, [Next]_vars PROVE Trail!Next \/ UNCHANGED Trail!vars
    OBVIOUS
  <2>1. CASE Next
    BY <2>1, StepKinds, CommitRecords, OthersUnrecorded DEF Silent, Written
  <2>2. CASE UNCHANGED vars
    BY <2>2, OthersUnrecorded DEF vars
  <2> QED
    BY <2>1, <2>2
<1> QED
  BY <1>1, TrailInit, LockInvAlways, PTL DEF Spec, ImplementsTrail, Trail!Spec

-----------------------------------------------------------------------------
(* What a COMMIT does to the trails: one entry more on one of them.        *)
LEMMA CommittedTrails ==
  ASSUME LockInv, NEW c \in Calls, Committed(c)
  PROVE  LET s == calls[c].subject
             L == Len(trail[s]) IN
           /\ calls[c] \in Committing
           /\ s \in Subjects /\ L \in Nat
           /\ DOMAIN trail[s] = 1 .. L /\ DOMAIN trail'[s] = 1 .. L + 1
           /\ Len(trail'[s]) = L + 1
           /\ trail'[s][L + 1] = calls[c].entry
           /\ \A n \in 1 .. L : trail'[s][n] = trail[s][n]
           /\ \A t \in Subjects : t # s => trail'[t] = trail[t]
           /\ \A d \in Calls : d # c => calls'[d] = calls[d]
           /\ Step(c)' # "committing"
           /\ Step(c)' = "notifying" => MailOf(calls'[c]) = MailOf(calls[c])
<1> DEFINE s == calls[c].subject
           entry == calls[c].entry
<1>1. TypeOK /\ calls[c] \in Committing
  BY CallKinds DEF LockInv, Committed
<1>2. s \in Subjects /\ entry \in Entries
  BY <1>1 DEF Committing
<1>3. trail' = [trail EXCEPT ![s] = Append(trail[s], entry)]
  BY DEF Committed
<1>4. trail[s] \in Seq(Entries)
  BY <1>1, <1>2 DEF TypeOK
<1>5. trail'[s] = Append(trail[s], entry) /\ \A t \in Subjects : t # s => trail'[t] = trail[t]
  BY <1>1, <1>2, <1>3 DEF TypeOK
<1> DEFINE told == [step |-> "notifying", op |-> calls[c].op, subject |-> s]
<1>6. /\ \A d \in Calls : d # c => calls'[d] = calls[d]
      /\ calls'[c] = Idle \/ calls'[c] = told
  BY <1>1, Continues DEF Committed
<1>7. told.step = "notifying" /\ told.op = calls[c].op /\ told.subject = s
  OBVIOUS
<1> HIDE DEF s, entry, told
<1>8. /\ Step(c)' # "committing"
      /\ Step(c)' = "notifying" => MailOf(calls'[c]) = MailOf(calls[c])
  BY <1>6, <1>7 DEF Step, Idle, MailOf, s
<1>9. /\ Len(trail[s]) \in Nat
      /\ DOMAIN trail[s] = 1 .. Len(trail[s])
      /\ DOMAIN trail'[s] = 1 .. Len(trail[s]) + 1
      /\ Len(trail'[s]) = Len(trail[s]) + 1
      /\ trail'[s][Len(trail[s]) + 1] = entry
      /\ \A n \in 1 .. Len(trail[s]) : trail'[s][n] = trail[s][n]
  BY <1>2, <1>4, <1>5, LenProperties
<1> QED
  BY <1>1, <1>2, <1>5, <1>6, <1>8, <1>9 DEF s, entry

-----------------------------------------------------------------------------
(* Request ids.  RequestsTakeEffectOnce is inductive together with what the*)
(* unique index enforces for entries that are not committed yet.           *)

KeysDistinct ==
  /\ \A c \in Calls : Step(c) = "committing" =>
       ~Taken(calls[c].subject, calls[c].entry.request_id)
  /\ \A c, d \in Calls :
       /\ c # d
       /\ Step(c) = "committing" /\ Step(d) = "committing"
       /\ OnOneTable(calls[c].subject, calls[d].subject)
       /\ calls[c].entry.request_id = calls[d].entry.request_id
       => calls[c].entry.request_id = Fresh
  /\ RequestsTakeEffectOnce

LEMMA SilentKeepsKeys ==
  ASSUME KeysDistinct, NEW c \in Calls, Silent(c)
  PROVE  KeysDistinct'
<1>1. /\ trail' = trail
      /\ \A d \in Calls : Step(d)' = "committing" =>
           Step(d) = "committing" /\ calls'[d] = calls[d]
  BY DEF Silent, Step
<1> QED
  BY <1>1 DEF KeysDistinct, Taken, RequestsTakeEffectOnce

LEMMA WrittenKeepsKeys ==
  ASSUME KeysDistinct, NEW c \in Calls, Written(c)
  PROVE  KeysDistinct'
<1>1. /\ trail' = trail
      /\ calls'[c].subject = calls[c].subject
      /\ calls'[c].entry.request_id = calls[c].request_id
      /\ ~Blocked(c, calls[c].subject, calls[c].request_id)
      /\ ~Taken(calls[c].subject, calls[c].request_id)
      /\ \A d \in Calls : d # c => calls'[d] = calls[d]
  BY DEF Written
<1>2. \A s, id : Taken(s, id)' <=> Taken(s, id)
  BY <1>1 DEF Taken
<1>3. RequestsTakeEffectOnce'
  BY <1>1 DEF KeysDistinct, RequestsTakeEffectOnce
<1>4. ASSUME NEW d \in Calls, Step(d)' = "committing"
      PROVE  ~Taken(calls[d].subject, calls[d].entry.request_id)'
  <2>1. CASE d = c
    BY <1>1, <2>1 DEF Taken
  <2>2. CASE d # c
    BY <1>1, <1>4, <2>2 DEF KeysDistinct, Step, Taken
  <2> QED
    BY <2>1, <2>2
<1>5. ASSUME NEW d \in Calls, NEW e \in Calls, d # e,
             Step(d)' = "committing", Step(e)' = "committing",
             OnOneTable(calls'[d].subject, calls'[e].subject),
             calls'[d].entry.request_id = calls'[e].entry.request_id
      PROVE  calls'[d].entry.request_id = Fresh
  <2>1. CASE d # c /\ e # c
    BY <1>1, <1>5, <2>1 DEF KeysDistinct, Step
  <2>2. CASE d = c
    BY <1>1, <1>5, <2>2 DEF Blocked, OnOneTable, Step
  <2>3. CASE e = c
    BY <1>1, <1>5, <2>3 DEF Blocked, OnOneTable, Step
  <2> QED
    BY <2>1, <2>2, <2>3
<1> QED
  BY <1>3, <1>4, <1>5 DEF KeysDistinct, Taken

LEMMA CommittedKeepsKeys ==
  ASSUME LockInv, KeysDistinct, NEW c \in Calls, Committed(c)
  PROVE  KeysDistinct'
<1> DEFINE s == calls[c].subject
           L == Len(trail[s])
           id == calls[c].entry.request_id
<1>1. /\ s \in Subjects /\ L \in Nat
      /\ DOMAIN trail[s] = 1 .. L /\ DOMAIN trail'[s] = 1 .. L + 1
      /\ trail'[s][L + 1] = calls[c].entry
      /\ \A n \in 1 .. L : trail'[s][n] = trail[s][n]
      /\ \A t \in Subjects : t # s => trail'[t] = trail[t]
      /\ \A d \in Calls : d # c => calls'[d] = calls[d]
      /\ Step(c)' # "committing"
  BY CommittedTrails
<1>2. Step(c) = "committing" /\ ~Taken(s, id)
  BY DEF KeysDistinct, Committed
<1> HIDE DEF L
<1>3. ASSUME NEW t \in Subjects, NEW n \in DOMAIN trail'[t]
      PROVE  \/ n \in DOMAIN trail[t] /\ trail'[t][n] = trail[t][n]
             \/ t = s /\ n = L + 1 /\ trail'[t][n] = calls[c].entry
  <2>1. CASE t = s
    BY <1>1, <1>3, <2>1
  <2>2. CASE t # s
    BY <1>1, <2>2
  <2> QED
    BY <2>1, <2>2
<1> HIDE DEF s
<1>4. ASSUME NEW d \in Calls, Step(d)' = "committing"
      PROVE  ~Taken(calls[d].subject, calls[d].entry.request_id)'
  <2>1. d # c /\ calls'[d] = calls[d] /\ Step(d) = "committing"
    BY <1>1, <1>4 DEF Step
  <2>2. ~Taken(calls[d].subject, calls[d].entry.request_id)
    BY <2>1 DEF KeysDistinct
  <2>3. OnOneTable(calls[d].subject, s) /\ calls[d].entry.request_id = id =>
          calls[d].entry.request_id = Fresh
    BY <1>2, <2>1 DEF KeysDistinct, s
  <2> QED
    BY <1>3, <2>1, <2>2, <2>3 DEF Taken, s
<1>5. \A d, e \in Calls :
        /\ d # e
        /\ Step(d)' = "committing" /\ Step(e)' = "committing"
        /\ OnOneTable(calls'[d].subject, calls'[e].subject)
        /\ calls'[d].entry.request_id = calls'[e].entry.request_id
        => calls'[d].entry.request_id = Fresh
  BY <1>1 DEF KeysDistinct, Step
<1>6. ASSUME NEW t \in Subjects, NEW r \in Subjects, OnOneTable(t, r),
             NEW n \in DOMAIN trail'[t], NEW m \in DOMAIN trail'[r],
             trail'[t][n].request_id = trail'[r][m].request_id,
             trail'[t][n].request_id # Fresh
      PROVE  t = r /\ n = m
  <2>1. CASE /\ n \in DOMAIN trail[t] /\ trail'[t][n] = trail[t][n]
             /\ m \in DOMAIN trail[r] /\ trail'[r][m] = trail[r][m]
    BY <1>6, <2>1 DEF KeysDistinct, RequestsTakeEffectOnce
  <2>2. CASE /\ t = s /\ n = L + 1 /\ trail'[t][n] = calls[c].entry
             /\ m \in DOMAIN trail[r] /\ trail'[r][m] = trail[r][m]
    BY <1>2, <1>6, <2>2 DEF Taken, OnOneTable
  <2>3. CASE /\ n \in DOMAIN trail[t] /\ trail'[t][n] = trail[t][n]
             /\ r = s /\ m = L + 1 /\ trail'[r][m] = calls[c].entry
    BY <1>2, <1>6, <2>3 DEF Taken, OnOneTable
  <2>4. CASE t = s /\ n = L + 1 /\ r = s /\ m = L + 1
    BY <2>4
  <2> QED
    BY <1>3, <2>1, <2>2, <2>3, <2>4
<1>7. RequestsTakeEffectOnce'
  BY <1>6 DEF RequestsTakeEffectOnce
<1> QED
  BY <1>4, <1>5, <1>7 DEF KeysDistinct, Taken

LEMMA KeysStep == LockInv /\ KeysDistinct /\ [Next]_vars => KeysDistinct'
<1> SUFFICES ASSUME LockInv, KeysDistinct, [Next]_vars PROVE KeysDistinct'
  OBVIOUS
<1>1. CASE Next
  BY <1>1, StepKinds, SilentKeepsKeys, WrittenKeepsKeys, CommittedKeepsKeys
<1>2. CASE UNCHANGED vars
  BY <1>2 DEF vars, KeysDistinct, RequestsTakeEffectOnce, Taken, Step
<1> QED
  BY <1>1, <1>2

(* middlewares/request-id.middleware.ts takes the id from the client; the  *)
(* unique index, which makes a second INSERT wait for the first, lets each *)
(* id into one entry of a table only, however the requests interleave.     *)
THEOREM RequestsOnce == Spec => []RequestsTakeEffectOnce
<1>1. Init => KeysDistinct
  <2> SUFFICES ASSUME Init PROVE KeysDistinct
    OBVIOUS
  <2>1. /\ \A c \in Calls : Step(c) = "idle"
        /\ \A s \in Subjects : trail[s] = <<>>
    BY DEF Init, Step, Idle
  <2> QED
    BY <2>1 DEF KeysDistinct, RequestsTakeEffectOnce
<1>2. KeysDistinct => RequestsTakeEffectOnce
  BY DEF KeysDistinct
<1> QED
  BY <1>1, <1>2, KeysStep, LockInvAlways, PTL DEF Spec

-----------------------------------------------------------------------------
(* E-mails.                                                                *)

Tells(mail) ==
  \E n \in DOMAIN trail[mail.subject] :
    trail[mail.subject][n].after_state = mail.state

Justified(mail) ==
  /\ mail.state \in {"APPROVED", "REJECTED"}
  /\ \/ Tells(mail)
     \/ mail \in rolledBack
     \/ \E c \in Calls : Step(c) = "committing" /\ MailOf(calls[c]) = mail

Told ==
  /\ \A c \in Calls : Step(c) = "notifying" => Tells(MailOf(calls[c]))
  /\ \A mail \in mails : Justified(mail)

LEMMA ToldIsMailsTellCommitted == Told <=> MailsTellCommitted
  BY DEF Told, Justified, Tells, MailsTellCommitted

(* Only a decision leads to a final state, and it tells ahead of COMMIT.   *)
LEMMA DecisionsNotifyInside ==
  ASSUME NEW op \in Operations
  PROVE  NotifiesInside(op) <=> To[op] \in {"APPROVED", "REJECTED"}
  BY DEF Operations, To, NotifiesInside

LEMMA MailState ==
  ASSUME TypeOK, NEW c \in Calls,
         calls[c] \in Writing \/ calls[c] \in Committing \/ calls[c] \in Notifying
  PROVE  /\ calls[c].op \in Operations
         /\ MailOf(calls[c]) \in Mails
         /\ MailOf(calls[c]).subject = calls[c].subject
         /\ MailOf(calls[c]).state = To[calls[c].op]
  BY StatesOfOperations DEF MailOf, Mails, Writing, Committing, Notifying

LEMMA SilentKeepsTold ==
  ASSUME LockInv, Told, NEW c \in Calls, Silent(c)
  PROVE  Told'
<1>1. /\ trail' = trail /\ mails' = mails /\ rolledBack \subseteq rolledBack'
      /\ Step(c)' \notin {"committing", "notifying"}
      /\ \A d \in Calls : d # c => calls'[d] = calls[d] /\ Step(d)' = Step(d)
  BY DEF Silent, Step
<1>2. ASSUME NEW d \in Calls, Step(d)' = "notifying"
      PROVE  Tells(MailOf(calls[d]))'
  BY <1>1, <1>2 DEF Told, Tells, MailOf
<1>3. ASSUME NEW mail \in mails
      PROVE  Justified(mail)'
  <2>1. Justified(mail)
    BY DEF Told
  <2>2. CASE Tells(mail) \/ mail \in rolledBack
    BY <1>1, <2>1, <2>2 DEF Justified, Tells
  <2>3. ASSUME NEW d \in Calls, d # c, Step(d) = "committing", MailOf(calls[d]) = mail
        PROVE  Justified(mail)'
    <3>1. Step(d)' = "committing" /\ MailOf(calls'[d]) = mail
      BY <1>1, <2>3
    <3> QED
      BY <2>1, <3>1 DEF Justified, MailOf
  <2>4. CASE Step(c) = "committing" /\ MailOf(calls[c]) = mail
    <3>1. TypeOK /\ calls[c] \in Committing
      BY <2>4, CallKinds DEF LockInv
    <3>2. NotifiesInside(calls[c].op)
      BY <2>1, <2>4, <3>1, MailState, DecisionsNotifyInside DEF Justified
    <3>3. mail \in rolledBack'
      BY <2>4, <3>2 DEF Silent
    <3> QED
      BY <2>1, <3>3 DEF Justified
  <2> QED
    BY <2>1, <2>2, <2>3, <2>4 DEF Justified
<1> QED
  BY <1>1, <1>2, <1>3 DEF Told

LEMMA WrittenKeepsTold ==
  ASSUME LockInv, Told, NEW c \in Calls, Written(c)
  PROVE  Told'
<1>1. /\ trail' = trail /\ rolledBack' = rolledBack
      /\ Step(c) = "checked" /\ Step(c)' = "committing"
      /\ MailOf(calls'[c]) = MailOf(calls[c])
      /\ \A d \in Calls : d # c => calls'[d] = calls[d] /\ Step(d)' = Step(d)
  BY DEF Written, Step, MailOf, Committing
<1>2. TypeOK /\ calls[c] \in Writing
  BY <1>1, CallKinds DEF LockInv
<1>3. ASSUME NEW d \in Calls, Step(d)' = "notifying"
      PROVE  Tells(MailOf(calls[d]))'
  BY <1>1, <1>3 DEF Told, Tells, MailOf
<1>4. ASSUME NEW mail \in mails
      PROVE  Justified(mail)'
  <2>1. Justified(mail)
    BY DEF Told
  <2>2. CASE Tells(mail) \/ mail \in rolledBack
    BY <1>1, <2>1, <2>2 DEF Justified, Tells
  <2>3. ASSUME NEW d \in Calls, Step(d) = "committing", MailOf(calls[d]) = mail
        PROVE  Justified(mail)'
    <3>1. Step(d)' = "committing" /\ MailOf(calls'[d]) = mail
      BY <1>1, <2>3
    <3> QED
      BY <2>1, <3>1 DEF Justified, MailOf
  <2> QED
    BY <2>1, <2>2, <2>3 DEF Justified
<1>5. CASE NotifiesInside(calls[c].op)
  <2>1. mails' = mails \cup {MailOf(calls[c])}
    BY <1>5 DEF Written
  <2>2. ASSUME NEW mail \in mails' PROVE Justified(mail)'
    <3>1. CASE mail \in mails
      BY <1>4, <3>1
    <3>2. CASE mail = MailOf(calls[c])
      BY <1>1, <1>2, <1>5, <3>2, MailState, DecisionsNotifyInside DEF Justified, MailOf
    <3> QED
      BY <2>1, <3>1, <3>2
  <2> QED
    BY <1>3, <2>2 DEF Told
<1>6. CASE ~NotifiesInside(calls[c].op)
  BY <1>3, <1>4, <1>6 DEF Told, Written
<1> QED
  BY <1>5, <1>6

LEMMA CommittedKeepsTold ==
  ASSUME LockInv, Told, NEW c \in Calls, Committed(c)
  PROVE  Told'
<1> DEFINE s == calls[c].subject
           L == Len(trail[s])
<1>1. /\ calls[c] \in Committing
      /\ s \in Subjects /\ L \in Nat
      /\ DOMAIN trail[s] = 1 .. L /\ DOMAIN trail'[s] = 1 .. L + 1
      /\ trail'[s][L + 1] = calls[c].entry
      /\ \A n \in 1 .. L : trail'[s][n] = trail[s][n]
      /\ \A t \in Subjects : t # s => trail'[t] = trail[t]
      /\ \A d \in Calls : d # c => calls'[d] = calls[d]
      /\ Step(c)' # "committing"
      /\ Step(c)' = "notifying" => MailOf(calls'[c]) = MailOf(calls[c])
  BY CommittedTrails
<1>2. TypeOK /\ mails' = mails /\ rolledBack' = rolledBack /\ Step(c) = "committing"
  BY DEF LockInv, Committed
<1>3. ASSUME NEW mail \in Mails, Tells(mail)
      PROVE  Tells(mail)'
  <2>1. mail.subject \in Subjects
    BY DEF Mails
  <2> QED
    BY <1>1, <1>3, <2>1 DEF Tells
<1>4. PICK own \in Mails : own = MailOf(calls[c])
  BY <1>1, <1>2, MailState
<1>5. Tells(own)'
  <2>1. own.subject = s /\ own.state = To[calls[c].op]
    BY <1>1, <1>2, <1>4, MailState
  <2>2. calls[c].entry.after_state = To[calls[c].op]
    BY <1>2 DEF LockInv, ReadsHold
  <2>3. L + 1 \in DOMAIN trail'[s] /\ trail'[s][L + 1].after_state = own.state
    BY <1>1, <2>1, <2>2
  <2> QED
    BY <2>1, <2>3 DEF Tells
<1>6. ASSUME NEW d \in Calls, Step(d)' = "notifying"
      PROVE  Tells(MailOf(calls[d]))'
  <2>1. CASE d = c
    BY <1>1, <1>4, <1>5, <1>6, <2>1 DEF Tells, MailOf
  <2>2. CASE d # c
    <3>1. calls'[d] = calls[d] /\ Step(d) = "notifying"
      BY <1>1, <1>6, <2>2 DEF Step
    <3>2. PICK mail \in Mails : mail = MailOf(calls[d])
      BY <1>2, <3>1, CallKinds, MailState
    <3>3. Tells(mail)'
      BY <1>3, <3>1, <3>2 DEF Told
    <3> QED
      BY <3>1, <3>2, <3>3 DEF Tells, MailOf
  <2> QED
    BY <2>1, <2>2
<1>7. ASSUME NEW mail \in mails
      PROVE  Justified(mail)'
  <2>1. Justified(mail) /\ mail \in Mails
    BY <1>2 DEF Told, TypeOK
  <2>2. CASE Tells(mail) \/ mail \in rolledBack
    BY <1>2, <1>3, <2>1, <2>2 DEF Justified
  <2>3. CASE mail = own
    BY <1>5, <2>1, <2>3 DEF Justified
  <2>4. ASSUME NEW d \in Calls, d # c, Step(d) = "committing", MailOf(calls[d]) = mail
        PROVE  Justified(mail)'
    <3>1. Step(d)' = "committing" /\ MailOf(calls'[d]) = mail
      BY <1>1, <2>4 DEF Step
    <3> QED
      BY <2>1, <3>1 DEF Justified, MailOf
  <2> QED
    BY <1>4, <2>1, <2>2, <2>3, <2>4 DEF Justified
<1> QED
  BY <1>2, <1>6, <1>7 DEF Told

LEMMA ToldStep == LockInv /\ Told /\ [Next]_vars => Told'
<1> SUFFICES ASSUME LockInv, Told, [Next]_vars PROVE Told'
  OBVIOUS
<1>1. CASE Next
  BY <1>1, StepKinds, SilentKeepsTold, WrittenKeepsTold, CommittedKeepsTold
<1>2. CASE UNCHANGED vars
  BY <1>2 DEF vars, Told, Justified, Tells, MailOf, Step
<1> QED
  BY <1>1, <1>2

(* workflow.service.ts sends e-mails after COMMIT except those of a        *)
(* decision: every other e-mail tells a committed entry, and a decision's  *)
(* tells one that is committed, about to be, or was rolled back.           *)
THEOREM MailsTellTheTrail == Spec => []MailsTellCommitted
<1>1. Init => Told
  <2> SUFFICES ASSUME Init PROVE Told
    OBVIOUS
  <2>1. mails = {} /\ \A c \in Calls : Step(c) = "idle"
    BY DEF Init, Step, Idle
  <2> QED
    BY <2>1 DEF Told
<1>2. Told => MailsTellCommitted
  BY ToldIsMailsTellCommitted
<1> QED
  BY <1>1, <1>2, ToldStep, LockInvAlways, PTL DEF Spec

-----------------------------------------------------------------------------
(* The chain of hashes.  An entry is stamped with its own position, or the *)
(* clock failed.  Only an entry stamped late can be missed by the one after*)
(* it, and every late stamp, committed or about to be, has used up a step  *)
(* of the clock.                                                           *)

Late(s, n) ==
  \/ n \in DOMAIN trail[s] /\ trail[s][n].occurred_at # n
  \/ /\ n = Len(trail[s]) + 1
     /\ \E c \in Calls : /\ Step(c) = "committing"
                         /\ calls[c].subject = s
                         /\ calls[c].entry.occurred_at # n

LateEntries ==
  UNION {{<<s, n>> : n \in {k \in 1 .. Len(trail[s]) + 1 : Late(s, k)}} : s \in Subjects}

Linked(log, n, entry) ==
  /\ entry.occurred_at \in 1 .. n
  /\ entry.previous \in IF n = 1 THEN {0} ELSE 1 .. (n - 1)
  /\ entry.previous # n - 1 => log[n - 1].occurred_at # n - 1

ChainInv ==
  /\ \A s \in Subjects : \A n \in DOMAIN trail[s] : Linked(trail[s], n, trail[s][n])
  /\ \A c \in Calls : Step(c) = "committing" =>
       LET log == trail[calls[c].subject] IN
         Linked(log, Len(log) + 1, calls[c].entry)
  /\ IsFiniteSet(LateEntries)
  /\ Cardinality(LateEntries) <= clockSteps

LEMMA FewerLate ==
  ASSUME ChainInv, TypeOK, TypeOK', LateEntries' \subseteq LateEntries, clockSteps' = clockSteps
  PROVE  IsFiniteSet(LateEntries)' /\ Cardinality(LateEntries)' <= clockSteps'
<1>1. /\ IsFiniteSet(LateEntries) /\ Cardinality(LateEntries) \in Nat
      /\ Cardinality(LateEntries) <= clockSteps
  BY FS_CardinalityType DEF ChainInv
<1>2. /\ IsFiniteSet(LateEntries')
      /\ Cardinality(LateEntries') <= Cardinality(LateEntries)
  BY <1>1, FS_Subset
<1>3. Cardinality(LateEntries') \in Nat /\ clockSteps \in Nat
  BY <1>2, FS_CardinalityType DEF TypeOK
<1> QED
  BY <1>1, <1>2, <1>3

LEMMA SilentKeepsChain ==
  ASSUME LockInv, LockInv', ChainInv, NEW c \in Calls, Silent(c)
  PROVE  ChainInv'
<1>1. /\ trail' = trail /\ clockSteps' = clockSteps
      /\ \A d \in Calls : Step(d)' = "committing" =>
           Step(d) = "committing" /\ calls'[d] = calls[d]
  BY DEF Silent, Step
<1>2. LateEntries' \subseteq LateEntries
  <2>1. ASSUME NEW s \in Subjects, NEW n, Late(s, n)'
        PROVE  Late(s, n)
    BY <1>1, <2>1 DEF Late
  <2> QED
    BY <1>1, <2>1 DEF LateEntries
<1> QED
  BY <1>1, <1>2, FewerLate DEF LockInv, ChainInv, Linked

(* The entry found last is the newest, unless the newest is stamped late.  *)
LEMMA NewestFound ==
  ASSUME NEW s \in Subjects, ChainInv, TypeOK, NEW entry,
         entry.previous \in IF trail[s] = <<>> THEN {0} ELSE Predecessors(s),
         entry.occurred_at \in 1 .. Len(trail[s]) + 1
  PROVE  Linked(trail[s], Len(trail[s]) + 1, entry)
<1> DEFINE log == trail[s]
           L == Len(log)
<1>1. log \in Seq(Entries) /\ L \in Nat /\ DOMAIN log = 1 .. L
  BY LenProperties DEF TypeOK
<1>2. log = <<>> <=> L = 0
  BY <1>1, EmptySeq
<1>3. \A n \in 1 .. L : log[n].occurred_at \in 1 .. n
  BY <1>1 DEF ChainInv, Linked
<1>4. CASE log = <<>>
  BY <1>2, <1>4 DEF Linked
<1>5. CASE log # <<>>
  <2>1. /\ entry.previous \in 1 .. L /\ L \in 1 .. L
        /\ log[L].occurred_at <= log[entry.previous].occurred_at
    BY <1>1, <1>2, <1>5 DEF Predecessors
  <2> HIDE DEF log, L
  <2>2. entry.previous # L => log[L].occurred_at # L
    BY <1>3, <2>1
  <2> QED
    BY <1>1, <2>1, <2>2 DEF Linked, log, L
<1> QED
  BY <1>4, <1>5

LEMMA WrittenKeepsChain ==
  ASSUME LockInv, LockInv', ChainInv, NEW c \in Calls, Written(c)
  PROVE  ChainInv'
<1> DEFINE s == calls[c].subject
           entry == calls'[c].entry
           L == Len(trail[s])
<1>1. /\ trail' = trail /\ calls'[c].subject = s
      /\ \A d \in Calls : d # c => calls'[d] = calls[d]
      /\ entry.previous \in IF trail[s] = <<>> THEN {0} ELSE Predecessors(s)
      /\ entry.occurred_at \in 1 .. L + 1
      /\ Now(s, entry.occurred_at)
      /\ Step(c) = "checked"
  BY DEF Written
<1>2. TypeOK /\ TypeOK' /\ s \in Subjects /\ L \in Nat
  <2>1. TypeOK /\ TypeOK' /\ calls[c] \in Writing
    BY <1>1, CallKinds DEF LockInv
  <2>2. s \in Subjects
    BY <2>1 DEF Writing
  <2> QED
    BY <2>1, <2>2, LenProperties DEF TypeOK
<1>3. Linked(trail[s], L + 1, entry)
  BY <1>1, <1>2, NewestFound
<1>4. \A d \in Calls : Step(d)' = "committing" =>
        LET log == trail'[calls'[d].subject] IN
          Linked(log, Len(log) + 1, calls'[d].entry)
  <2>1. ASSUME NEW d \in Calls, Step(d)' = "committing"
        PROVE  Linked(trail[calls'[d].subject], Len(trail[calls'[d].subject]) + 1,
                      calls'[d].entry)
    <3>1. CASE d = c
      BY <1>1, <1>3, <3>1
    <3>2. CASE d # c
      BY <1>1, <2>1, <3>2 DEF ChainInv, Step
    <3> QED
      BY <3>1, <3>2
  <2> QED
    BY <1>1, <2>1
<1>5. \A t \in Subjects : \A n : Late(t, n)' =>
        Late(t, n) \/ (t = s /\ n = L + 1 /\ entry.occurred_at # L + 1)
  <2>1. \A d \in Calls : d # c => (Step(d)' <=> Step(d)) /\ calls'[d] = calls[d]
    BY <1>1 DEF Step
  <2> HIDE DEF entry
  <2> QED
    BY <1>1, <2>1 DEF Late, Step, entry
<1>6. IsFiniteSet(LateEntries)' /\ Cardinality(LateEntries)' <= clockSteps'
  <2>1. LateEntries' \subseteq LateEntries \cup {<<s, L + 1>>}
    BY <1>1, <1>5 DEF LateEntries
  <2>2. CASE entry.occurred_at = L + 1
    <3>1. LateEntries' \subseteq LateEntries
      BY <1>1, <1>5, <2>2 DEF LateEntries
    <3>2. clockSteps' = clockSteps
      BY <1>1, <1>2, <2>2 DEF Now
    <3> QED
      BY <1>2, <3>1, <3>2, FewerLate
  <2>3. CASE entry.occurred_at # L + 1
    <3> DEFINE more == LateEntries \cup {<<s, L + 1>>}
    <3>1. clockSteps' = clockSteps + 1 /\ clockSteps \in Nat
      BY <1>1, <1>2, <2>3 DEF Now, TypeOK
    <3>2. /\ IsFiniteSet(LateEntries) /\ Cardinality(LateEntries) \in Nat
          /\ Cardinality(LateEntries) <= clockSteps
      BY FS_CardinalityType DEF ChainInv
    <3>3. /\ IsFiniteSet(more)
          /\ Cardinality(more) <= Cardinality(LateEntries) + 1
      BY <3>2, FS_AddElement
    <3>4. /\ IsFiniteSet(LateEntries')
          /\ Cardinality(LateEntries') <= Cardinality(more)
      BY <2>1, <3>3, FS_Subset
    <3>5. Cardinality(LateEntries') \in Nat /\ Cardinality(more) \in Nat
      BY <3>3, <3>4, FS_CardinalityType
    <3> QED
      BY <3>1, <3>2, <3>3, <3>4, <3>5
  <2> QED
    BY <2>2, <2>3
<1>7. \A t \in Subjects : \A n \in DOMAIN trail'[t] : Linked(trail'[t], n, trail'[t][n])
  BY <1>1 DEF ChainInv
<1> QED
  BY <1>4, <1>6, <1>7 DEF ChainInv, Linked

LEMMA CommittedKeepsChain ==
  ASSUME LockInv, LockInv', ChainInv, NEW c \in Calls, Committed(c)
  PROVE  ChainInv'
<1> DEFINE s == calls[c].subject
           entry == calls[c].entry
           L == Len(trail[s])
<1>1. /\ s \in Subjects /\ L \in Nat
      /\ DOMAIN trail[s] = 1 .. L /\ DOMAIN trail'[s] = 1 .. L + 1
      /\ Len(trail'[s]) = L + 1
      /\ trail'[s][L + 1] = entry
      /\ \A n \in 1 .. L : trail'[s][n] = trail[s][n]
      /\ \A t \in Subjects : t # s => trail'[t] = trail[t]
      /\ \A d \in Calls : d # c => calls'[d] = calls[d]
      /\ Step(c)' # "committing"
  BY CommittedTrails
<1>2. /\ TypeOK /\ TypeOK' /\ Step(c) = "committing"
      /\ clockSteps' = clockSteps
  BY DEF LockInv, Committed
<1>3. Linked(trail[s], L + 1, entry)
  BY <1>2 DEF ChainInv
<1>4. ASSUME NEW d \in Calls, Step(d)' = "committing"
      PROVE  /\ d # c /\ calls'[d] = calls[d] /\ Step(d) = "committing"
             /\ calls[d].subject \in Subjects \ {s}
  <2>1. d # c /\ calls'[d] = calls[d] /\ Step(d) = "committing"
    BY <1>1, <1>4 DEF Step
  <2>2. calls[d].subject \in Subjects
    BY <1>2, <2>1, CallKinds DEF Committing
  <2>3. calls[d].subject # s
    BY <1>2, <2>1 DEF LockInv, RowsLocked, InTransaction
  <2> QED
    BY <2>1, <2>2, <2>3
<1> HIDE DEF s, entry, L
<1>5. \A t \in Subjects : \A n \in DOMAIN trail'[t] : Linked(trail'[t], n, trail'[t][n])
  <2>1. ASSUME NEW n \in 1 .. L PROVE Linked(trail'[s], n, trail'[s][n])
    <3>1. Linked(trail[s], n, trail[s][n])
      BY <1>1 DEF ChainInv
    <3> QED
      BY <1>1, <3>1 DEF Linked
  <2>2. Linked(trail'[s], L + 1, entry)
    BY <1>1, <1>3 DEF Linked
  <2>3. ASSUME NEW t \in Subjects, t # s, NEW n \in DOMAIN trail'[t]
        PROVE  Linked(trail'[t], n, trail'[t][n])
    BY <1>1, <2>3 DEF ChainInv
  <2>4. ASSUME NEW n \in 1 .. L + 1 PROVE Linked(trail'[s], n, trail'[s][n])
    BY <1>1, <2>1, <2>2
  <2> QED
    BY <1>1, <2>3, <2>4
<1>6. \A d \in Calls : Step(d)' = "committing" =>
        LET log == trail'[calls'[d].subject] IN
          Linked(log, Len(log) + 1, calls'[d].entry)
  <2>1. ASSUME NEW d \in Calls, Step(d)' = "committing"
        PROVE  Linked(trail[calls[d].subject], Len(trail[calls[d].subject]) + 1,
                      calls[d].entry)
    BY <1>4, <2>1 DEF ChainInv
  <2>2. \A d \in Calls : Step(d)' = "committing" =>
          calls'[d] = calls[d] /\ trail'[calls[d].subject] = trail[calls[d].subject]
    BY <1>1, <1>4
  <2> QED
    BY <2>1, <2>2
<1>7. LateEntries' \subseteq LateEntries
  <2>1. ASSUME NEW t \in Subjects, NEW n \in 1 .. Len(trail'[t]) + 1, Late(t, n)'
        PROVE  n \in 1 .. Len(trail[t]) + 1 /\ Late(t, n)
    <3>1. CASE t # s
      BY <1>1, <1>4, <2>1, <3>1 DEF Late
    <3>2. CASE t = s
      <4>1. n \in 1 .. L + 1
        BY <1>1, <1>4, <2>1, <3>2 DEF Late
      <4>2. CASE n = L + 1
        <5>1. entry.occurred_at # n
          BY <1>1, <1>4, <2>1, <3>2, <4>2 DEF Late
        <5> QED
          BY <1>1, <1>2, <3>2, <4>1, <4>2, <5>1 DEF Late, s, entry, L
      <4>3. CASE n \in 1 .. L
        BY <1>1, <2>1, <3>2, <4>1, <4>3 DEF Late, L
      <4> QED
        BY <1>1, <4>1, <4>2, <4>3
    <3> QED
      BY <3>1, <3>2
  <2> QED
    BY <2>1 DEF LateEntries
<1>8. IsFiniteSet(LateEntries)' /\ Cardinality(LateEntries)' <= clockSteps'
  BY <1>2, <1>7, FewerLate
<1> QED
  BY <1>5, <1>6, <1>8 DEF ChainInv, Linked

LEMMA ChainStep == LockInv /\ LockInv' /\ ChainInv /\ [Next]_vars => ChainInv'
<1> SUFFICES ASSUME LockInv, LockInv', ChainInv, [Next]_vars PROVE ChainInv'
  OBVIOUS
<1>1. CASE Next
  BY <1>1, StepKinds, SilentKeepsChain, WrittenKeepsChain, CommittedKeepsChain
<1>2. CASE UNCHANGED vars
  <2>1. LateEntries' = LateEntries /\ clockSteps' = clockSteps
    BY <1>2 DEF vars, LateEntries, Late, Step
  <2> QED
    BY <1>2, <2>1 DEF vars, ChainInv, Linked, Step
<1> QED
  BY <1>1, <1>2

LEMMA ChainInit == Init => ChainInv
<1> SUFFICES ASSUME Init PROVE ChainInv
  OBVIOUS
<1>1. /\ \A c \in Calls : Step(c) = "idle"
      /\ \A s \in Subjects : trail[s] = <<>>
      /\ clockSteps = 0
  BY DEF Init, Step, Idle
<1>2. LateEntries = {}
  BY <1>1 DEF LateEntries, Late
<1> QED
  BY <1>1, <1>2, FS_EmptySet DEF ChainInv

Skips ==
  UNION {{<<s, n>> : n \in {k \in DOMAIN trail[s] : trail[s][k].previous # k - 1}} :
           s \in Subjects}

(* A link that skips an entry skips one that was stamped late.             *)
LEMMA SkipsAreLate ==
  ASSUME TypeOK, ChainInv
  PROVE  ChainFollowsCommits
<1> DEFINE f == [p \in Skips |-> <<p[1], p[2] - 1>>]
<1>1. \A s \in Subjects : Len(trail[s]) \in Nat /\ DOMAIN trail[s] = 1 .. Len(trail[s])
  BY LenProperties DEF TypeOK
<1>2. \A s \in Subjects : \A n \in DOMAIN trail[s] : Linked(trail[s], n, trail[s][n])
  BY DEF ChainInv
<1>3. ASSUME NEW p \in Skips
      PROVE  f[p] \in LateEntries /\ p = <<p[1], p[2]>> /\ p[2] \in Int
  <2>1. PICK s \in Subjects : \E n \in DOMAIN trail[s] :
          p = <<s, n>> /\ trail[s][n].previous # n - 1
    BY DEF Skips
  <2> PICK n \in DOMAIN trail[s] :
        p = <<s, n>> /\ trail[s][n].previous # n - 1
    BY <2>1
  <2>2. n \in 1 .. Len(trail[s]) /\ Linked(trail[s], n, trail[s][n])
    BY <1>1, <1>2
  <2>3. n # 1 /\ trail[s][n - 1].occurred_at # n - 1
    BY <2>2 DEF Linked
  <2>4. n - 1 \in DOMAIN trail[s] /\ n - 1 \in 1 .. Len(trail[s]) + 1
    BY <1>1, <2>2, <2>3
  <2>5. <<s, n - 1>> \in LateEntries
    BY <2>3, <2>4 DEF LateEntries, Late
  <2> QED
    BY <2>2, <2>5
<1>4. f \in Injection(Skips, LateEntries)
  BY <1>3 DEF Injection, IsInjective
<1>5. /\ IsFiniteSet(LateEntries) /\ Cardinality(LateEntries) <= clockSteps
      /\ Cardinality(LateEntries) \in Nat
  BY FS_CardinalityType DEF ChainInv
<1>6. IsFiniteSet(Skips) /\ Cardinality(Skips) <= Cardinality(LateEntries)
  BY <1>4, <1>5, FS_Injection
<1>7. Cardinality(Skips) <= clockSteps
  BY <1>5, <1>6, FS_CardinalityType DEF TypeOK
<1>8. \A s \in Subjects : \A n \in DOMAIN trail[s] :
        trail[s][n].previous \in IF n = 1 THEN {0} ELSE 1..(n - 1)
  BY <1>2 DEF Linked
<1> QED
  BY <1>7, <1>8 DEF ChainFollowsCommits, Skips

(* The link that writeAuditLog takes by time follows the commits: a trail  *)
(* has one root, and links that skip an entry are no more than the times   *)
(* the clock failed, whatever is interleaved or rolled back.               *)
THEOREM ChainIsTotal == Spec => []ChainFollowsCommits
<1>1. LockInv /\ ChainInv => ChainFollowsCommits
  BY SkipsAreLate DEF LockInv
<1> QED
  BY <1>1, ChainInit, ChainStep, LockInvAlways, PTL DEF Spec

=============================================================================
