------------------------- MODULE LoginThrottleProofs ------------------------
(***************************************************************************)
(* The login throttle, for every set of e-mails, addresses and requests in *)
(* flight, every limit and every number of faults: counters stay within    *)
(* the limit and the requests in flight, and none is left without a time   *)
(* to live.  Both statements are inductive together with TypeOK; a request *)
(* in flight is counted before its failure is, which is what bounds those  *)
(* that passed the check together.                                         *)
(***************************************************************************)
EXTENDS LoginThrottle, FiniteSetTheorems, TLAPS

ThrottleInv == TypeOK /\ AttemptsBounded /\ EveryCounterExpires

Limit == MAX_LOGIN_ATTEMPTS_PER_WINDOW

-----------------------------------------------------------------------------
(* Sets of requests in flight, and their sizes.                            *)

LEMMA SlotSets ==
  ASSUME NEW P, P \subseteq Slots
  PROVE  /\ IsFiniteSet(P)
         /\ Cardinality(P) \in Nat /\ Cardinality(Slots) \in Nat
         /\ Cardinality(P) <= Cardinality(Slots)
<1>1. IsFiniteSet(Slots)
  BY SlotsAssumption DEF SlotsAssumption
<1> QED
  BY <1>1, FS_Subset, FS_CardinalityType

LEMMA PendingAreSlots ==
  ASSUME NEW k
  PROVE  Pending(k) \subseteq Slots /\ Pending(k)' \subseteq Slots
  BY DEF Pending

LEMMA AttemptShapes ==
  ASSUME TypeOK, NEW s \in Slots, attempts[s] # NoAttempt
  PROVE  /\ attempts[s] \in Attempts
         /\ attempts[s].pc \in {"verifying", "recording", "expiring", "clearing"}
         /\ attempts[s].email \in Emails /\ attempts[s].ip \in Addresses
         /\ attempts[s].opened \subseteq Keys
         /\ KeysOf(attempts[s]) \subseteq Keys
<1>1. attempts[s] \in Attempts
  BY DEF TypeOK
<1>2. /\ attempts[s].pc \in {"verifying", "recording", "expiring", "clearing"}
      /\ attempts[s].email \in Emails /\ attempts[s].ip \in Addresses
      /\ attempts[s].opened \subseteq Keys
  BY <1>1 DEF Attempts
<1> QED
  BY <1>1, <1>2 DEF KeysOf, Keys

(* A key is no nearer to its limit when neither its counter nor the set of *)
(* attempts still to be counted on it grew.                                *)
BoundOf(k) ==
  counter[k] + Cardinality(Pending(k)) <= Limit - 1 + Cardinality(Slots) + faults

LEMMA BoundStays ==
  ASSUME TypeOK, TypeOK', NEW k \in Keys, BoundOf(k), faults' >= faults,
         \/ counter'[k] <= counter[k] /\ Pending(k)' \subseteq Pending(k)
         \/ counter'[k] <= Limit - 1
  PROVE  BoundOf(k)'
<1> DEFINE p == Cardinality(Pending(k))
           q == Cardinality(Pending(k)')
           n == Cardinality(Slots)
<1>1. p \in Nat /\ q \in Nat /\ n \in Nat /\ q <= n
  BY PendingAreSlots, SlotSets
<1>2. IsFiniteSet(Pending(k))
  BY PendingAreSlots, SlotSets
<1>3. Pending(k)' \subseteq Pending(k) => q <= p
  BY <1>2, FS_Subset
<1>4. /\ counter[k] \in Nat /\ counter'[k] \in Nat /\ Limit \in Nat
      /\ faults \in Nat /\ faults' \in Nat
  BY MaxAssumption, FaultsAssumption DEF TypeOK, Limit, MaxAssumption, FaultsAssumption
<1>5. counter[k] + p <= Limit - 1 + n + faults
  BY DEF BoundOf
<1> HIDE DEF p, q, n
<1>6. counter'[k] + q <= Limit - 1 + n + faults'
  BY <1>1, <1>3, <1>4, <1>5
<1> QED
  BY <1>6 DEF BoundOf, q, n, Limit

LEMMA BoundsOf == AttemptsBounded <=> \A k \in Keys : BoundOf(k)
  BY DEF AttemptsBounded, BoundOf, Limit

-----------------------------------------------------------------------------
(* The steps.                                                              *)

LEMMA EnterEffect ==
  ASSUME TypeOK, NEW s \in Slots, NEW e \in Emails, NEW i \in Addresses,
         Enter(s, e, i), faults' \in 0..MaxFaults
  PROVE  /\ TypeOK'
         /\ attempts[s] = NoAttempt
         /\ \A r \in Slots \ {s} : attempts'[r] = attempts[r]
         /\ attempts'[s].email = e /\ attempts'[s].ip = i
         /\ UNCHANGED <<counter, expiring>>
<1> DEFINE h == [pc |-> "verifying", email |-> e, ip |-> i, opened |-> {}]
<1>1. h \in Attempts
  BY DEF Attempts
<1>2. attempts' = [attempts EXCEPT ![s] = h] /\ h.email = e /\ h.ip = i
  BY DEF Enter
<1> HIDE DEF h
<1> QED
  BY <1>1, <1>2 DEF Enter, TypeOK

LEMMA CountersExpireStill ==
  ASSUME TypeOK, EveryCounterExpires, UNCHANGED <<counter, expiring>>,
         faults' = 0 => faults = 0,
         \A r \in Slots : At(r, "expiring") => attempts'[r] = attempts[r]
  PROVE  EveryCounterExpires'
<1> SUFFICES ASSUME faults' = 0, NEW k \in Keys, counter'[k] > 0, ~expiring'[k]
             PROVE  \E r \in Slots : At(r, "expiring")' /\ k \in attempts'[r].opened
  BY DEF EveryCounterExpires
<1>1. PICK r \in Slots : At(r, "expiring") /\ k \in attempts[r].opened
  BY DEF EveryCounterExpires
<1>2. attempts'[r] = attempts[r]
  BY <1>1
<1> QED
  BY <1>1, <1>2 DEF At

LEMMA LoginKeeps ==
  ASSUME ThrottleInv, NEW s \in Slots, NEW e \in Emails, NEW i \in Addresses,
         login(s, e, i)
  PROVE  ThrottleInv'
<1>1. TypeOK /\ faults' = faults /\ faults \in 0..MaxFaults /\ Enter(s, e, i)
  BY DEF ThrottleInv, login, TypeOK
<1>2. /\ TypeOK' /\ attempts[s] = NoAttempt
      /\ \A r \in Slots \ {s} : attempts'[r] = attempts[r]
      /\ attempts'[s].email = e /\ attempts'[s].ip = i
      /\ UNCHANGED <<counter, expiring>>
  BY <1>1, EnterEffect
<1>3. ASSUME NEW k \in Keys PROVE BoundOf(k)'
  <2>1. BoundOf(k) /\ faults' >= faults /\ counter[k] \in Nat /\ Limit \in Nat
    BY <1>1, BoundsOf, FaultsAssumption, MaxAssumption
       DEF ThrottleInv, TypeOK, Limit, MaxAssumption, FaultsAssumption
  <2>2. CASE k \in {EmailKey(e), IpKey(i)}
    <3>1. counter[k] < Limit
      BY <2>2 DEF login, checkLoginThrottle, Limit
    <3>2. counter'[k] <= Limit - 1
      BY <1>2, <2>1, <3>1
    <3> QED
      BY <1>1, <1>2, <2>1, <3>2, BoundStays
  <2>3. CASE k \notin {EmailKey(e), IpKey(i)}
    <3>1. Pending(k)' \subseteq Pending(k)
      BY <1>2, <2>3 DEF Pending, KeysOf
    <3>2. counter'[k] <= counter[k]
      BY <1>2, <2>1
    <3> QED
      BY <1>1, <1>2, <2>1, <3>1, <3>2, BoundStays
  <2> QED
    BY <2>2, <2>3
<1>4. AttemptsBounded'
  BY <1>3 DEF AttemptsBounded, BoundOf, Limit
<1>5. EveryCounterExpires'
  BY <1>1, <1>2, CountersExpireStill DEF ThrottleInv, At
<1> QED
  BY <1>2, <1>4, <1>5 DEF ThrottleInv

LEMMA CheckFailsKeeps ==
  ASSUME ThrottleInv, NEW s \in Slots, NEW e \in Emails, NEW i \in Addresses,
         checkFails(s, e, i)
  PROVE  ThrottleInv'
<1>1. /\ TypeOK /\ faults' = faults + 1 /\ faults' \in 0..MaxFaults /\ faults \in Nat
      /\ Enter(s, e, i)
  BY FaultsAssumption DEF ThrottleInv, checkFails, Fault, TypeOK, FaultsAssumption
<1>2. /\ TypeOK' /\ attempts[s] = NoAttempt
      /\ \A r \in Slots \ {s} : attempts'[r] = attempts[r]
      /\ UNCHANGED <<counter, expiring>>
  BY <1>1, EnterEffect
<1>3. ASSUME NEW k \in Keys PROVE BoundOf(k)'
  <2> DEFINE p == Cardinality(Pending(k))
             q == Cardinality(Pending(k)')
             n == Cardinality(Slots)
  <2>1. IsFiniteSet(Pending(k)) /\ p \in Nat /\ q \in Nat /\ n \in Nat
    BY PendingAreSlots, SlotSets
  <2>2. Pending(k)' \subseteq Pending(k) \cup {s}
    BY <1>2 DEF Pending, KeysOf
  <2>3. q <= p + 1
    <3>1. /\ IsFiniteSet(Pending(k) \cup {s})
          /\ \/ Cardinality(Pending(k) \cup {s}) = p
             \/ Cardinality(Pending(k) \cup {s}) = p + 1
      BY <2>1, FS_AddElement
    <3>2. q <= Cardinality(Pending(k) \cup {s})
      BY <2>2, <3>1, FS_Subset
    <3> QED
      BY <2>1, <3>1, <3>2
  <2>4. counter[k] + p <= Limit - 1 + n + faults /\ counter[k] \in Nat /\ Limit \in Nat
    BY <1>1, BoundsOf, MaxAssumption
       DEF ThrottleInv, BoundOf, TypeOK, Limit, MaxAssumption
  <2> HIDE DEF p, q, n
  <2>5. counter[k] + q <= Limit - 1 + n + (faults + 1)
    BY <1>1, <2>1, <2>3, <2>4
  <2> QED
    BY <1>1, <1>2, <2>5 DEF BoundOf, q, n, Limit
<1>4. AttemptsBounded'
  BY <1>3 DEF AttemptsBounded, BoundOf, Limit
<1>5. EveryCounterExpires'
  BY <1>1 DEF EveryCounterExpires
<1> QED
  BY <1>2, <1>4, <1>5 DEF ThrottleInv

(* A step of one attempt that changes no key and adds nothing to count.    *)
LEMMA StepKeeps ==
  ASSUME ThrottleInv, NEW s \in Slots, NEW h \in Attempts \cup {NoAttempt},
         attempts' = [attempts EXCEPT ![s] = h],
         h # NoAttempt /\ h.pc \in {"verifying", "recording"} =>
           /\ attempts[s] # NoAttempt /\ attempts[s].pc \in {"verifying", "recording"}
           /\ KeysOf(h) = KeysOf(attempts[s]),
         UNCHANGED <<counter, expiring>>,
         \/ UNCHANGED faults /\ ~At(s, "expiring")
         \/ Fault
  PROVE  ThrottleInv'
<1>1. TypeOK /\ faults' >= faults /\ faults' \in 0..MaxFaults /\ faults \in Nat
  BY FaultsAssumption DEF ThrottleInv, Fault, TypeOK, FaultsAssumption
<1>2. attempts'[s] = h /\ \A r \in Slots \ {s} : attempts'[r] = attempts[r]
  BY <1>1 DEF TypeOK
<1>3. TypeOK'
  BY <1>1 DEF TypeOK
<1>4. ASSUME NEW k \in Keys PROVE BoundOf(k)'
  <2>1. Pending(k)' \subseteq Pending(k)
    BY <1>2 DEF Pending, KeysOf
  <2>2. BoundOf(k) /\ counter'[k] <= counter[k]
    BY <1>1, BoundsOf DEF ThrottleInv, TypeOK
  <2> QED
    BY <1>1, <1>3, <2>1, <2>2, BoundStays
<1>5. AttemptsBounded'
  BY <1>4 DEF AttemptsBounded, BoundOf, Limit
<1>6. EveryCounterExpires'
  <2>1. CASE UNCHANGED faults /\ ~At(s, "expiring")
    <3>1. \A r \in Slots : At(r, "expiring") => attempts'[r] = attempts[r]
      BY <1>2, <2>1 DEF At
    <3> QED
      BY <1>1, <2>1, <3>1, CountersExpireStill DEF ThrottleInv
  <2>2. CASE Fault
    BY <1>1, <2>2 DEF Fault, EveryCounterExpires
  <2> QED
    BY <2>1, <2>2
<1> QED
  BY <1>3, <1>5, <1>6 DEF ThrottleInv

LEMMA RejectKeeps ==
  ASSUME ThrottleInv, NEW s \in Slots, rejectCredentials(s)
  PROVE  ThrottleInv'
<1> DEFINE h == [attempts[s] EXCEPT !.pc = "recording"]
<1>1. attempts[s] # NoAttempt /\ attempts[s].pc = "verifying" /\ attempts[s] \in Attempts
  BY AttemptShapes DEF rejectCredentials, At, ThrottleInv
<1>2. /\ h \in Attempts
      /\ h.email = attempts[s].email /\ h.ip = attempts[s].ip
  BY <1>1 DEF Attempts
<1>3. attempts' = [attempts EXCEPT ![s] = h]
  BY DEF rejectCredentials, Goto
<1> HIDE DEF h
<1>4. KeysOf(h) = KeysOf(attempts[s])
  BY <1>2 DEF KeysOf
<1> QED
  BY <1>1, <1>2, <1>3, <1>4, StepKeeps DEF rejectCredentials, At

LEMMA AcceptKeeps ==
  ASSUME ThrottleInv, NEW s \in Slots, acceptCredentials(s)
  PROVE  ThrottleInv'
<1> DEFINE h == [attempts[s] EXCEPT !.pc = "clearing"]
<1>1. attempts[s] # NoAttempt /\ attempts[s].pc = "verifying" /\ attempts[s] \in Attempts
  BY AttemptShapes DEF acceptCredentials, At, ThrottleInv
<1>2. h \in Attempts /\ h.pc = "clearing"
  BY <1>1 DEF Attempts
<1>3. attempts' = [attempts EXCEPT ![s] = h]
  BY DEF acceptCredentials, Goto
<1> HIDE DEF h
<1> QED
  BY <1>1, <1>2, <1>3, StepKeeps DEF acceptCredentials, At

LEMMA RefuseKeeps ==
  ASSUME ThrottleInv, NEW s \in Slots, refuseAccount(s)
  PROVE  ThrottleInv'
<1>1. attempts' = [attempts EXCEPT ![s] = NoAttempt] /\ attempts[s].pc = "verifying"
  BY DEF refuseAccount, Leave, At
<1> QED
  BY <1>1, StepKeeps DEF refuseAccount, At

LEMMA FailKeeps ==
  ASSUME ThrottleInv, NEW s \in Slots, fail(s)
  PROVE  ThrottleInv'
  BY StepKeeps DEF fail, Leave

(* INCR on both keys: the failure moves from the attempts still to be      *)
(* counted into the counters.                                              *)
LEMMA RecordKeeps ==
  ASSUME ThrottleInv, NEW s \in Slots, recordFailedLoginAttempt(s)
  PROVE  ThrottleInv'
<1> DEFINE opened == OpenedBy(attempts[s])
           h == IF opened = {} THEN NoAttempt
                ELSE [attempts[s] EXCEPT !.pc = "expiring", !.opened = opened]
<1>1. /\ attempts[s] # NoAttempt /\ attempts[s].pc = "recording"
      /\ attempts[s] \in Attempts /\ KeysOf(attempts[s]) \subseteq Keys /\ TypeOK
      /\ UNCHANGED <<expiring, faults>>
      /\ counter' = [k \in Keys |-> IF k \in KeysOf(attempts[s]) THEN counter[k] + 1
                                    ELSE counter[k]]
  BY AttemptShapes DEF recordFailedLoginAttempt, At, ThrottleInv
<1>2. opened \subseteq Keys /\ opened = {k \in KeysOf(attempts[s]) : counter[k] = 0}
  BY <1>1 DEF OpenedBy
<1>3. /\ h \in Attempts \cup {NoAttempt}
      /\ opened # {} => h # NoAttempt /\ h.pc = "expiring" /\ h.opened = opened
      /\ opened = {} => h = NoAttempt
  <2>1. CASE opened = {}
    BY <2>1
  <2>2. CASE opened # {}
    <3> DEFINE g == [attempts[s] EXCEPT !.pc = "expiring", !.opened = opened]
    <3>1. g \in Attempts /\ g.pc = "expiring" /\ g.opened = opened
      BY <1>1, <1>2 DEF Attempts
    <3>2. g # NoAttempt /\ h = g
      BY <2>2, <3>1, NoAttemptAssumption DEF NoAttemptAssumption
    <3> QED
      BY <2>2, <3>1, <3>2
  <2> QED
    BY <2>1, <2>2
<1>4. attempts' = [attempts EXCEPT ![s] = h]
  BY DEF recordFailedLoginAttempt, Leave
<1> HIDE DEF h, opened
<1>5. attempts'[s] = h /\ \A r \in Slots \ {s} : attempts'[r] = attempts[r]
  BY <1>1, <1>4 DEF TypeOK
<1>6. /\ \A k \in Keys : counter[k] \in Nat /\ counter'[k] \in Nat
      /\ \A k \in Keys : counter'[k] = IF k \in KeysOf(attempts[s]) THEN counter[k] + 1
                                       ELSE counter[k]
  BY <1>1 DEF TypeOK
<1>7. TypeOK'
  <2>1. \A k \in Keys : expiring'[k] => counter'[k] > 0
    BY <1>1, <1>6 DEF TypeOK
  <2>2. counter' \in [Keys -> Nat]
    BY <1>1, <1>6
  <2>3. attempts' \in [Slots -> Attempts \cup {NoAttempt}]
    BY <1>1, <1>3, <1>4 DEF TypeOK
  <2> QED
    BY <1>1, <2>1, <2>2, <2>3 DEF TypeOK
<1>8. ASSUME NEW k \in Keys PROVE BoundOf(k)'
  <2>1. Pending(k)' = Pending(k) \ {s}
    BY <1>3, <1>5 DEF Pending
  <2>2. BoundOf(k) /\ faults' >= faults /\ faults \in Nat
    BY <1>1, BoundsOf, FaultsAssumption DEF ThrottleInv, TypeOK, FaultsAssumption
  <2>3. CASE k \notin KeysOf(attempts[s])
    <3>1. counter'[k] <= counter[k] /\ Pending(k)' \subseteq Pending(k)
      BY <1>6, <2>1, <2>3
    <3> QED
      BY <1>1, <1>7, <2>2, <3>1, BoundStays
  <2>4. CASE k \in KeysOf(attempts[s])
    <3> DEFINE p == Cardinality(Pending(k))
               q == Cardinality(Pending(k)')
               n == Cardinality(Slots)
    <3>1. s \in Pending(k)
      BY <1>1, <2>4 DEF Pending
    <3>2. IsFiniteSet(Pending(k)) /\ p \in Nat /\ q \in Nat /\ n \in Nat
      BY PendingAreSlots, SlotSets
    <3>3. q = p - 1
      BY <2>1, <3>1, <3>2, FS_RemoveElement
    <3>4. counter[k] + p <= Limit - 1 + n + faults /\ Limit \in Nat
      BY <2>2, MaxAssumption DEF BoundOf, Limit, MaxAssumption
    <3>5. counter'[k] = counter[k] + 1 /\ counter[k] \in Nat
      BY <1>6, <2>4
    <3> HIDE DEF p, q, n
    <3>6. counter'[k] + q <= Limit - 1 + n + faults
      BY <2>2, <3>2, <3>3, <3>4, <3>5
    <3> QED
      BY <1>1, <3>6 DEF BoundOf, q, n, Limit
  <2> QED
    BY <2>3, <2>4
<1>9. AttemptsBounded'
  BY <1>8 DEF AttemptsBounded, BoundOf, Limit
<1>10. EveryCounterExpires'
  <2> SUFFICES ASSUME faults' = 0, NEW k \in Keys, counter'[k] > 0, ~expiring'[k]
               PROVE  \E r \in Slots : At(r, "expiring")' /\ k \in attempts'[r].opened
    BY DEF EveryCounterExpires
  <2>1. CASE k \in opened
    <3>1. attempts'[s] # NoAttempt /\ attempts'[s].pc = "expiring" /\ k \in attempts'[s].opened
      BY <1>3, <1>5, <2>1
    <3> QED
      BY <3>1 DEF At
  <2>2. CASE k \notin opened
    <3>1. counter[k] > 0
      BY <1>2, <1>6, <2>2
    <3>2. PICK r \in Slots : At(r, "expiring") /\ k \in attempts[r].opened
      BY <1>1, <3>1 DEF ThrottleInv, EveryCounterExpires
    <3>3. r # s /\ attempts'[r] = attempts[r]
      BY <1>1, <1>5, <3>2 DEF At
    <3> QED
      BY <3>2, <3>3 DEF At
  <2> QED
    BY <2>1, <2>2
<1> QED
  BY <1>7, <1>9, <1>10 DEF ThrottleInv

(* EXPIRE on a key the attempt opened, which may be gone again.            *)
LEMMA SetWindowKeeps ==
  ASSUME ThrottleInv, NEW s \in Slots, setWindow(s)
  PROVE  ThrottleInv'
<1>1. /\ attempts[s] # NoAttempt /\ attempts[s].pc = "expiring"
      /\ attempts[s] \in Attempts /\ attempts[s].opened \subseteq Keys /\ TypeOK
      /\ UNCHANGED <<counter, faults>>
  BY AttemptShapes DEF setWindow, At, ThrottleInv
<1>2. PICK e \in attempts[s].opened :
        /\ expiring' = [expiring EXCEPT ![e] = counter[e] > 0]
        /\ IF attempts[s].opened = {e}
           THEN Leave(s)
           ELSE attempts' = [attempts EXCEPT ![s].opened = @ \ {e}]
  BY DEF setWindow, Expire
<1> DEFINE opened == attempts[s].opened \ {e}
           h == IF opened = {} THEN NoAttempt
                ELSE [attempts[s] EXCEPT !.opened = opened]
<1>3. /\ h \in Attempts \cup {NoAttempt}
      /\ opened # {} => h # NoAttempt /\ h.pc = "expiring" /\ h.opened = opened
      /\ opened = {} => h = NoAttempt
  <2>1. CASE opened = {}
    BY <2>1
  <2>2. CASE opened # {}
    <3> DEFINE g == [attempts[s] EXCEPT !.opened = opened]
    <3>1. g \in Attempts /\ g.pc = "expiring" /\ g.opened = opened
      BY <1>1 DEF Attempts
    <3>2. g # NoAttempt /\ h = g
      BY <2>2, <3>1, NoAttemptAssumption DEF NoAttemptAssumption
    <3> QED
      BY <2>2, <3>1, <3>2
  <2> QED
    BY <2>1, <2>2
<1>4. attempts' = [attempts EXCEPT ![s] = h]
  <2>1. opened = {} <=> attempts[s].opened = {e}
    BY <1>2
  <2> QED
    BY <1>2, <2>1 DEF Leave
<1>5. e \in Keys /\ \A k \in attempts[s].opened : k = e \/ k \in opened
  BY <1>1, <1>2
<1> HIDE DEF h, opened
<1>6. attempts'[s] = h /\ \A r \in Slots \ {s} : attempts'[r] = attempts[r]
  BY <1>1, <1>4 DEF TypeOK
<1>7. /\ expiring' \in [Keys -> BOOLEAN]
      /\ expiring'[e] <=> counter[e] > 0
      /\ \A k \in Keys \ {e} : expiring'[k] <=> expiring[k]
  <2>1. expiring \in [Keys -> BOOLEAN] /\ (counter[e] > 0) \in BOOLEAN
    BY <1>1 DEF TypeOK
  <2>2. expiring' \in [Keys -> BOOLEAN]
    BY <1>2, <2>1
  <2>3. expiring'[e] <=> counter[e] > 0
    BY <1>2, <1>5, <2>1, Zenon
  <2>4. \A k \in Keys \ {e} : expiring'[k] <=> expiring[k]
    BY <1>2, <2>1
  <2> QED
    BY <2>2, <2>3, <2>4
<1>8. TypeOK'
  <2>1. \A k \in Keys : expiring'[k] => counter'[k] > 0
    BY <1>1, <1>7 DEF TypeOK
  <2>2. attempts' \in [Slots -> Attempts \cup {NoAttempt}]
    BY <1>1, <1>3, <1>4 DEF TypeOK
  <2> QED
    BY <1>1, <1>7, <2>1, <2>2 DEF TypeOK
<1>9. ASSUME NEW k \in Keys PROVE BoundOf(k)'
  <2>1. Pending(k)' \subseteq Pending(k)
    BY <1>3, <1>6 DEF Pending
  <2>2. BoundOf(k) /\ counter'[k] <= counter[k] /\ faults' >= faults
    BY <1>1, BoundsOf, FaultsAssumption DEF ThrottleInv, TypeOK, FaultsAssumption
  <2> QED
    BY <1>1, <1>8, <2>1, <2>2, BoundStays
<1>10. AttemptsBounded'
  BY <1>9 DEF AttemptsBounded, BoundOf, Limit
<1>11. EveryCounterExpires'
  <2> SUFFICES ASSUME faults' = 0, NEW k \in Keys, counter'[k] > 0, ~expiring'[k]
               PROVE  \E r \in Slots : At(r, "expiring")' /\ k \in attempts'[r].opened
    BY DEF EveryCounterExpires
  <2>1. k # e /\ ~expiring[k] /\ counter[k] > 0
    BY <1>1, <1>7
  <2>2. PICK r \in Slots : At(r, "expiring") /\ k \in attempts[r].opened
    BY <1>1, <2>1 DEF ThrottleInv, EveryCounterExpires
  <2>3. CASE r = s
    <3>1. k \in opened
      BY <1>5, <2>1, <2>2, <2>3
    <3>2. attempts'[s] # NoAttempt /\ attempts'[s].pc = "expiring" /\ k \in attempts'[s].opened
      BY <1>3, <1>6, <3>1
    <3> QED
      BY <3>2 DEF At
  <2>4. CASE r # s
    BY <1>6, <2>2, <2>4 DEF At
  <2> QED
    BY <2>3, <2>4
<1> QED
  BY <1>8, <1>10, <1>11 DEF ThrottleInv

(* DEL of an attempt's keys, or the end of a time to live.                 *)
LEMMA ForgetKeeps ==
  ASSUME ThrottleInv, NEW ks, Forget(ks), faults' = faults,
         attempts' = attempts \/ \E s \in Slots : Leave(s) /\ At(s, "clearing")
  PROVE  ThrottleInv'
<1>1. /\ TypeOK
      /\ \A k \in Keys : counter'[k] = IF k \in ks THEN 0 ELSE counter[k]
      /\ \A k \in Keys : expiring'[k] <=> (k \notin ks /\ expiring[k])
      /\ counter' \in [Keys -> Nat] /\ expiring' \in [Keys -> BOOLEAN]
  <2>1. TypeOK
    BY DEF ThrottleInv
  <2>2. counter' = [k \in Keys |-> IF k \in ks THEN 0 ELSE counter[k]]
    BY DEF Forget
  <2>3. expiring' = [k \in Keys |-> k \notin ks /\ expiring[k]]
    BY DEF Forget
  <2>4. \A k \in Keys : expiring'[k] <=> (k \notin ks /\ expiring[k])
    BY <2>3, Zenon
  <2>5. expiring' \in [Keys -> BOOLEAN]
    BY <2>3
  <2>6. counter' \in [Keys -> Nat]
        /\ \A k \in Keys : counter'[k] = IF k \in ks THEN 0 ELSE counter[k]
    BY <2>1, <2>2 DEF TypeOK
  <2> QED
    BY <2>1, <2>4, <2>5, <2>6
<1>2. /\ attempts' \in [Slots -> Attempts \cup {NoAttempt}]
      /\ \A r \in Slots : \/ attempts'[r] = attempts[r]
                          \/ attempts'[r] = NoAttempt /\ ~At(r, "expiring")
  BY <1>1 DEF TypeOK, Leave, At
<1>3. TypeOK'
  <2>1. \A k \in Keys : expiring'[k] => counter'[k] > 0
    BY <1>1 DEF TypeOK
  <2> QED
    BY <1>1, <1>2, <2>1 DEF TypeOK
<1>4. ASSUME NEW k \in Keys PROVE BoundOf(k)'
  <2>1. BoundOf(k) /\ faults' >= faults /\ counter[k] \in Nat /\ Limit \in Nat \ {0}
    BY <1>1, BoundsOf, FaultsAssumption, MaxAssumption
       DEF ThrottleInv, TypeOK, Limit, FaultsAssumption, MaxAssumption
  <2>2. CASE k \in ks
    <3>1. counter'[k] <= Limit - 1
      BY <1>1, <2>1, <2>2
    <3> QED
      BY <1>1, <1>3, <2>1, <3>1, BoundStays
  <2>3. CASE k \notin ks
    <3>1. Pending(k)' \subseteq Pending(k)
      BY <1>2 DEF Pending
    <3>2. counter'[k] <= counter[k]
      BY <1>1, <2>1, <2>3
    <3> QED
      BY <1>1, <1>3, <2>1, <3>1, <3>2, BoundStays
  <2> QED
    BY <2>2, <2>3
<1>5. AttemptsBounded'
  BY <1>4 DEF AttemptsBounded, BoundOf, Limit
<1>6. EveryCounterExpires'
  <2> SUFFICES ASSUME faults' = 0, NEW k \in Keys, counter'[k] > 0, ~expiring'[k]
               PROVE  \E r \in Slots : At(r, "expiring")' /\ k \in attempts'[r].opened
    BY DEF EveryCounterExpires
  <2>1. counter[k] > 0 /\ ~expiring[k]
    <3>1. k \notin ks
      BY <1>1
    <3> QED
      BY <1>1, <3>1
  <2>2. PICK r \in Slots : At(r, "expiring") /\ k \in attempts[r].opened
    BY <2>1 DEF ThrottleInv, EveryCounterExpires
  <2> QED
    BY <1>2, <2>2 DEF At
<1> QED
  BY <1>3, <1>5, <1>6 DEF ThrottleInv

LEMMA ClearKeeps ==
  ASSUME ThrottleInv, NEW s \in Slots, clearFailedLoginAttempts(s)
  PROVE  ThrottleInv'
  BY ForgetKeeps DEF clearFailedLoginAttempts

LEMMA UnchangedKeeps ==
  ASSUME ThrottleInv, UNCHANGED vars
  PROVE  ThrottleInv'
  BY DEF ThrottleInv, TypeOK, AttemptsBounded, EveryCounterExpires, Pending, At, vars

LEMMA ThrottleInvInit == Init => ThrottleInv
<1> SUFFICES ASSUME Init PROVE ThrottleInv
  OBVIOUS
<1>1. TypeOK
  BY FaultsAssumption DEF Init, TypeOK, FaultsAssumption
<1>2. EveryCounterExpires
  BY DEF Init, EveryCounterExpires
<1>3. ASSUME NEW k \in Keys PROVE BoundOf(k)
  <2>1. Pending(k) = {}
    BY DEF Init, Pending
  <2>2. Cardinality(Pending(k)) = 0
    BY <2>1, FS_EmptySet
  <2>3. Cardinality(Slots) \in Nat
    BY SlotSets
  <2> QED
    BY <2>2, <2>3, MaxAssumption DEF Init, BoundOf, Limit, MaxAssumption
<1>4. AttemptsBounded
  BY <1>3, BoundsOf
<1> QED
  BY <1>1, <1>2, <1>4 DEF ThrottleInv

LEMMA ThrottleInvStep == ThrottleInv /\ [Next]_vars => ThrottleInv'
<1> SUFFICES ASSUME ThrottleInv, [Next]_vars PROVE ThrottleInv'
  OBVIOUS
<1>1. CASE \E s \in Slots, e \in Emails, i \in Addresses :
             login(s, e, i) \/ checkFails(s, e, i)
  BY <1>1, LoginKeeps, CheckFailsKeeps
<1>2. ASSUME NEW s \in Slots, Proceed(s) \/ fail(s)
      PROVE  ThrottleInv'
  BY <1>2, RejectKeeps, RefuseKeeps, AcceptKeeps, RecordKeeps, SetWindowKeeps,
     ClearKeeps, FailKeeps DEF Proceed
<1>3. ASSUME NEW k \in Keys, windowEnds(k)
      PROVE  ThrottleInv'
  BY <1>3, ForgetKeeps DEF windowEnds
<1>4. CASE UNCHANGED vars
  BY <1>4, UnchangedKeeps
<1> QED
  BY <1>1, <1>2, <1>3, <1>4 DEF Next

LEMMA ThrottleInvAlways == Spec => []ThrottleInv
<1> QED
  BY ThrottleInvInit, ThrottleInvStep, PTL DEF Spec

-----------------------------------------------------------------------------

(* Counters, times to live and attempts keep their types, and only a key   *)
(* that exists has a time to live (auth.repository.ts:986-1065).           *)
THEOREM ThrottleTypes == Spec => []TypeOK
<1>1. ThrottleInv => TypeOK
  BY DEF ThrottleInv
<1> QED
  BY <1>1, ThrottleInvAlways, PTL

(* For every limit and number of requests in flight: the failures counted  *)
(* on a key and those still to be counted exceed the limit by no more than *)
(* the requests in flight and the checks that failed                       *)
(* (auth.repository.ts:986-1032).                                         *)
THEOREM FailuresBounded == Spec => []AttemptsBounded
<1>1. ThrottleInv => AttemptsBounded
  BY DEF ThrottleInv
<1> QED
  BY <1>1, ThrottleInvAlways, PTL

(* Without faults INCR, EXPIRE and DEL of any number of interleaved        *)
(* attempts leave no counter that never ends (auth.repository.ts:1019-1065).*)
THEOREM CountersExpire == Spec => []EveryCounterExpires
<1>1. ThrottleInv => EveryCounterExpires
  BY DEF ThrottleInv
<1> QED
  BY <1>1, ThrottleInvAlways, PTL

=============================================================================
