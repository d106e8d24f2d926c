--------------------------- MODULE LoginThrottle ---------------------------
(***************************************************************************)
(* The throttle of POST /auth/login (auth.repository.ts): two counters in  *)
(* Redis, one per e-mail and one per client address, read before a password*)
(* is verified, incremented after a wrong one and deleted after a right    *)
(* one.  Redis commands are single steps; between two of them any other    *)
(* attempt runs.  Two commands started by one Promise.all are sent back to *)
(* back over one connection and are one step.                              *)
(***************************************************************************)
EXTENDS Naturals, FiniteSets

CONSTANTS
  Emails,      \* e-mail addresses, known to the system or not
  Addresses,   \* client IP addresses
  Slots,       \* login requests that may be in flight at the same time
  MAX_LOGIN_ATTEMPTS_PER_WINDOW,
  MaxFaults,   \* bound: how often a process stops or a Redis command fails
  NoAttempt    \* a free slot

EmailKey(e) == <<"email", e>>
IpKey(i) == <<"ip", i>>

Keys == {EmailKey(e) : e \in Emails} \cup {IpKey(i) : i \in Addresses}

(* opened: the keys whose INCR answered 1 and that still wait for EXPIRE.  *)
Attempts ==
  [pc : {"verifying", "recording", "expiring", "clearing"},
   email : Emails, ip : Addresses, opened : SUBSET Keys]

ASSUME MaxAssumption == MAX_LOGIN_ATTEMPTS_PER_WINDOW \in Nat \ {0}
ASSUME SlotsAssumption == IsFiniteSet(Slots)
ASSUME FaultsAssumption == MaxFaults \in Nat
ASSUME NoAttemptAssumption == NoAttempt \notin Attempts

VARIABLES
  counter,   \* counter[k]: the value of key k, 0 when Redis holds no such key
  expiring,  \* expiring[k]: key k has a time to live
  attempts,  \* attempts[s]: the login request in slot s, or NoAttempt
  faults     \* how many faults there were

vars == <<counter, expiring, attempts, faults>>

(* A time to live belongs to a key that exists.                            *)
TypeOK ==
  /\ counter \in [Keys -> Nat]
  /\ expiring \in [Keys -> BOOLEAN]
  /\ attempts \in [Slots -> Attempts \cup {NoAttempt}]
  /\ faults \in 0..MaxFaults
  /\ \A k \in Keys : expiring[k] => counter[k] > 0

Init ==
  /\ counter = [k \in Keys |-> 0]
  /\ expiring = [k \in Keys |-> FALSE]
  /\ attempts = [s \in Slots |-> NoAttempt]
  /\ faults = 0

At(s, pc) == attempts[s] # NoAttempt /\ attempts[s].pc = pc

KeysOf(attempt) == {EmailKey(attempt.email), IpKey(attempt.ip)}

Goto(s, pc) == attempts' = [attempts EXCEPT ![s].pc = pc]

Leave(s) == attempts' = [attempts EXCEPT ![s] = NoAttempt]

(* Redis forgets the keys ks.                                              *)
Forget(ks) ==
  /\ counter' = [k \in Keys |-> IF k \in ks THEN 0 ELSE counter[k]]
  /\ expiring' = [k \in Keys |-> k \notin ks /\ expiring[k]]

-----------------------------------------------------------------------------

(* Mutant: one attempt too many.                                           *)
checkLoginThrottle_OffByOne(e, i) ==
  \A k \in {EmailKey(e), IpKey(i)} : counter[k] <= MAX_LOGIN_ATTEMPTS_PER_WINDOW

checkLoginThrottle(e, i) ==
  \A k \in {EmailKey(e), IpKey(i)} : counter[k] < MAX_LOGIN_ATTEMPTS_PER_WINDOW

Enter(s, e, i) ==
  /\ attempts[s] = NoAttempt
  /\ attempts' = [attempts EXCEPT ![s] =
                    [pc |-> "verifying", email |-> e, ip |-> i, opened |-> {}]]
  /\ UNCHANGED <<counter, expiring>>

(* The request is let through.  Otherwise it is answered 429 and changes   *)
(* nothing.                                                                *)
login(s, e, i) ==
  /\ checkLoginThrottle(e, i)
  /\ Enter(s, e, i)
  /\ UNCHANGED faults

Fault == faults < MaxFaults /\ faults' = faults + 1

(* Redis does not answer the check: the request is let through.            *)
checkFails(s, e, i) == Fault /\ Enter(s, e, i)

(* Unknown e-mail or wrong password.                                       *)
rejectCredentials(s) ==
  /\ At(s, "verifying")
  /\ Goto(s, "recording")
  /\ UNCHANGED <<counter, expiring, faults>>

(* The right password of an account that is not ACTIVE, or a failing       *)
(* query: neither a failed attempt nor a reset.                            *)
refuseAccount(s) ==
  /\ At(s, "verifying")
  /\ Leave(s)
  /\ UNCHANGED <<counter, expiring, faults>>

(* The session is created before the counters are deleted.                 *)
acceptCredentials(s) ==
  /\ At(s, "verifying")
  /\ Goto(s, "clearing")
  /\ UNCHANGED <<counter, expiring, faults>>

(* Mutant: only the e-mail's key is given a window.                        *)
OpenedBy_EmailOnly(attempt) ==
  {k \in {EmailKey(attempt.email)} : counter[k] = 0}

(* The keys of the attempt whose INCR answers 1.                           *)
OpenedBy(attempt) == {k \in KeysOf(attempt) : counter[k] = 0}

(* INCR on both keys.                                                      *)
recordFailedLoginAttempt(s) ==
  /\ At(s, "recording")
  /\ counter' = [k \in Keys |->
                   IF k \in KeysOf(attempts[s]) THEN counter[k] + 1 ELSE counter[k]]
  /\ IF OpenedBy(attempts[s]) = {}
     THEN Leave(s)
     ELSE attempts' = [attempts EXCEPT ![s].pc = "expiring",
                                       ![s].opened = OpenedBy(attempts[s])]
  /\ UNCHANGED <<expiring, faults>>

(* EXPIRE does nothing on a key that no longer exists.                     *)
Expire(k) == expiring' = [expiring EXCEPT ![k] = counter[k] > 0]

(* EXPIRE on the keys this attempt opened, the e-mail's first.             *)
setWindow(s) ==
  /\ At(s, "expiring")
  /\ \E k \in attempts[s].opened :
       /\ k = IpKey(attempts[s].ip) =>
            EmailKey(attempts[s].email) \notin attempts[s].opened
       /\ Expire(k)
       /\ IF attempts[s].opened = {k}
          THEN Leave(s)
          ELSE attempts' = [attempts EXCEPT ![s].opened = @ \ {k}]
  /\ UNCHANGED <<counter, faults>>

(* Mutant: the counters are reset in place, with the window they have.     *)
clearFailedLoginAttempts_Reset(s) ==
  /\ At(s, "clearing")
  /\ counter' = [k \in Keys |-> IF k \in KeysOf(attempts[s]) THEN 0 ELSE counter[k]]
  /\ Leave(s)
  /\ UNCHANGED <<expiring, faults>>

(* DEL of both keys.                                                       *)
clearFailedLoginAttempts(s) ==
  /\ At(s, "clearing")
  /\ Forget(KeysOf(attempts[s]))
  /\ Leave(s)
  /\ UNCHANGED faults

(* Redis removes a key at the end of its time to live.                     *)
windowEnds(k) ==
  /\ expiring[k]
  /\ Forget({k})
  /\ UNCHANGED <<attempts, faults>>

(* The process stops, or a command fails and the catch block gives up.     *)
fail(s) ==
  /\ Fault
  /\ attempts[s] # NoAttempt
  /\ Leave(s)
  /\ UNCHANGED <<counter, expiring>>

Proceed(s) ==
  \/ rejectCredentials(s)
  \/ refuseAccount(s)
  \/ acceptCredentials(s)
  \/ recordFailedLoginAttempt(s)
  \/ setWindow(s)
  \/ clearFailedLoginAttempts(s)

Next ==
  \/ \E s \in Slots, e \in Emails, i \in Addresses :
       login(s, e, i) \/ checkFails(s, e, i)
  \/ \E s \in Slots : Proceed(s) \/ fail(s)
  \/ \E k \in Keys : windowEnds(k)

(* A running process continues its requests, and Redis removes expired     *)
(* keys.  Nobody has to try to log in.                                     *)
Fairness ==
  /\ \A s \in Slots : WF_vars(Proceed(s))
  /\ \A k \in Keys : WF_vars(windowEnds(k))

Spec == Init /\ [][Next]_vars /\ Fairness

-----------------------------------------------------------------------------

(* Attempts let through whose failure is not yet counted on key k.         *)
Pending(k) ==
  {s \in Slots : /\ attempts[s] # NoAttempt
                 /\ attempts[s].pc \in {"verifying", "recording"}
                 /\ k \in KeysOf(attempts[s])}

(* The check comes before the count, so attempts in flight together exceed *)
(* the limit, but by no more than the other attempts in flight and the     *)
(* checks Redis did not answer: a counter with the failures still to be    *)
(* counted never passes limit - 1 + slots + faults.                        *)
AttemptsBounded ==
  \A k \in Keys :
    counter[k] + Cardinality(Pending(k)) <=
      MAX_LOGIN_ATTEMPTS_PER_WINDOW - 1 + Cardinality(Slots) + faults

(* Every counter has a time to live or an attempt about to give it one:    *)
(* with DEL, INCR and EXPIRE of several attempts interleaved, no counter   *)
(* is left that never ends, unless a process stopped midway.               *)
EveryCounterExpires ==
  faults = 0 =>
    \A k \in Keys : counter[k] > 0 =>
      \/ expiring[k]
      \/ \E s \in Slots : At(s, "expiring") /\ k \in attempts[s].opened

Locked(k) == counter[k] >= MAX_LOGIN_ATTEMPTS_PER_WINDOW

(* "Too many failed login attempts. Please wait a few minutes before trying*)
(* again." (auth.repository.ts:542): without faults waiting does help.  A  *)
(* stop between INCR and EXPIRE breaks it: the counter never ends.         *)
LockoutEndsWithoutFaults ==
  \A k \in Keys : Locked(k) ~> (~Locked(k) \/ faults > 0)

=============================================================================
