----------------------------- MODULE ReadCache -----------------------------
(***************************************************************************)
(* The Redis caches in front of GET /applications/:id and GET /applications*)
(* (application-cache.helper.ts, applications.repository.ts) for one       *)
(* application.  Writers commit and then delete keys; readers that find    *)
(* nothing read the database and then set keys.  Neither locks anything.   *)
(* The application is its version, the number of writes committed to it; a *)
(* list shows the version it was read at, and the details, three queries   *)
(* without a transaction, also the completed reviews as of later versions. *)
(* Commands one request sends with Promise.all reach Redis back to back,   *)
(* as one step.                                                            *)
(***************************************************************************)
EXTENDS Naturals, FiniteSetsExt

CONSTANTS
  Views,       \* lists: a role, its user and a filter
  Readers, Writers,  \* requests that may be in flight at the same time
  SubmittedAt, \* the write that submits the application
  ReviewedAt,  \* the writes that complete a review ...
  RequestedAt, \* ... and those of them that request information
  MaxWrites,   \* bound on committed writes
  MaxFaults,   \* bound on failing Redis commands and stops
  None

ASSUME BoundsAssumption ==
  /\ MaxWrites \in Nat /\ MaxFaults \in Nat /\ SubmittedAt \in 1..MaxWrites
  /\ RequestedAt \subseteq ReviewedAt /\ ReviewedAt \subseteq 1..MaxWrites
ASSUME NoneAssumption == None \notin Nat \cup Views

DetailKey == <<"details", "any">>
ListKey(view) == <<"list", view>>
CountKey(view) == <<"count", view>>

ListKeys == {ListKey(view) : view \in Views}
CountKeys == {CountKey(view) : view \in Views}
Keys == {DetailKey} \cup ListKeys \cup CountKeys

(* Who asks for the details: the applicant who owns the application,       *)
(* another applicant, or a user with an internal viewer role.              *)
Viewers == {"owner", "other applicant", "internal"}

Versions == 0..MaxWrites

(* What a key holds: the version of the rows, and for the details the      *)
(* writes that completed latest_info_request and latest_review, 0 for none.*)
Answers == [rows : Versions, request : Versions, review : Versions]

Listed(v) == [rows |-> v, request |-> 0, review |-> 0]

(* A request for the details (view = None) or for a list (viewer = None).  *)
Reads ==
  [pc : {"missed", "row read", "request read", "filling", "answered"},
   viewer : Viewers \cup {None}, view : Views \cup {None},
   answer : Answers, count : Answers]

ASSUME IdleAssumption == None \notin Reads \cup Answers

VARIABLES
  version,  \* writes committed so far
  cache,    \* cache[k]: the answer held by key k, or None
  reads,    \* reads[r]: the GET of reader r, or None
  pending,  \* pending[w]: keys writer w has still to delete
  late,     \* keys set with, or left with, an outdated version
  faults

vars == <<version, cache, reads, pending, late, faults>>

TypeOK ==
  /\ version \in Versions
  /\ cache \in [Keys -> Answers \cup {None}]
  /\ reads \in [Readers -> Reads \cup {None}]
  /\ pending \in [Writers -> SUBSET Keys]
  /\ late \subseteq Keys
  /\ faults \in 0..MaxFaults
  /\ \A r \in Readers : reads[r] # None =>
       reads[r].answer.rows <= version /\ reads[r].count.rows <= version

Init ==
  /\ version = 0
  /\ cache = [k \in Keys |-> None]
  /\ reads = [r \in Readers |-> None]
  /\ pending = [w \in Writers |-> {}]
  /\ late = {}
  /\ faults = 0

IsDraft(v) == v < SubmittedAt

Fault == faults < MaxFaults /\ faults' = faults + 1

Evict(ks) ==
  /\ cache' = [k \in Keys |-> IF k \in ks THEN None ELSE cache[k]]
  /\ late' = late \ ks

-----------------------------------------------------------------------------

(* Mutant: the counts are not invalidated.                                 *)
InvalidatedKeys_NoCounts == {DetailKey} \cup ListKeys

InvalidatedKeys == {DetailKey} \cup ListKeys \cup CountKeys

(* A handler commits a change of the application.                          *)
write(w) ==
  /\ pending[w] = {}
  /\ version < MaxWrites
  /\ version' = version + 1
  /\ pending' = [pending EXCEPT ![w] = InvalidatedKeys]
  /\ UNCHANGED <<cache, reads, late, faults>>

(* The keys deleted next: the details, then the lists, then the counts.    *)
Current(w) ==
  IF DetailKey \in pending[w] THEN {DetailKey}
  ELSE IF pending[w] \cap ListKeys # {} THEN pending[w] \cap ListKeys
  ELSE pending[w]

(* DEL.  SCAN finds the keys of a prefix in any order, in several rounds.  *)
invalidateApplicationReadCaches(w) ==
  \E k \in Current(w) :
    /\ Evict({k})
    /\ pending' = [pending EXCEPT ![w] = @ \ {k}]
    /\ UNCHANGED <<version, reads, faults>>

(* A failing command gives up the rest of its prefix; a stop gives up all. *)
invalidationFails(w) ==
  /\ Fault
  /\ pending[w] # {}
  /\ \E given_up \in {Current(w), pending[w]} :
       /\ pending' = [pending EXCEPT ![w] = @ \ given_up]
       /\ late' = late \cup {k \in given_up : cache[k] # None}
  /\ UNCHANGED <<version, cache, reads>>

(* Mutant: only the ownership is checked on a hit.                         *)
MayReadCached_OwnerOnly(viewer, v) == viewer # "other applicant"

(* The checks on a cached application, of its owner and of its state.      *)
MayReadCached(viewer, v) ==
  viewer = "owner" \/ (viewer = "internal" /\ ~IsDraft(v))

(* The same checks on the row read from the database.                      *)
MayRead(viewer, v) ==
  viewer = "owner" \/ (viewer = "internal" /\ ~IsDraft(v))

Start(r, pc, viewer, view, answer, count) ==
  reads' = [reads EXCEPT ![r] = [pc |-> pc, viewer |-> viewer, view |-> view,
                                 answer |-> answer, count |-> count]]

(* GET /applications/:id: a hit is answered or refused at once.            *)
getApplication(r, viewer) ==
  /\ reads[r] = None
  /\ LET cached == cache[DetailKey] IN
     \/ /\ cached # None /\ MayReadCached(viewer, cached.rows)
        /\ Start(r, "answered", viewer, None, cached, cached)
        /\ UNCHANGED faults
     \/ /\ cached = None
        /\ Start(r, "missed", viewer, None, Listed(0), Listed(0))
        /\ UNCHANGED faults
     \/ /\ Fault
        /\ Start(r, "missed", viewer, None, Listed(0), Listed(0))
  /\ UNCHANGED <<version, cache, pending, late>>

(* Mutant: a list is answered without its count.                           *)
Hit_ListOnly(view) == cache[ListKey(view)] # None

Hit(view) == cache[ListKey(view)] # None /\ cache[CountKey(view)] # None

(* GET /applications: a hit needs both keys.                               *)
getApplications(r, view) ==
  /\ reads[r] = None
  /\ \/ /\ Hit(view)
        /\ Start(r, "answered", None, view, cache[ListKey(view)],
                 cache[CountKey(view)])
        /\ UNCHANGED faults
     \/ /\ ~Hit(view)
        /\ Start(r, "missed", None, view, Listed(0), Listed(0))
        /\ UNCHANGED faults
     \/ /\ Fault
        /\ Start(r, "missed", None, view, Listed(0), Listed(0))
  /\ UNCHANGED <<version, cache, pending, late>>

At(r, pc) == reads[r] # None /\ reads[r].pc = pc

(* The list and its count are one query.                                   *)
readList(r) ==
  /\ At(r, "missed") /\ reads[r].view # None
  /\ reads' = [reads EXCEPT ![r].pc = "filling",
                            ![r].answer = Listed(version),
                            ![r].count = Listed(version)]
  /\ UNCHANGED <<version, cache, pending, late, faults>>

(* The row of the application, refused to those who may not read it.       *)
readApplication(r) ==
  /\ At(r, "missed") /\ reads[r].view = None
  /\ reads' =
       [reads EXCEPT ![r] =
          IF MayRead(reads[r].viewer, version)
          THEN [@ EXCEPT !.pc = "row read", !.answer = Listed(version)]
          ELSE None]
  /\ UNCHANGED <<version, cache, pending, late, faults>>

(* The newest of these writes committed so far, 0 for none.                *)
Newest(writes) == Max({0} \cup {w \in writes : w <= version})

readInfoRequest(r) ==
  /\ At(r, "row read")
  /\ reads' = [reads EXCEPT ![r] = [@ EXCEPT !.pc = "request read",
                                      !.answer.request = Newest(RequestedAt)]]
  /\ UNCHANGED <<version, cache, pending, late, faults>>

(* Mutant: the row is read again after the reviews.                        *)
readLatestReview_Reloading(r) ==
  /\ At(r, "request read")
  /\ reads' = [reads EXCEPT ![r].pc = "filling",
                            ![r].answer.rows = version,
                            ![r].answer.review = Newest(ReviewedAt)]
  /\ UNCHANGED <<version, cache, pending, late, faults>>

readLatestReview(r) ==
  /\ At(r, "request read")
  /\ reads' = [reads EXCEPT ![r] = [@ EXCEPT !.pc = "filling",
                                      !.answer.review = Newest(ReviewedAt)]]
  /\ UNCHANGED <<version, cache, pending, late, faults>>

(* Mutant: keys that are there are not set again.                          *)
FilledKeys_Missing(read) ==
  {k \in IF read.view = None
         THEN {DetailKey}
         ELSE {ListKey(read.view), CountKey(read.view)} : cache[k] = None}

FilledKeys(read) ==
  IF read.view = None
  THEN {DetailKey}
  ELSE {ListKey(read.view), CountKey(read.view)}

(* Keys set with the answer sent, which may be outdated by now.            *)
SetKeys(ks, answer) ==
  /\ cache' = [k \in Keys |-> IF k \in ks THEN answer ELSE cache[k]]
  /\ late' = IF answer.rows < version THEN late \cup ks ELSE late \ ks

fillCache(r) ==
  /\ At(r, "filling")
  /\ SetKeys(FilledKeys(reads[r]), reads[r].answer)
  /\ reads' = [reads EXCEPT ![r] = None]
  /\ UNCHANGED <<version, pending, faults>>

(* SET fails and is ignored, for a list and its count each on its own, or  *)
(* the process stops.                                                      *)
fillFails(r) ==
  /\ Fault
  /\ At(r, "filling")
  /\ \E ks \in SUBSET FilledKeys(reads[r]) \ {FilledKeys(reads[r])} :
       SetKeys(ks, reads[r].answer)
  /\ reads' = [reads EXCEPT ![r] = None]
  /\ UNCHANGED <<version, pending>>

finish(r) ==
  /\ At(r, "answered")
  /\ reads' = [reads EXCEPT ![r] = None]
  /\ UNCHANGED <<version, cache, pending, late, faults>>

(* Mutant: the details are set without EX.                                 *)
ExpiringKeys_NoDetail == ListKeys \cup CountKeys

ExpiringKeys == {DetailKey} \cup ListKeys \cup CountKeys

expire(k) ==
  /\ k \in ExpiringKeys
  /\ cache[k] # None
  /\ Evict({k})
  /\ UNCHANGED <<version, reads, pending, faults>>

Next ==
  \/ \E w \in Writers :
       write(w) \/ invalidateApplicationReadCaches(w) \/ invalidationFails(w)
  \/ \E r \in Readers :
       \/ \E viewer \in Viewers : getApplication(r, viewer)
       \/ \E view \in Views : getApplications(r, view)
       \/ readList(r) \/ readApplication(r)
       \/ readInfoRequest(r) \/ readLatestReview(r)
       \/ fillCache(r) \/ fillFails(r) \/ finish(r)
  \/ \E k \in Keys : expire(k)

(* Requests go on, and Redis removes keys at the end of their time to live.*)
Fairness ==
  /\ \A r \in Readers : WF_vars(readList(r) \/ readApplication(r) \/ readInfoRequest(r)
                               \/ readLatestReview(r) \/ fillCache(r) \/ finish(r))
  /\ \A k \in Keys : WF_vars(expire(k))

Spec == Init /\ [][Next]_vars /\ Fairness

-----------------------------------------------------------------------------

Stale(k) == cache[k] # None /\ cache[k].rows < version

(* Writers delete everything their write outdates: a stale key will still  *)
(* be deleted, or was set by a reader that read before the write (or a     *)
(* fault kept it), and not merely forgotten.                               *)
StaleOnlyIfLate ==
  \A k \in Keys : Stale(k) => k \in late \/ \E w \in Writers : k \in pending[w]

Agree(view) == Hit(view) => cache[ListKey(view)] = cache[CountKey(view)]

(* A list and its count are two keys that expire at different times and are*)
(* deleted one after the other: still what a hit answers is of one read,   *)
(* unless one of the two SETs of a refill failed.  Nothing else parts them:*)
(* no expiry, no deletion, done, failing or given up, and no two readers.  *)
ListKeepsItsCount ==
  [][\A view \in Views : Agree(view) /\ ~Agree(view)' =>
       \E r \in Readers :
         reads[r] # None /\ reads[r].view = view /\ fillFails(r)]_vars

(* The owner's request may cache a draft under the key everybody reads:    *)
(* still nobody else is shown it, nor another applicant anything.          *)
DraftsStayPrivate ==
  \A r \in Readers :
    reads[r] # None /\ reads[r].pc # "missed" /\ reads[r].view = None =>
      \/ reads[r].viewer = "owner"
      \/ reads[r].viewer = "internal" /\ reads[r].answer.rows >= SubmittedAt

(* The details are read by three queries with writes in between, and then  *)
(* cached: even so, an application shown as INFO_REQUESTED comes with the  *)
(* information request that put it there or a later one, and the latest    *)
(* review shown is not older than the latest information request shown.    *)
DetailsCarryTheirRequest ==
  \A answer \in {cache[DetailKey]} \cup
       {reads[r].answer : r \in {q \in Readers :
          reads[q] # None /\ reads[q].view = None
            /\ reads[q].pc \in {"filling", "answered"}}} :
    answer # None =>
      /\ answer.rows \in RequestedAt => answer.request >= answer.rows
      /\ answer.request <= answer.review

(* Once nobody writes any more, whatever was cached late or kept by a fault*)
(* disappears for good.                                                    *)
StalenessEnds == <>[](\A k \in Keys : ~Stale(k))

=============================================================================
