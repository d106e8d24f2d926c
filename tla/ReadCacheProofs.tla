--------------------------- MODULE ReadCacheProofs -------------------------
(***************************************************************************)
(* The read caches, for every set of lists, readers and writers and every  *)
(* number of writes and faults: a stale key is late or will be deleted,    *)
(* a list keeps its count, drafts stay private, and details carry the      *)
(* request that put them there.  Neither readers nor writers lock, so the  *)
(* proof follows what one read has gathered so far (ReadOK) and what a key *)
(* may hold (CacheOK): both survive every step of the others because the   *)
(* version only grows.                                                     *)
(***************************************************************************)
EXTENDS ReadCache, WellFoundedInduction, TLAPS

(* An application that is shown as INFO_REQUESTED carries the request, and *)
(* no review older than it.                                                *)
Consistent(answer) ==
  /\ answer.rows \in RequestedAt => answer.request >= answer.rows
  /\ answer.request <= answer.review

(* What a read has gathered so far.                                        *)
ReadOK(read) ==
  /\ read.answer.rows <= version /\ read.count.rows <= version
  /\ read.view # None =>
       read.pc \in {"missed", "filling", "answered"}
  /\ read.view = None /\ read.pc # "missed" =>
       \/ read.viewer = "owner"
       \/ read.viewer = "internal" /\ read.answer.rows >= SubmittedAt
  /\ read.view = None /\ read.pc = "request read" =>
       /\ read.answer.rows \in RequestedAt => read.answer.request >= read.answer.rows
       /\ read.answer.request \in {0} \cup RequestedAt
       /\ read.answer.request <= version
  /\ read.view = None /\ read.pc \in {"filling", "answered"} => Consistent(read.answer)

ReadsOK == \A r \in Readers : reads[r] # None => ReadOK(reads[r])

(* What a key holds was read before now.                                   *)
CacheOK ==
  /\ \A k \in Keys : cache[k] # None => cache[k].rows <= version
  /\ cache[DetailKey] # None => Consistent(cache[DetailKey])

CacheInv == TypeOK /\ ReadsOK /\ CacheOK /\ StaleOnlyIfLate

-----------------------------------------------------------------------------
(* The newest of some writes.                                              *)

LEMMA LeastNatural ==
  ASSUME NEW T, T \subseteq Nat, T # {}
  PROVE  \E x \in T : \A y \in T : x <= y
<1> DEFINE R == OpToRel(<, Nat)
<1>1. IsWellFoundedOn(R, Nat)
  BY NatLessThanWellFounded
<1>2. R = {ss \in Nat \X Nat : ss[1] < ss[2]}
  BY DEF OpToRel
<1> HIDE DEF R
<1>3. PICK x \in T : \A y \in T : ~(<<y, x>> \in R)
  BY <1>1, WFMin
<1>4. ASSUME NEW y \in T PROVE x <= y
  <2>1. ~(y < x)
    BY <1>2, <1>3
  <2> QED
    BY <2>1
<1> QED
  BY <1>4

LEMMA NewestIs ==
  ASSUME TypeOK, NEW writes, writes \subseteq 1..MaxWrites
  PROVE  /\ Newest(writes) \in {0} \cup {w \in writes : w <= version}
         /\ \A w \in writes : w <= version => w <= Newest(writes)
         /\ Newest(writes) \in Versions
<1> DEFINE S == {0} \cup {w \in writes : w <= version}
           T == {MaxWrites - w : w \in S}
<1>1. MaxWrites \in Nat /\ S \subseteq 0..MaxWrites
  <2>1. MaxWrites \in Nat
    BY BoundsAssumption DEF BoundsAssumption
  <2>2. \A w \in S : w = 0 \/ w \in 1..MaxWrites
    OBVIOUS
  <2> HIDE DEF S
  <2> QED
    BY <2>1, <2>2
<1>2. T \subseteq Nat /\ T # {}
  BY <1>1
<1>3. PICK x \in T : \A y \in T : x <= y
  BY <1>2, LeastNatural
<1>4. PICK m \in S : x = MaxWrites - m
  BY <1>3
<1>5. ASSUME NEW w \in S PROVE m >= w
  <2>1. x <= MaxWrites - w
    BY <1>3, <1>5
  <2>2. m \in 0..MaxWrites /\ w \in 0..MaxWrites
    BY <1>1, <1>4, <1>5
  <2> QED
    BY <1>1, <1>4, <2>1, <2>2
<1>6. /\ Max(S) \in S
      /\ \A w \in S : Max(S) >= w
  BY <1>4, <1>5 DEF Max
<1>7. Newest(writes) = Max(S)
  BY DEF Newest
<1> HIDE DEF T
<1> QED
  BY <1>1, <1>6, <1>7 DEF Versions

-----------------------------------------------------------------------------
(* Answers, reads and keys.                                                *)

LEMMA AnswerShapes ==
  ASSUME NEW answer \in Answers
  PROVE  /\ answer # None
         /\ answer.rows \in Nat /\ answer.request \in Nat /\ answer.review \in Nat
<1>1. \A v \in Versions : v \in Nat
  BY DEF Versions
<1> QED
  BY <1>1, IdleAssumption DEF Answers, IdleAssumption

LEMMA ListedShapes ==
  ASSUME NEW v \in Versions
  PROVE  /\ Listed(v) \in Answers
         /\ Listed(v).rows = v /\ Listed(v).request = 0 /\ Listed(v).review = 0
         /\ 0 \in Versions
<1>1. 0 \in Versions
  BY BoundsAssumption DEF Versions, BoundsAssumption
<1> QED
  BY <1>1 DEF Listed, Answers

LEMMA ReadShapes ==
  ASSUME NEW read \in Reads
  PROVE  /\ read # None
         /\ read.pc \in {"missed", "row read", "request read", "filling", "answered"}
         /\ read.viewer \in Viewers \cup {None} /\ read.view \in Views \cup {None}
         /\ read.answer \in Answers /\ read.count \in Answers
  BY IdleAssumption DEF Reads, IdleAssumption

LEMMA KeysDiffer ==
  ASSUME NEW v \in Views, NEW w \in Views
  PROVE  /\ ListKey(v) \in Keys /\ CountKey(v) \in Keys /\ DetailKey \in Keys
         /\ ListKey(v) # CountKey(w)
         /\ ListKey(v) # DetailKey /\ CountKey(v) # DetailKey
         /\ ListKey(v) = ListKey(w) => v = w
         /\ CountKey(v) = CountKey(w) => v = w
  BY DEF ListKey, CountKey, DetailKey, Keys, ListKeys, CountKeys

(* A later version spoils no read.                                         *)
LEMMA ReadStays ==
  ASSUME NEW read \in Reads, ReadOK(read), version \in Nat, version' \in Nat,
         version <= version'
  PROVE  ReadOK(read)'
<1>1. /\ read.answer.rows \in Nat /\ read.count.rows \in Nat
      /\ read.answer.request \in Nat
  BY ReadShapes, AnswerShapes
<1>2. /\ read.answer.rows <= version => read.answer.rows <= version'
      /\ read.count.rows <= version => read.count.rows <= version'
      /\ read.answer.request <= version => read.answer.request <= version'
  BY <1>1
<1> QED
  BY <1>2 DEF ReadOK, Consistent

(* A read goes on, or ends, while versions and keys stay as they are.      *)
LEMMA ReadingKeeps ==
  ASSUME CacheInv, NEW r \in Readers, NEW h \in Reads \cup {None},
         reads' = [reads EXCEPT ![r] = h], h # None => ReadOK(h),
         UNCHANGED <<version, cache, pending, late>>, UNCHANGED faults \/ Fault
  PROVE  CacheInv'
<1>1. TypeOK /\ ReadsOK /\ CacheOK /\ StaleOnlyIfLate /\ version \in Nat
  BY DEF CacheInv, TypeOK, Versions
<1>2. faults' \in 0..MaxFaults
  BY <1>1, BoundsAssumption DEF TypeOK, Fault, BoundsAssumption
<1>3. reads'[r] = h /\ \A q \in Readers \ {r} : reads'[q] = reads[q]
  BY <1>1 DEF TypeOK
<1>4. ASSUME NEW q \in Readers, reads'[q] # None
      PROVE  ReadOK(reads[q])' /\ ReadOK(reads'[q])
  <2>1. ReadOK(reads'[q])
    BY <1>1, <1>3, <1>4 DEF ReadsOK
  <2> QED
    BY <2>1 DEF ReadOK, Consistent
<1>5. TypeOK'
  <2>1. \A q \in Readers : reads'[q] # None =>
          reads'[q].answer.rows <= version' /\ reads'[q].count.rows <= version'
    BY <1>4 DEF ReadOK
  <2> QED
    BY <1>1, <1>2, <2>1 DEF TypeOK
<1>6. CacheOK' /\ StaleOnlyIfLate'
  BY <1>1 DEF CacheOK, StaleOnlyIfLate, Consistent, Hit, Stale
<1>7. ReadsOK'
  BY <1>4 DEF ReadsOK
<1> QED
  BY <1>5, <1>6, <1>7 DEF CacheInv

-----------------------------------------------------------------------------
(* The steps of readers.                                                   *)

LEMMA StartIs ==
  ASSUME NEW r, NEW pc \in {"missed", "answered"}, NEW viewer \in Viewers \cup {None},
         NEW view \in Views \cup {None}, NEW answer \in Answers, NEW count \in Answers,
         Start(r, pc, viewer, view, answer, count)
  PROVE  \E h \in Reads :
           /\ reads' = [reads EXCEPT ![r] = h]
           /\ h.pc = pc /\ h.viewer = viewer /\ h.view = view
           /\ h.answer = answer /\ h.count = count
<1> DEFINE h == [pc |-> pc, viewer |-> viewer, view |-> view,
                 answer |-> answer, count |-> count]
<1>1. /\ h \in Reads
      /\ h.pc = pc /\ h.viewer = viewer /\ h.view = view
      /\ h.answer = answer /\ h.count = count
  BY DEF Reads
<1>2. reads' = [reads EXCEPT ![r] = h]
  BY DEF Start
<1> HIDE DEF h
<1> QED
  BY <1>1, <1>2

(* A request that finds nothing has gathered nothing.                      *)
LEMMA MissKeeps ==
  ASSUME CacheInv, NEW r \in Readers, NEW viewer \in Viewers \cup {None},
         NEW view \in Views \cup {None},
         Start(r, "missed", viewer, view, Listed(0), Listed(0)),
         UNCHANGED <<version, cache, pending, late>>, UNCHANGED faults \/ Fault
  PROVE  CacheInv'
<1>1. version \in Nat /\ version \in Versions
  BY DEF CacheInv, TypeOK, Versions
<1>2. Listed(0) \in Answers /\ Listed(0).rows = 0
  BY <1>1, ListedShapes
<1>3. PICK h \in Reads :
        /\ reads' = [reads EXCEPT ![r] = h]
        /\ h.pc = "missed" /\ h.viewer = viewer /\ h.view = view
        /\ h.answer = Listed(0) /\ h.count = Listed(0)
  BY <1>2, StartIs
<1>4. ReadOK(h)
  BY <1>1, <1>2, <1>3 DEF ReadOK
<1> QED
  BY <1>3, <1>4, ReadingKeeps

(* A hit has gathered what the key holds.                                  *)
LEMMA HitKeeps ==
  ASSUME CacheInv, NEW r \in Readers, NEW viewer \in Viewers \cup {None},
         NEW view \in Views \cup {None}, NEW a \in Answers, NEW c \in Answers,
         Start(r, "answered", viewer, view, a, c),
         UNCHANGED <<version, cache, pending, late, faults>>,
         a.rows <= version, c.rows <= version,
         view = None => /\ Consistent(a)
                        /\ \/ viewer = "owner"
                           \/ viewer = "internal" /\ a.rows >= SubmittedAt
  PROVE  CacheInv'
<1>1. PICK h \in Reads :
        /\ reads' = [reads EXCEPT ![r] = h]
        /\ h.pc = "answered" /\ h.viewer = viewer /\ h.view = view
        /\ h.answer = a /\ h.count = c
  <2> DEFINE x == "answered"
  <2>1. x \in {"missed", "answered"} /\ Start(r, x, viewer, view, a, c)
    OBVIOUS
  <2> HIDE DEF x
  <2>2. \E h \in Reads :
          /\ reads' = [reads EXCEPT ![r] = h]
          /\ h.pc = x /\ h.viewer = viewer /\ h.view = view
          /\ h.answer = a /\ h.count = c
    BY <2>1, StartIs
  <2> QED
    BY <2>2 DEF x
<1>2. ReadOK(h)
  BY <1>1 DEF ReadOK
<1> QED
  BY <1>1, <1>2, ReadingKeeps

LEMMA GetApplicationKeeps ==
  ASSUME CacheInv, NEW r \in Readers, NEW viewer \in Viewers, getApplication(r, viewer)
  PROVE  CacheInv'
<1> DEFINE cached == cache[DetailKey]
<1>1. TypeOK /\ CacheOK /\ DetailKey \in Keys /\ version \in Nat
  BY DEF CacheInv, Keys, TypeOK, Versions
<1>2. CASE /\ cached # None /\ MayReadCached(viewer, cached.rows)
           /\ Start(r, "answered", viewer, None, cached, cached)
           /\ UNCHANGED faults
  <2>1. cached \in Answers /\ cached.rows <= version /\ Consistent(cached)
    BY <1>1, <1>2 DEF TypeOK, CacheOK
  <2>2. PICK a \in Answers : a = cached
    BY <2>1
  <2>3. Start(r, "answered", viewer, None, a, a)
    BY <1>2, <2>2 DEF Start
  <2> HIDE DEF cached
  <2>4. \/ viewer = "owner"
        \/ viewer = "internal" /\ a.rows >= SubmittedAt
    <3>1. a.rows \in Nat /\ SubmittedAt \in Nat
      BY AnswerShapes, BoundsAssumption DEF BoundsAssumption
    <3> QED
      BY <1>2, <2>2, <3>1 DEF MayReadCached, IsDraft
  <2>5. a.rows <= version /\ Consistent(a)
    BY <2>1, <2>2
  <2>6. UNCHANGED <<version, cache, pending, late, faults>>
    BY <1>2 DEF getApplication
  <2> QED
    BY <2>3, <2>4, <2>5, <2>6, HitKeeps
<1>3. CASE /\ Start(r, "missed", viewer, None, Listed(0), Listed(0))
           /\ UNCHANGED faults \/ Fault
  BY <1>3, MissKeeps DEF getApplication
<1> QED
  BY <1>2, <1>3 DEF getApplication

LEMMA GetApplicationsKeeps ==
  ASSUME CacheInv, NEW r \in Readers, NEW view \in Views, getApplications(r, view)
  PROVE  CacheInv'
<1> DEFINE listed == cache[ListKey(view)]
           counted == cache[CountKey(view)]
<1>1. TypeOK /\ CacheOK /\ ListKey(view) \in Keys /\ CountKey(view) \in Keys
  BY KeysDiffer DEF CacheInv
<1>2. CASE /\ Hit(view)
           /\ Start(r, "answered", None, view, listed, counted)
           /\ UNCHANGED faults
  <2>1. /\ listed \in Answers /\ listed.rows <= version
        /\ counted \in Answers /\ counted.rows <= version
    BY <1>1, <1>2 DEF TypeOK, CacheOK, Hit
  <2>2. PICK a \in Answers, c \in Answers : a = listed /\ c = counted
    BY <2>1
  <2>3. Start(r, "answered", None, view, a, c)
    BY <1>2, <2>2 DEF Start
  <2> HIDE DEF listed, counted
  <2>4. a.rows <= version /\ c.rows <= version /\ view # None
    BY <2>1, <2>2, NoneAssumption DEF NoneAssumption
  <2>5. UNCHANGED <<version, cache, pending, late, faults>>
    BY <1>2 DEF getApplications
  <2> QED
    BY <2>3, <2>4, <2>5, HitKeeps
<1>3. CASE /\ Start(r, "missed", None, view, Listed(0), Listed(0))
           /\ UNCHANGED faults \/ Fault
  BY <1>3, MissKeeps DEF getApplications
<1> QED
  BY <1>2, <1>3 DEF getApplications

(* The read a step goes on with.                                           *)
LEMMA ReadAt ==
  ASSUME CacheInv, NEW r \in Readers, NEW pc, At(r, pc)
  PROVE  /\ reads[r] \in Reads /\ reads[r].pc = pc /\ ReadOK(reads[r])
         /\ version \in Nat /\ version \in Versions /\ Listed(version) \in Answers
         /\ TypeOK
<1>1. version \in Nat /\ version \in Versions /\ TypeOK /\ ReadsOK
  BY DEF CacheInv, TypeOK, Versions
<1> QED
  BY <1>1, ListedShapes DEF At, TypeOK, ReadsOK

LEMMA ReadListKeeps ==
  ASSUME CacheInv, NEW r \in Readers, readList(r)
  PROVE  CacheInv'
<1>1. /\ reads[r] \in Reads /\ version \in Nat /\ Listed(version) \in Answers
      /\ Listed(version).rows = version /\ TypeOK
  BY ReadAt, ListedShapes DEF readList
<1>2. PICK h \in Reads :
        h = [reads[r] EXCEPT !.pc = "filling", !.answer = Listed(version),
                             !.count = Listed(version)]
  BY <1>1 DEF Reads
<1>3. /\ h.view = reads[r].view /\ h.pc = "filling"
      /\ h.answer = Listed(version) /\ h.count = Listed(version)
  BY <1>1, <1>2 DEF Reads
<1>4. reads' = [reads EXCEPT ![r] = h]
  BY <1>1, <1>2 DEF readList, TypeOK
<1>5. ReadOK(h)
  BY <1>1, <1>3 DEF readList, ReadOK
<1> QED
  BY <1>4, <1>5, ReadingKeeps DEF readList

LEMMA ReadApplicationKeeps ==
  ASSUME CacheInv, NEW r \in Readers, readApplication(r)
  PROVE  CacheInv'
<1>1. /\ reads[r] \in Reads /\ version \in Nat /\ Listed(version) \in Answers
      /\ Listed(version).rows = version /\ TypeOK
      /\ ReadOK(reads[r]) /\ reads[r].view = None
  BY ReadAt, ListedShapes DEF readApplication
<1>2. CASE ~MayRead(reads[r].viewer, version)
  BY <1>1, <1>2, ReadingKeeps DEF readApplication
<1>3. CASE MayRead(reads[r].viewer, version)
  <2>1. PICK h \in Reads :
          h = [reads[r] EXCEPT !.pc = "row read", !.answer = Listed(version)]
    BY <1>1 DEF Reads
  <2>2. /\ h.view = None /\ h.pc = "row read" /\ h.viewer = reads[r].viewer
        /\ h.answer = Listed(version) /\ h.count = reads[r].count
    BY <1>1, <2>1 DEF Reads
  <2>3. reads' = [reads EXCEPT ![r] = h]
    BY <1>1, <1>3, <2>1 DEF readApplication
  <2>4. \/ h.viewer = "owner"
        \/ h.viewer = "internal" /\ version >= SubmittedAt
    <3>1. SubmittedAt \in Nat /\ version \in Nat
      BY <1>1, BoundsAssumption DEF BoundsAssumption
    <3>2. h.viewer = "owner" \/ (h.viewer = "internal" /\ ~(version < SubmittedAt))
      BY <1>3, <2>2 DEF MayRead, IsDraft
    <3> QED
      BY <3>1, <3>2
  <2>5. ReadOK(h)
    <3>1. h.answer.rows = version /\ h.count.rows <= version
      BY <1>1, <2>2 DEF ReadOK
    <3>2. version <= version
      BY ReadAt DEF readApplication
    <3> QED
      BY <2>2, <2>4, <3>1, <3>2 DEF ReadOK
  <2> QED
    BY <2>3, <2>5, ReadingKeeps DEF readApplication
<1> QED
  BY <1>2, <1>3

LEMMA ReadInfoRequestKeeps ==
  ASSUME CacheInv, NEW r \in Readers, readInfoRequest(r)
  PROVE  CacheInv'
<1> DEFINE newest == Newest(RequestedAt)
           answer == reads[r].answer
<1>1. /\ reads[r] \in Reads /\ version \in Nat /\ TypeOK
      /\ ReadOK(reads[r]) /\ reads[r].pc = "row read"
  BY ReadAt DEF readInfoRequest
<1>2. /\ reads[r].view = None /\ answer \in Answers
      /\ answer.rows \in Nat /\ answer.rows <= version
  BY <1>1, ReadShapes, AnswerShapes DEF ReadOK
<1>3. /\ newest \in {0} \cup {w \in RequestedAt : w <= version}
      /\ \A w \in RequestedAt : w <= version => w <= newest
      /\ newest \in Versions /\ newest \in Nat
  <2>1. RequestedAt \subseteq 1..MaxWrites
    BY BoundsAssumption DEF BoundsAssumption
  <2>2. \A v \in Versions : v \in Nat
    BY DEF Versions
  <2> QED
    BY <1>1, <2>1, <2>2, NewestIs
<1>4. readInfoRequest(r) =>
        reads' = [reads EXCEPT ![r] = [reads[r] EXCEPT !.pc = "request read",
                                          !.answer = [answer EXCEPT !.request = newest]]]
  BY <1>1 DEF readInfoRequest, TypeOK
<1> HIDE DEF newest
<1>5. PICK a \in Answers : a = [answer EXCEPT !.request = newest]
  BY <1>2, <1>3 DEF Answers
<1>6. a.rows = answer.rows /\ a.request = newest
  BY <1>2, <1>5 DEF Answers
<1>7. PICK h \in Reads : h = [reads[r] EXCEPT !.pc = "request read", !.answer = a]
  BY <1>1 DEF Reads
<1>8. /\ h.view = None /\ h.pc = "request read" /\ h.viewer = reads[r].viewer
      /\ h.answer = a /\ h.count = reads[r].count
  BY <1>1, <1>2, <1>7 DEF Reads
<1>9. newest <= version
  <2>1. newest = 0 \/ newest <= version
    BY <1>3
  <2>2. version \in Nat
    BY <1>1
  <2> QED
    BY <2>1, <2>2
<1>10. ReadOK(h)
  BY <1>1, <1>2, <1>3, <1>6, <1>8, <1>9 DEF ReadOK
<1>11. reads' = [reads EXCEPT ![r] = h]
  BY <1>4, <1>5, <1>7
<1> QED
  BY <1>10, <1>11, ReadingKeeps DEF readInfoRequest

LEMMA ReadLatestReviewKeeps ==
  ASSUME CacheInv, NEW r \in Readers, readLatestReview(r)
  PROVE  CacheInv'
<1> DEFINE newest == Newest(ReviewedAt)
           answer == reads[r].answer
<1>1. /\ reads[r] \in Reads /\ version \in Nat /\ TypeOK
      /\ ReadOK(reads[r]) /\ reads[r].pc = "request read"
  BY ReadAt DEF readLatestReview
<1>2. /\ reads[r].view = None /\ answer \in Answers
      /\ answer.request \in {0} \cup RequestedAt /\ answer.request <= version
      /\ answer.rows \in RequestedAt => answer.request >= answer.rows
  BY <1>1, ReadShapes DEF ReadOK
<1>3. /\ \A w \in ReviewedAt : w <= version => w <= newest
      /\ newest \in Versions /\ newest \in Nat
  <2>1. ReviewedAt \subseteq 1..MaxWrites
    BY BoundsAssumption DEF BoundsAssumption
  <2>2. \A v \in Versions : v \in Nat
    BY DEF Versions
  <2> QED
    BY <1>1, <2>1, <2>2, NewestIs
<1>4. readLatestReview(r) =>
        reads' = [reads EXCEPT ![r] = [reads[r] EXCEPT !.pc = "filling",
                                          !.answer = [answer EXCEPT !.review = newest]]]
  BY <1>1 DEF readLatestReview, TypeOK
<1> HIDE DEF newest
<1>5. PICK a \in Answers : a = [answer EXCEPT !.review = newest]
  BY <1>2, <1>3 DEF Answers
<1>6. a.rows = answer.rows /\ a.request = answer.request /\ a.review = newest
  BY <1>2, <1>5 DEF Answers
<1>7. PICK h \in Reads : h = [reads[r] EXCEPT !.pc = "filling", !.answer = a]
  BY <1>1 DEF Reads
<1>8. /\ h.view = None /\ h.pc = "filling" /\ h.viewer = reads[r].viewer
      /\ h.answer = a /\ h.count = reads[r].count
  BY <1>1, <1>2, <1>7 DEF Reads
<1>9. answer.request <= newest
  <2>1. CASE answer.request = 0
    BY <1>3, <2>1
  <2>2. CASE answer.request \in ReviewedAt
    BY <1>2, <1>3, <2>2
  <2> QED
    BY <1>2, <2>1, <2>2, BoundsAssumption DEF BoundsAssumption
<1>10. ReadOK(h)
  BY <1>1, <1>2, <1>6, <1>8, <1>9 DEF ReadOK, Consistent
<1>11. reads' = [reads EXCEPT ![r] = h]
  BY <1>4, <1>5, <1>7
<1> QED
  BY <1>10, <1>11, ReadingKeeps DEF readLatestReview

LEMMA FinishKeeps ==
  ASSUME CacheInv, NEW r \in Readers, finish(r)
  PROVE  CacheInv'
  BY ReadingKeeps DEF finish

-----------------------------------------------------------------------------
(* The steps of writers, of Redis and of the requests that fill it.        *)

(* Every key is invalidated by a write, so whatever it outdates is pending.*)
LEMMA WriteKeeps ==
  ASSUME CacheInv, NEW w \in Writers, write(w)
  PROVE  CacheInv'
<1>1. TypeOK /\ ReadsOK /\ CacheOK /\ version \in Nat /\ MaxWrites \in Nat
  BY BoundsAssumption DEF CacheInv, TypeOK, Versions, BoundsAssumption
<1>2. /\ version' = version + 1 /\ version' \in Versions /\ version' \in Nat
      /\ version <= version'
  BY <1>1 DEF write, Versions
<1>3. pending' \in [Writers -> SUBSET Keys] /\ pending'[w] = Keys
  BY <1>1 DEF write, TypeOK, InvalidatedKeys, Keys
<1>4. cache' = cache /\ reads' = reads /\ late' = late /\ faults' = faults
  BY DEF write
<1>5. ReadsOK'
  <2>1. ASSUME NEW r \in Readers, reads[r] # None
        PROVE  ReadOK(reads[r])'
    <3>1. PICK read \in Reads : read = reads[r]
      BY <1>1, <2>1 DEF TypeOK
    <3>2. ReadOK(read)
      BY <1>1, <2>1, <3>1 DEF ReadsOK
    <3>3. ReadOK(read)'
      BY <1>1, <1>2, <3>2, ReadStays
    <3> QED
      BY <1>4, <3>1, <3>3 DEF ReadOK, Consistent
  <2> QED
    BY <1>4, <2>1 DEF ReadsOK
<1>6. TypeOK'
  <2>1. \A r \in Readers : reads'[r] # None =>
          reads'[r].answer.rows <= version' /\ reads'[r].count.rows <= version'
    BY <1>5 DEF ReadsOK, ReadOK
  <2> QED
    BY <1>1, <1>2, <1>3, <1>4, <2>1 DEF TypeOK
<1>7. CacheOK'
  <2>1. ASSUME NEW k \in Keys, cache[k] # None PROVE cache[k].rows <= version'
    <3>1. cache[k].rows \in Nat /\ cache[k].rows <= version
      BY <1>1, <2>1, AnswerShapes DEF TypeOK, CacheOK
    <3> QED
      BY <1>1, <1>2, <3>1
  <2> QED
    BY <1>1, <1>4, <2>1 DEF CacheOK, Consistent, Hit
<1>8. StaleOnlyIfLate'
  BY <1>3 DEF StaleOnlyIfLate
<1> QED
  BY <1>5, <1>6, <1>7, <1>8 DEF CacheInv

(* A key that is gone is not stale.                                        *)
LEMMA EvictKeeps ==
  ASSUME CacheInv, NEW k \in Keys, Evict({k}), UNCHANGED <<version, reads, faults>>,
         pending' \in [Writers -> SUBSET Keys],
         \A w \in Writers : pending[w] \ {k} \subseteq pending'[w]
  PROVE  CacheInv'
<1>1. TypeOK /\ ReadsOK /\ CacheOK /\ StaleOnlyIfLate
  BY DEF CacheInv
<1>2. /\ cache' \in [Keys -> Answers \cup {None}] /\ cache'[k] = None
      /\ \A l \in Keys \ {k} : cache'[l] = cache[l]
      /\ late' = late \ {k}
  BY <1>1 DEF Evict, TypeOK
<1>3. TypeOK'
  BY <1>1, <1>2 DEF TypeOK
<1>4. ReadsOK'
  BY <1>1 DEF ReadsOK, ReadOK, Consistent
<1>5. CacheOK'
  <2>1. \A l \in Keys : cache'[l] # None => cache'[l].rows <= version'
    BY <1>1, <1>2 DEF CacheOK
  <2>2. cache'[DetailKey] # None => Consistent(cache'[DetailKey])
    BY <1>1, <1>2 DEF CacheOK, Keys
  <2> QED
    BY <2>1, <2>2 DEF CacheOK, Consistent
<1>6. StaleOnlyIfLate'
  <2>1. ASSUME NEW l \in Keys, cache'[l] # None, cache'[l].rows < version'
        PROVE  l \in late' \/ \E w \in Writers : l \in pending'[w]
    <3>1. l # k /\ Stale(l)
      BY <1>2, <2>1 DEF Stale
    <3> QED
      BY <1>1, <1>2, <3>1 DEF StaleOnlyIfLate
  <2> QED
    BY <2>1 DEF StaleOnlyIfLate, Stale
<1> QED
  BY <1>3, <1>4, <1>5, <1>6 DEF CacheInv

LEMMA InvalidateKeeps ==
  ASSUME CacheInv, NEW w \in Writers, invalidateApplicationReadCaches(w)
  PROVE  CacheInv'
<1>1. TypeOK
  BY DEF CacheInv
<1>2. Current(w) \subseteq pending[w] /\ pending[w] \subseteq Keys
  BY <1>1 DEF TypeOK, Current
<1>3. PICK k \in Current(w) :
        /\ Evict({k})
        /\ pending' = [pending EXCEPT ![w] = @ \ {k}]
        /\ UNCHANGED <<version, reads, faults>>
  BY DEF invalidateApplicationReadCaches
<1>4. k \in Keys
  BY <1>2
<1>5. /\ pending' \in [Writers -> SUBSET Keys]
      /\ \A v \in Writers : pending[v] \ {k} \subseteq pending'[v]
  BY <1>1, <1>3 DEF TypeOK
<1> QED
  BY <1>3, <1>4, <1>5, EvictKeeps

LEMMA ExpireKeeps ==
  ASSUME CacheInv, NEW k \in Keys, expire(k)
  PROVE  CacheInv'
<1>1. TypeOK
  BY DEF CacheInv
<1>2. /\ Evict({k}) /\ UNCHANGED <<version, reads, pending, faults>>
  BY DEF expire
<1>3. pending' \in [Writers -> SUBSET Keys]
  BY <1>1, <1>2 DEF TypeOK
<1>4. \A v \in Writers : pending[v] \ {k} \subseteq pending'[v]
  BY <1>2
<1> QED
  BY <1>2, <1>3, <1>4, EvictKeeps

(* What a fault keeps is late from then on.                                *)
LEMMA InvalidationFailsKeeps ==
  ASSUME CacheInv, NEW w \in Writers, invalidationFails(w)
  PROVE  CacheInv'
<1>1. TypeOK /\ ReadsOK /\ CacheOK /\ StaleOnlyIfLate
  BY DEF CacheInv
<1>2. PICK given_up \in {Current(w), pending[w]} :
        /\ pending' = [pending EXCEPT ![w] = @ \ given_up]
        /\ late' = late \cup {k \in given_up : cache[k] # None}
  BY DEF invalidationFails
<1>3. UNCHANGED <<version, cache, reads>> /\ Fault
  BY DEF invalidationFails
<1>4. given_up \subseteq Keys
  BY <1>1 DEF TypeOK, Current
<1>5. TypeOK'
  <2>1. faults' \in 0..MaxFaults
    BY <1>1, <1>3, BoundsAssumption DEF TypeOK, Fault, BoundsAssumption
  <2>2. pending' \in [Writers -> SUBSET Keys] /\ late' \subseteq Keys
    BY <1>1, <1>2, <1>4 DEF TypeOK
  <2> QED
    BY <1>1, <1>3, <2>1, <2>2 DEF TypeOK
<1>6. ReadsOK' /\ CacheOK'
  BY <1>1, <1>3 DEF ReadsOK, ReadOK, CacheOK, Consistent, Hit
<1>7. StaleOnlyIfLate'
  <2>1. ASSUME NEW k \in Keys, Stale(k)
        PROVE  k \in late' \/ \E v \in Writers : k \in pending'[v]
    <3>1. k \in late \/ \E v \in Writers : k \in pending[v]
      BY <1>1, <2>1 DEF StaleOnlyIfLate
    <3>2. CASE k \in given_up
      BY <1>2, <2>1, <3>2 DEF Stale
    <3>3. CASE k \notin given_up
      BY <1>1, <1>2, <3>1, <3>3 DEF TypeOK
    <3> QED
      BY <3>2, <3>3
  <2> QED
    BY <1>3, <2>1 DEF StaleOnlyIfLate, Stale
<1> QED
  BY <1>5, <1>6, <1>7 DEF CacheInv

(* The keys of a read.                                                     *)
LEMMA FilledKeysAre ==
  ASSUME NEW read \in Reads
  PROVE  \/ read.view = None /\ FilledKeys(read) = {DetailKey}
         \/ \E view \in Views :
              read.view = view /\ FilledKeys(read) = {ListKey(view), CountKey(view)}
  BY ReadShapes, NoneAssumption DEF FilledKeys, NoneAssumption

(* Some of the keys are set with the answer, which its read has checked.   *)
LEMMA SetKeysKeeps ==
  ASSUME CacheInv, NEW r \in Readers, At(r, "filling"),
         NEW ks \in SUBSET FilledKeys(reads[r]),
         SetKeys(ks, reads[r].answer), reads' = [reads EXCEPT ![r] = None],
         UNCHANGED <<version, pending>>, UNCHANGED faults \/ Fault
  PROVE  CacheInv'
<1> DEFINE a == reads[r].answer
<1>1. /\ TypeOK /\ ReadsOK /\ CacheOK /\ StaleOnlyIfLate
      /\ reads[r] \in Reads /\ reads[r].pc = "filling" /\ ReadOK(reads[r])
  BY ReadAt DEF CacheInv
<1>2. version \in Nat /\ a \in Answers /\ a # None /\ a.rows \in Nat /\ a.rows <= version
  BY <1>1, ReadAt, ReadShapes, AnswerShapes DEF ReadOK
<1>3. \/ reads[r].view = None /\ ks \subseteq {DetailKey}
      \/ \E view \in Views : reads[r].view = view /\ ks \subseteq {ListKey(view), CountKey(view)}
  BY <1>1, FilledKeysAre
<1>4. ks \subseteq Keys
  BY <1>3, KeysDiffer DEF Keys
<1>5. /\ cache' = [k \in Keys |-> IF k \in ks THEN a ELSE cache[k]]
      /\ late' = IF a.rows < version THEN late \cup ks ELSE late \ ks
      /\ reads' = [reads EXCEPT ![r] = None]
      /\ UNCHANGED <<version, pending>>
      /\ faults' \in 0..MaxFaults
  BY <1>1, BoundsAssumption DEF SetKeys, TypeOK, Fault, BoundsAssumption
<1>6. Consistent(a) \/ DetailKey \notin ks
  <2>1. CASE reads[r].view = None
    BY <1>1, <2>1 DEF ReadOK
  <2>2. CASE reads[r].view # None
    <3>1. PICK view \in Views : ks \subseteq {ListKey(view), CountKey(view)}
      BY <1>3, <2>2
    <3> QED
      BY <3>1, KeysDiffer
  <2> QED
    BY <2>1, <2>2
<1> HIDE DEF a
<1>7. /\ \A q \in Readers : reads'[q] = IF q = r THEN None ELSE reads[q]
      /\ \A k \in ks : cache'[k] = a
      /\ \A k \in Keys \ ks : cache'[k] = cache[k]
      /\ cache' \in [Keys -> Answers \cup {None}]
      /\ late' \subseteq Keys
  BY <1>1, <1>2, <1>4, <1>5 DEF TypeOK
<1>8. reads' \in [Readers -> Reads \cup {None}]
  BY <1>1, <1>5 DEF TypeOK
<1>9. TypeOK'
  BY <1>1, <1>5, <1>7, <1>8 DEF TypeOK
<1>10. ReadsOK'
  <2>1. ASSUME NEW q \in Readers, reads'[q] # None
        PROVE  ReadOK(reads[q])'
    <3>1. q # r /\ reads'[q] = reads[q] /\ ReadOK(reads[q])
      BY <1>1, <1>7, <2>1 DEF ReadsOK
    <3> QED
      BY <1>5, <3>1 DEF ReadOK, Consistent
  <2> QED
    BY <2>1 DEF ReadsOK
<1>11. CacheOK'
  <2>1. \A k \in Keys : cache'[k] # None => cache'[k].rows <= version'
    BY <1>1, <1>2, <1>5, <1>7 DEF CacheOK
  <2>2. cache'[DetailKey] # None => Consistent(cache'[DetailKey])
    <3>1. CASE DetailKey \in ks
      BY <1>6, <1>7, <3>1
    <3>2. CASE DetailKey \notin ks
      BY <1>1, <1>7, <3>2 DEF CacheOK, Keys
    <3> QED
      BY <3>1, <3>2
  <2> QED
    BY <2>1, <2>2 DEF CacheOK, Consistent
<1>12. StaleOnlyIfLate'
  <2>1. ASSUME NEW k \in Keys, cache'[k] # None, cache'[k].rows < version
        PROVE  k \in late' \/ \E w \in Writers : k \in pending[w]
    <3>1. CASE k \in ks
      BY <1>5, <1>7, <2>1, <3>1
    <3>2. CASE k \notin ks
      <4>1. Stale(k)
        BY <1>7, <2>1, <3>2 DEF Stale
      <4>2. k \in late \/ \E w \in Writers : k \in pending[w]
        BY <1>1, <4>1 DEF StaleOnlyIfLate
      <4> QED
        BY <1>5, <3>2, <4>2
    <3> QED
      BY <3>1, <3>2
  <2> QED
    BY <1>5, <2>1 DEF StaleOnlyIfLate, Stale
<1> QED
  BY <1>9, <1>10, <1>11, <1>12 DEF CacheInv

LEMMA FillKeeps ==
  ASSUME CacheInv, NEW r \in Readers, fillCache(r) \/ fillFails(r)
  PROVE  CacheInv'
<1>1. CASE fillCache(r)
  BY <1>1, SetKeysKeeps DEF fillCache
<1>2. CASE fillFails(r)
  BY <1>2, SetKeysKeeps DEF fillFails
<1> QED
  BY <1>1, <1>2

-----------------------------------------------------------------------------

LEMMA CacheInvInit == Init => CacheInv
<1> SUFFICES ASSUME Init PROVE CacheInv
  OBVIOUS
<1>1. 0 \in Versions
  BY ListedShapes, BoundsAssumption DEF Versions, BoundsAssumption
<1>2. TypeOK
  BY <1>1, BoundsAssumption DEF Init, TypeOK, BoundsAssumption
<1>3. ReadsOK /\ StaleOnlyIfLate
  BY DEF Init, ReadsOK, StaleOnlyIfLate, Stale
<1>4. CacheOK
  BY KeysDiffer DEF Init, CacheOK, Hit, Keys
<1> QED
  BY <1>2, <1>3, <1>4 DEF CacheInv

LEMMA CacheInvStep == CacheInv /\ [Next]_vars => CacheInv'
<1> SUFFICES ASSUME CacheInv, [Next]_vars PROVE CacheInv'
  OBVIOUS
<1>1. ASSUME NEW w \in Writers,
             write(w) \/ invalidateApplicationReadCaches(w) \/ invalidationFails(w)
      PROVE  CacheInv'
  BY <1>1, WriteKeeps, InvalidateKeeps, InvalidationFailsKeeps
<1>2. ASSUME NEW r \in Readers, NEW viewer \in Viewers, getApplication(r, viewer)
      PROVE  CacheInv'
  BY <1>2, GetApplicationKeeps
<1>3. ASSUME NEW r \in Readers, NEW view \in Views, getApplications(r, view)
      PROVE  CacheInv'
  BY <1>3, GetApplicationsKeeps
<1>4. ASSUME NEW r \in Readers,
             \/ readList(r) \/ readApplication(r)
             \/ readInfoRequest(r) \/ readLatestReview(r)
             \/ fillCache(r) \/ fillFails(r) \/ finish(r)
      PROVE  CacheInv'
  BY <1>4, ReadListKeeps, ReadApplicationKeeps, ReadInfoRequestKeeps,
     ReadLatestReviewKeeps, FillKeeps, FinishKeeps
<1>5. ASSUME NEW k \in Keys, expire(k)
      PROVE  CacheInv'
  BY <1>5, ExpireKeeps
<1>6. CASE UNCHANGED vars
  BY <1>6 DEF CacheInv, TypeOK, ReadsOK, ReadOK, CacheOK, StaleOnlyIfLate, Stale, Hit,
              Consistent, vars
<1> QED
  BY <1>1, <1>2, <1>3, <1>4, <1>5, <1>6 DEF Next

LEMMA CacheInvAlways == Spec => []CacheInv
  BY CacheInvInit, CacheInvStep, PTL DEF Spec

(* What every cache key, read and writer may hold: a read never carries a  *)
(* version that is not committed yet (applications.repository.ts:206-354,  *)
(* 402-578).                                                               *)
THEOREM CacheTypes == Spec => []TypeOK
<1>1. CacheInv => TypeOK
  BY DEF CacheInv
<1> QED
  BY <1>1, CacheInvAlways, PTL

(* invalidateApplicationReadCaches deletes every key its write outdates:   *)
(* what is stale is still to be deleted, or was set by a read from before  *)
(* the write, or was kept by a fault (application-cache.helper.ts:20-159). *)
THEOREM StaleKeysAreLate == Spec => []StaleOnlyIfLate
<1>1. CacheInv => StaleOnlyIfLate
  BY DEF CacheInv
<1> QED
  BY <1>1, CacheInvAlways, PTL

(* Two keys stay as they are, or one of them is gone, or both are set with *)
(* one answer: they agree as before.                                       *)
LEMMA AgreementStays ==
  ASSUME NEW view \in Views, Agree(view),
         \/ cache'[ListKey(view)] = None \/ cache'[CountKey(view)] = None
         \/ cache'[ListKey(view)] = cache'[CountKey(view)]
         \/ /\ cache'[ListKey(view)] = cache[ListKey(view)]
            /\ cache'[CountKey(view)] = cache[CountKey(view)]
  PROVE  Agree(view)'
  BY DEF Agree, Hit

LEMMA EvictAgrees ==
  ASSUME NEW view \in Views, NEW k \in Keys, Agree(view), Evict({k})
  PROVE  Agree(view)'
  BY KeysDiffer, AgreementStays DEF Evict

(* Only the list's own readers set its keys, and both with one answer.     *)
LEMMA FillAgrees ==
  ASSUME CacheInv, NEW view \in Views, Agree(view), NEW r \in Readers,
         fillCache(r) \/ (fillFails(r) /\ reads[r].view # view)
  PROVE  Agree(view)'
<1> DEFINE a == reads[r].answer
<1>1. reads[r] \in Reads
  BY ReadAt DEF fillCache, fillFails
<1>2. PICK ks \in SUBSET FilledKeys(reads[r]) :
        /\ cache' = [k \in Keys |-> IF k \in ks THEN a ELSE cache[k]]
        /\ ks = FilledKeys(reads[r]) \/ reads[r].view # view
  BY DEF fillCache, fillFails, SetKeys
<1> HIDE DEF a
<1>3. ListKey(view) \in ks <=> CountKey(view) \in ks
  BY <1>1, <1>2, FilledKeysAre, KeysDiffer, NoneAssumption DEF NoneAssumption
<1>4. ListKey(view) \in Keys /\ CountKey(view) \in Keys
  BY KeysDiffer
<1> QED
  BY <1>2, <1>3, <1>4, AgreementStays

(* A list and its count, in force under two keys, part only by a refill of *)
(* theirs of which one SET failed, whatever expires or is deleted between  *)
(* them (applications.repository.ts:206-354,                               *)
(* application-cache.helper.ts:20-159).                                    *)
THEOREM CountsMatch == Spec => ListKeepsItsCount
<1> DEFINE HalfFilled(view) ==
             \E r \in Readers : reads[r] # None /\ reads[r].view = view /\ fillFails(r)
<1>1. ASSUME CacheInv, [Next]_vars, NEW view \in Views, Agree(view)
      PROVE  Agree(view)' \/ HalfFilled(view)
  <2>1. UNCHANGED cache => Agree(view)'
    BY <1>1, AgreementStays
  <2>2. ASSUME NEW w \in Writers,
               write(w) \/ invalidateApplicationReadCaches(w) \/ invalidationFails(w)
        PROVE  Agree(view)'
    <3>1. CASE write(w) \/ invalidationFails(w)
      BY <2>1, <3>1 DEF write, invalidationFails
    <3>2. CASE invalidateApplicationReadCaches(w)
      <4>1. Current(w) \subseteq Keys
        BY <1>1 DEF CacheInv, TypeOK, Current
      <4> QED
        BY <1>1, <3>2, <4>1, EvictAgrees DEF invalidateApplicationReadCaches
    <3> QED
      BY <2>2, <3>1, <3>2
  <2>3. ASSUME NEW r \in Readers, fillCache(r) \/ fillFails(r)
        PROVE  Agree(view)' \/ HalfFilled(view)
    <3>1. CASE fillFails(r) /\ reads[r].view = view
      BY <3>1 DEF fillFails, At
    <3>2. CASE fillCache(r) \/ (fillFails(r) /\ reads[r].view # view)
      BY <1>1, <3>2, FillAgrees
    <3> QED
      BY <2>3, <3>1, <3>2
  <2>4. ASSUME NEW k \in Keys, expire(k) PROVE Agree(view)'
    BY <1>1, <2>4, EvictAgrees DEF expire
  <2>5. ASSUME NEW r \in Readers,
               \/ \E viewer \in Viewers : getApplication(r, viewer)
               \/ \E v \in Views : getApplications(r, v)
               \/ readList(r) \/ readApplication(r)
               \/ readInfoRequest(r) \/ readLatestReview(r) \/ finish(r)
        PROVE  Agree(view)'
    BY <2>1, <2>5 DEF getApplication, getApplications, readList, readApplication,
                      readInfoRequest, readLatestReview, finish
  <2>6. UNCHANGED vars => UNCHANGED cache
    BY DEF vars
  <2> HIDE DEF HalfFilled
  <2> QED
    BY <1>1, <2>1, <2>2, <2>3, <2>4, <2>5, <2>6 DEF Next
<1>2. ASSUME CacheInv, [Next]_vars
      PROVE  [\A view \in Views : Agree(view) /\ ~Agree(view)' => HalfFilled(view)]_vars
  BY <1>1, <1>2
<1> QED
  BY <1>2, CacheInvAlways, PTL DEF Spec, ListKeepsItsCount

(* The owner's draft, though cached under the key everybody reads, is shown*)
(* to nobody else (applications.repository.ts:402-578).                    *)
THEOREM DraftsAreNotShown == Spec => []DraftsStayPrivate
<1>1. CacheInv => DraftsStayPrivate
  BY DEF CacheInv, ReadsOK, ReadOK, DraftsStayPrivate
<1> QED
  BY <1>1, CacheInvAlways, PTL

(* Details gathered by three queries without a transaction, then cached,   *)
(* carry the request that put the application where it is shown, and no    *)
(* older review (applications.repository.ts:402-578).                      *)
THEOREM RequestsComeAlong == Spec => []DetailsCarryTheirRequest
<1>1. CacheInv => DetailsCarryTheirRequest
  <2> SUFFICES ASSUME CacheInv PROVE DetailsCarryTheirRequest
    OBVIOUS
  <2>1. cache[DetailKey] # None => Consistent(cache[DetailKey])
    BY DEF CacheInv, CacheOK
  <2>2. ASSUME NEW q \in Readers, reads[q] # None, reads[q].view = None,
               reads[q].pc \in {"filling", "answered"}
        PROVE  Consistent(reads[q].answer)
    BY <2>2 DEF CacheInv, ReadsOK, ReadOK
  <2> QED
    BY <2>1, <2>2 DEF DetailsCarryTheirRequest, Consistent
<1> QED
  BY <1>1, CacheInvAlways, PTL

=============================================================================
