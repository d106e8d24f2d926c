------------------------- MODULE DocumentUploadProofs ------------------------
(***************************************************************************)
(* The uploads of one application, for every finite set of uploads, every  *)
(* set of document types and every number of faults: versions form chains, *)
(* files match versions, acknowledged uploads are kept, listings are       *)
(* consistent, and the handler implements VersionArchive.tla.  What an     *)
(* upload has read stays true because versions are only added; the unique  *)
(* index then lets the next number of a document in only once.             *)
(***************************************************************************)
EXTENDS DocumentUpload, FiniteSetTheorems, SequenceTheorems, TLAPS

HasVersion(u) == \E v \in versions : v.file = u

(* What findLatestVersion has read: no version, or one that is there.      *)
Prepared(u) ==
  /\ number[u] \in Nat \ {0}
  /\ IF number[u] = 1
     THEN latest[u] = None
     ELSE \E w \in VersionsOf(target[u]) :
            w.file = latest[u] /\ w.version_number = number[u] - 1

(* Where an upload stands, and what it has left on disk and in the rows.   *)
Progress(u) ==
  /\ phase[u] # "idle" => request[u] \in DocumentTypes
  /\ phase[u] \in {"numbering", "inserting", "committing"} =>
       /\ target[u] \in Uploads
       /\ target[u] = u \/ documents[target[u]] # None
  /\ phase[u] \in {"inserting", "committing"} => Prepared(u)
  /\ phase[u] = "committing" => ~Taken(u)
  /\ phase[u] \in {"finding", "numbering", "inserting", "committing",
                   "invalidating", "stored"} => u \in files
  /\ phase[u] \in {"idle", "saving", "failed"} => u \notin files
  /\ phase[u] \in {"invalidating", "stored"} => HasVersion(u)
  /\ HasVersion(u) =>
       /\ u \in files \cup unacknowledged
       /\ \/ phase[u] \in {"invalidating", "stored", "stopped"}
          \/ phase[u] \in {"cleaning", "failed", "leaked"} /\ u \in unacknowledged

(* An open INSERT is the only one of its document and number.              *)
KeysHeld ==
  \A u, w \in Uploads :
    /\ u # w
    /\ phase[u] = "committing" /\ phase[w] = "committing"
    /\ target[u] = target[w]
    => number[u] # number[w]

(* A version is known by its file, and by its document and number.         *)
RowsUnique ==
  /\ IsFiniteSet(versions)
  /\ \A v, w \in versions : v.file = w.file => v = w
  /\ \A v, w \in versions :
       v.document = w.document /\ v.version_number = w.version_number => v = w

(* A listing in progress has read a version that is there.                 *)
ListingSeen ==
  listing.document # None =>
    /\ \E v \in VersionsOf(listing.document) : v.version_number = listing.latest
    /\ listing.count # 0 => listing.count >= listing.latest

UploadInv ==
  /\ TypeOK
  /\ \A u \in Uploads : Progress(u)
  /\ KeysHeld
  /\ RowsUnique
  /\ VersionsChain
  /\ ListingSeen
  /\ listing.document = None => listing.count = 0

-----------------------------------------------------------------------------
(* An upload that takes no part in a step.                                 *)
Untouched(w) ==
  /\ phase'[w] = phase[w] /\ request'[w] = request[w] /\ target'[w] = target[w]
  /\ latest'[w] = latest[w] /\ number'[w] = number[w]
  /\ w \in files' <=> w \in files
  /\ w \in unacknowledged' <=> w \in unacknowledged

OthersUntouched(u) == \A w \in Uploads : w # u => Untouched(w)

LEMMA UntouchedProgress ==
  ASSUME NEW w \in Uploads, Progress(w), Untouched(w), TypeOK,
         versions \subseteq versions',
         \A d \in Uploads : documents[d] # None => documents'[d] # None,
         HasVersion(w)' => HasVersion(w),
         phase[w] = "committing" => ~Taken(w)'
  PROVE  Progress(w)'
<1>1. /\ phase'[w] = phase[w] /\ request'[w] = request[w] /\ target'[w] = target[w]
      /\ latest'[w] = latest[w] /\ number'[w] = number[w]
      /\ w \in files' <=> w \in files
      /\ w \in unacknowledged' <=> w \in unacknowledged
  BY DEF Untouched
<1>2. Prepared(w) => Prepared(w)'
  BY <1>1 DEF Prepared, VersionsOf
<1>3. HasVersion(w)' <=> HasVersion(w)
  BY DEF HasVersion
<1> QED
  BY <1>1, <1>2, <1>3 DEF Progress

(* A step of one upload that leaves the rows and the listing alone.        *)
LEMMA MoveKeeps ==
  ASSUME UploadInv, NEW u \in Uploads, TypeOK', UNCHANGED <<rows, listing>>,
         OthersUntouched(u), Progress(u)',
         phase'[u] = "committing" =>
           \A w \in Uploads \ {u} :
             phase[w] = "committing" /\ target[w] = target'[u] => number[w] # number'[u]
  PROVE  UploadInv'
<1>1. versions' = versions /\ documents' = documents /\ listing' = listing
  BY DEF rows
<1>2. \A w \in Uploads : Progress(w)'
  <2>1. ASSUME NEW w \in Uploads, w # u PROVE Progress(w)'
    <3>1. Progress(w) /\ Untouched(w) /\ TypeOK
      BY <2>1 DEF UploadInv, OthersUntouched
    <3>2. HasVersion(w)' => HasVersion(w)
      BY <1>1 DEF HasVersion
    <3>3. phase[w] = "committing" => ~Taken(w)'
      BY <1>1, <3>1 DEF Progress, Untouched, Taken, VersionsOf
    <3> QED
      BY <1>1, <3>1, <3>2, <3>3, UntouchedProgress
  <2> QED
    BY <2>1
<1>3. KeysHeld'
  BY DEF UploadInv, KeysHeld, OthersUntouched, Untouched
<1>4. RowsUnique' /\ VersionsChain' /\ ListingSeen'
  BY <1>1 DEF UploadInv, RowsUnique, VersionsChain, ListingSeen, VersionsOf
<1> QED
  BY <1>1, <1>2, <1>3, <1>4 DEF UploadInv

LEMMA UploadDocumentKeeps ==
  ASSUME UploadInv, NEW u \in Uploads, NEW t \in DocumentTypes, uploadDocument(u, t)
  PROVE  UploadInv'
<1>1. TypeOK /\ Progress(u)
  BY DEF UploadInv
<1>2. /\ phase[u] = "idle" /\ phase'[u] = "saving" /\ request'[u] = t
      /\ OthersUntouched(u)
      /\ UNCHANGED <<rows, listing>> /\ UNCHANGED <<files, versions, unacknowledged>>
  BY <1>1 DEF uploadDocument, TypeOK, Goto, rows, OthersUntouched, Untouched
<1>3. TypeOK'
  BY <1>1 DEF uploadDocument, TypeOK, Goto, rows, Phases
<1>4. Progress(u)'
  BY <1>1, <1>2 DEF Progress, HasVersion
<1> QED
  BY <1>2, <1>3, <1>4, MoveKeeps

LEMMA SaveFileKeeps ==
  ASSUME UploadInv, NEW u \in Uploads, saveFile(u)
  PROVE  UploadInv'
<1>1. TypeOK /\ Progress(u)
  BY DEF UploadInv
<1>2. /\ phase[u] = "saving" /\ phase'[u] = "finding" /\ u \in files'
      /\ OthersUntouched(u)
      /\ UNCHANGED <<rows, listing>> /\ UNCHANGED <<versions, unacknowledged, request>>
  BY <1>1 DEF saveFile, TypeOK, Goto, rows, locals, OthersUntouched, Untouched
<1>3. TypeOK'
  BY <1>1 DEF saveFile, TypeOK, Goto, rows, locals, Phases
<1>4. Progress(u)'
  BY <1>1, <1>2 DEF Progress, HasVersion
<1> QED
  BY <1>2, <1>3, <1>4, MoveKeeps

LEMMA SaveFailsKeeps ==
  ASSUME UploadInv, NEW u \in Uploads, saveFails(u)
  PROVE  UploadInv'
<1>1. TypeOK /\ Progress(u)
  BY DEF UploadInv
<1>2. /\ phase[u] = "saving"
      /\ \/ phase'[u] = "failed" /\ files' = files
         \/ phase'[u] = "leaked"
      /\ OthersUntouched(u)
      /\ UNCHANGED <<rows, listing>> /\ UNCHANGED <<versions, unacknowledged, request>>
  BY <1>1 DEF saveFails, TypeOK, Goto, rows, locals, OthersUntouched, Untouched
<1>3. TypeOK'
  BY <1>1, FaultsAssumption
     DEF saveFails, Fault, TypeOK, Goto, rows, locals, Phases, FaultsAssumption
<1>4. Progress(u)'
  BY <1>1, <1>2 DEF Progress, HasVersion
<1> QED
  BY <1>2, <1>3, <1>4, MoveKeeps

LEMMA FindOrCreateKeeps ==
  ASSUME UploadInv, NEW u \in Uploads, findOrCreateDocument(u)
  PROVE  UploadInv'
<1>1. TypeOK /\ Progress(u)
  BY DEF UploadInv
<1>2. PICK d \in Uploads :
        /\ d = u \/ documents[d] = request[u]
        /\ target' = [target EXCEPT ![u] = d]
  BY DEF findOrCreateDocument, Candidates
<1>3. /\ phase[u] = "finding" /\ phase'[u] = "numbering" /\ target'[u] = d
      /\ OthersUntouched(u)
      /\ UNCHANGED <<rows, listing>>
      /\ UNCHANGED <<files, versions, documents, unacknowledged, request>>
  BY <1>1, <1>2
     DEF findOrCreateDocument, TypeOK, Goto, rows, OthersUntouched, Untouched
<1>4. d = u \/ documents[d] # None
  BY <1>1, <1>2, <1>3, TypesAssumption DEF Progress, TypesAssumption
<1>5. TypeOK'
  BY <1>1, <1>2 DEF findOrCreateDocument, TypeOK, Goto, rows, Phases
<1>6. Progress(u)'
  BY <1>1, <1>3, <1>4 DEF Progress, HasVersion
<1> QED
  BY <1>3, <1>5, <1>6, MoveKeeps

LEMMA FindLatestKeeps ==
  ASSUME UploadInv, NEW u \in Uploads, findLatestVersion(u)
  PROVE  UploadInv'
<1>1. TypeOK /\ Progress(u)
  BY DEF UploadInv
<1>2. PICK l \in Uploads \cup {None}, n \in Nat \ {0} :
        /\ latest' = [latest EXCEPT ![u] = l]
        /\ number' = [number EXCEPT ![u] = n]
        /\ IF n = 1
           THEN l = None
           ELSE \E w \in VersionsOf(target[u]) :
                  w.file = l /\ w.version_number = n - 1
  <2>1. CASE Newest(target[u]) = {}
    BY <2>1 DEF findLatestVersion
  <2>2. CASE Newest(target[u]) # {}
    <3>1. PICK v \in Newest(target[u]) :
            /\ latest' = [latest EXCEPT ![u] = v.file]
            /\ number' = [number EXCEPT ![u] = v.version_number + 1]
      BY <2>2 DEF findLatestVersion
    <3>2. v \in VersionsOf(target[u]) /\ v \in Versions
      BY <1>1 DEF Newest, VersionsOf, TypeOK
    <3>3. v.file \in Uploads /\ v.version_number \in Nat \ {0}
      BY <3>2 DEF Versions
    <3>4. v.version_number + 1 \in Nat \ {0} /\ v.version_number + 1 # 1
          /\ (v.version_number + 1) - 1 = v.version_number
      BY <3>3
    <3> QED
      BY <3>1, <3>2, <3>3, <3>4
  <2> QED
    BY <2>1, <2>2
<1>3. /\ phase[u] = "numbering" /\ phase'[u] = "inserting"
      /\ latest'[u] = l /\ number'[u] = n
      /\ OthersUntouched(u)
      /\ UNCHANGED <<rows, listing>>
      /\ UNCHANGED <<files, versions, documents, unacknowledged, request, target>>
  BY <1>1, <1>2
     DEF findLatestVersion, TypeOK, Goto, rows, OthersUntouched, Untouched
<1>4. target[u] \in Uploads
  BY <1>1, <1>3 DEF Progress
<1>5. TypeOK'
  <2>1. \A w \in Uploads : phase'[w] \in {"inserting", "committing"} => target'[w] # None
    BY <1>1, <1>3, <1>4, UploadsAssumption
       DEF TypeOK, OthersUntouched, Untouched, UploadsAssumption
  <2> QED
    BY <1>1, <1>2, <2>1 DEF findLatestVersion, TypeOK, Goto, rows, Phases
<1>6. Prepared(u)'
  BY <1>2, <1>3 DEF Prepared, VersionsOf
<1>7. Progress(u)'
  BY <1>1, <1>3, <1>6 DEF Progress, HasVersion
<1> QED
  BY <1>3, <1>5, <1>7, MoveKeeps

LEMMA InsertVersionKeeps ==
  ASSUME UploadInv, NEW u \in Uploads, insertVersion(u)
  PROVE  UploadInv'
<1>1. TypeOK /\ Progress(u)
  BY DEF UploadInv
<1>2. /\ phase[u] = "inserting"
      /\ phase'[u] = IF Taken(u) THEN "cleaning" ELSE "committing"
      /\ OthersUntouched(u)
      /\ UNCHANGED <<rows, listing>>
      /\ UNCHANGED <<files, versions, documents, unacknowledged, request, target,
                     latest, number>>
  BY <1>1 DEF insertVersion, TypeOK, Goto, rows, locals, OthersUntouched, Untouched
<1>3. TypeOK'
  BY <1>1 DEF insertVersion, TypeOK, Goto, rows, locals, Phases
<1>4. Progress(u)'
  <2>1. Taken(u)' <=> Taken(u)
    BY <1>2 DEF Taken, VersionsOf
  <2>2. Prepared(u)' <=> Prepared(u)
    BY <1>2 DEF Prepared, VersionsOf
  <2>3. HasVersion(u)' <=> HasVersion(u)
    BY <1>2 DEF HasVersion
  <2>4. ~HasVersion(u) /\ u \in files
    BY <1>1, <1>2 DEF Progress
  <2>5. CASE Taken(u)
    BY <1>1, <1>2, <2>3, <2>4, <2>5 DEF Progress
  <2>6. CASE ~Taken(u)
    BY <1>1, <1>2, <2>1, <2>2, <2>3, <2>4, <2>6 DEF Progress
  <2> QED
    BY <2>5, <2>6
<1>5. phase'[u] = "committing" =>
        \A w \in Uploads \ {u} :
          phase[w] = "committing" /\ target[w] = target'[u] => number[w] # number'[u]
  BY <1>2 DEF insertVersion, Blocked
<1> QED
  BY <1>2, <1>3, <1>4, <1>5, MoveKeeps

LEMMA TransactionFailsKeeps ==
  ASSUME UploadInv, NEW u \in Uploads, transactionFails(u)
  PROVE  UploadInv'
<1>1. TypeOK /\ Progress(u)
  BY DEF UploadInv
<1>2. /\ phase[u] \in {"finding", "numbering", "inserting", "committing"}
      /\ phase'[u] = "cleaning"
      /\ OthersUntouched(u)
      /\ UNCHANGED <<rows, listing>>
      /\ UNCHANGED <<files, versions, unacknowledged, request>>
  BY <1>1 DEF transactionFails, TypeOK, Goto, rows, locals, OthersUntouched, Untouched
<1>3. TypeOK'
  BY <1>1, FaultsAssumption
     DEF transactionFails, Fault, TypeOK, Goto, rows, locals, Phases, FaultsAssumption
<1>4. Progress(u)'
  BY <1>1, <1>2 DEF Progress, HasVersion
<1> QED
  BY <1>2, <1>3, <1>4, MoveKeeps

LEMMA HandleErrorKeeps ==
  ASSUME UploadInv, NEW u \in Uploads, handleError(u)
  PROVE  UploadInv'
<1>1. TypeOK /\ Progress(u)
  BY DEF UploadInv
<1>2. /\ phase[u] = "cleaning" /\ phase'[u] = "failed" /\ u \notin files'
      /\ OthersUntouched(u)
      /\ UNCHANGED <<rows, listing>>
      /\ UNCHANGED <<versions, unacknowledged, request>>
  BY <1>1
     DEF handleError, removeFile, TypeOK, Goto, rows, locals, OthersUntouched, Untouched
<1>3. TypeOK'
  BY <1>1 DEF handleError, removeFile, TypeOK, Goto, rows, locals, Phases
<1>4. Progress(u)'
  BY <1>1, <1>2 DEF Progress, HasVersion
<1> QED
  BY <1>2, <1>3, <1>4, MoveKeeps

LEMMA RemoveFailsKeeps ==
  ASSUME UploadInv, NEW u \in Uploads, removeFails(u)
  PROVE  UploadInv'
<1>1. TypeOK /\ Progress(u)
  BY DEF UploadInv
<1>2. /\ phase[u] = "cleaning" /\ phase'[u] = "leaked"
      /\ OthersUntouched(u)
      /\ UNCHANGED <<rows, listing>>
      /\ UNCHANGED <<files, versions, unacknowledged, request>>
  BY <1>1 DEF removeFails, TypeOK, Goto, rows, locals, OthersUntouched, Untouched
<1>3. TypeOK'
  BY <1>1, FaultsAssumption
     DEF removeFails, Fault, TypeOK, Goto, rows, locals, Phases, FaultsAssumption
<1>4. Progress(u)'
  BY <1>1, <1>2 DEF Progress, HasVersion
<1> QED
  BY <1>2, <1>3, <1>4, MoveKeeps

LEMMA RespondKeeps ==
  ASSUME UploadInv, NEW u \in Uploads, respond(u)
  PROVE  UploadInv'
<1>1. TypeOK /\ Progress(u)
  BY DEF UploadInv
<1>2. /\ phase[u] = "invalidating" /\ phase'[u] = "stored"
      /\ OthersUntouched(u)
      /\ UNCHANGED <<rows, listing>>
      /\ UNCHANGED <<files, versions, unacknowledged, request>>
  BY <1>1 DEF respond, invalidateApplicationReadCaches, TypeOK, Goto, rows, locals,
              OthersUntouched, Untouched
<1>3. TypeOK'
  BY <1>1 DEF respond, invalidateApplicationReadCaches, TypeOK, Goto, rows, locals,
              Phases
<1>4. Progress(u)'
  BY <1>1, <1>2 DEF Progress, HasVersion
<1> QED
  BY <1>2, <1>3, <1>4, MoveKeeps

LEMMA StopKeeps ==
  ASSUME UploadInv, stop
  PROVE  UploadInv'
<1>1. TypeOK
  BY DEF UploadInv
<1>2. /\ UNCHANGED <<files, documents, versions, unacknowledged, request, target,
                     latest, number>>
      /\ \A u \in Uploads :
           phase'[u] = IF Running(u) THEN "stopped" ELSE phase[u]
      /\ listing'.document = None /\ listing'.count = 0
  BY DEF stop, rows, locals
<1>3. TypeOK'
  <2>1. listing' \in [document : Uploads \cup {None}, latest : Nat, count : Nat]
    BY DEF stop
  <2>2. phase' \in [Uploads -> Phases]
    BY <1>1 DEF stop, TypeOK, Phases
  <2>3. faults' \in 0 .. MaxFaults
    BY <1>1, FaultsAssumption DEF stop, Fault, TypeOK, FaultsAssumption
  <2> QED
    BY <1>1, <1>2, <2>1, <2>2, <2>3 DEF TypeOK
<1>4. ASSUME NEW u \in Uploads PROVE Progress(u)'
  <2>1. Progress(u)
    BY DEF UploadInv
  <2>2. HasVersion(u)' <=> HasVersion(u)
    BY <1>2 DEF HasVersion
  <2>3. CASE Running(u)
    BY <1>2, <2>1, <2>2, <2>3 DEF Progress, Running
  <2>4. CASE ~Running(u)
    BY <1>2, <2>1, <2>2, <2>4 DEF Progress, Running
  <2> QED
    BY <2>3, <2>4
<1>5. KeysHeld'
  BY <1>2 DEF KeysHeld, Running
<1>6. RowsUnique' /\ VersionsChain'
  BY <1>2 DEF UploadInv, RowsUnique, VersionsChain, VersionsOf
<1>7. ListingSeen'
  BY <1>2 DEF ListingSeen
<1> QED
  BY <1>2, <1>3, <1>4, <1>5, <1>6, <1>7 DEF UploadInv

-----------------------------------------------------------------------------
(* A COMMIT adds the next version of one document.                         *)

Committed(u) ==
  /\ phase[u] = "committing"
  /\ Commit(u)
  /\ \/ phase'[u] = "invalidating"
     \/ phase'[u] = "cleaning" /\ u \in unacknowledged'
  /\ OthersUntouched(u)
  /\ u \in files'
  /\ UNCHANGED <<locals, listing>>

(* The numbers of a document are those up to the count, and the next one is*)
(* the one that was prepared.                                              *)
LEMMA NextNumber ==
  ASSUME UploadInv, NEW u \in Uploads, phase[u] = "committing"
  PROVE  LET d == target[u]
             k == Cardinality(VersionsOf(d)) IN
           /\ d \in Uploads /\ k \in Nat /\ IsFiniteSet(VersionsOf(d))
           /\ number[u] = k + 1
           /\ Row(u) \in Versions
           /\ Row(u) \notin versions
<1> DEFINE d == target[u]
           k == Cardinality(VersionsOf(d))
<1>1. TypeOK /\ Progress(u) /\ d \in Uploads /\ Prepared(u) /\ ~Taken(u)
  BY DEF UploadInv, Progress
<1>2. IsFiniteSet(VersionsOf(d))
  BY FS_Subset DEF UploadInv, RowsUnique, VersionsOf
<1>3. k \in Nat
  BY <1>2, FS_CardinalityType
<1>4. {v.version_number : v \in VersionsOf(d)} = 1..k
  BY <1>1 DEF UploadInv, VersionsChain
<1>5. number[u] \in Nat \ {0} /\ number[u] \notin 1..k
  BY <1>1, <1>4 DEF Prepared, Taken
<1>6. number[u] # 1 => number[u] - 1 \in 1..k
  BY <1>1, <1>4 DEF Prepared
<1>7. number[u] = k + 1
  BY <1>3, <1>5, <1>6
<1>8. Row(u) \in Versions
  <2>1. latest[u] \in Uploads \cup {None}
    BY <1>1 DEF TypeOK
  <2> QED
    BY <1>1, <1>5, <2>1 DEF Row, Versions
<1>9. Row(u) \notin versions
  BY <1>1 DEF Progress, HasVersion, Row
<1> QED
  BY <1>1, <1>2, <1>3, <1>7, <1>8, <1>9

LEMMA CommitEffect ==
  ASSUME UploadInv, NEW u \in Uploads, commit(u) \/ commitUnacknowledged(u)
  PROVE  Committed(u) /\ TypeOK'
<1>1. TypeOK /\ Progress(u) /\ phase[u] = "committing" /\ Commit(u)
  BY DEF UploadInv, commit, commitUnacknowledged
<1>2. u \in files /\ request[u] \in DocumentTypes
  BY <1>1 DEF Progress
<1>3. Committed(u)
  <2>1. CASE commit(u)
    <3>1. /\ phase' = [phase EXCEPT ![u] = "invalidating"]
          /\ UNCHANGED <<files, request, target, latest, number, listing,
                         unacknowledged>>
      BY <2>1 DEF commit, Goto, locals
    <3>2. OthersUntouched(u) /\ phase'[u] = "invalidating"
      BY <1>1, <3>1 DEF TypeOK, OthersUntouched, Untouched
    <3> QED
      BY <1>1, <1>2, <3>1, <3>2 DEF Committed, locals
  <2>2. CASE commitUnacknowledged(u)
    BY <1>1, <1>2, <2>2
       DEF commitUnacknowledged, Committed, TypeOK, Goto, locals, OthersUntouched,
           Untouched
  <2> QED
    BY <2>1, <2>2
<1>4. versions' \subseteq Versions
  BY <1>1, NextNumber DEF Commit, TypeOK
<1>5. documents' \in [Uploads -> DocumentTypes \cup {None}]
  BY <1>1, <1>2 DEF Commit, TypeOK
<1>6. TypeOK'
  <2>1. CASE commit(u)
    BY <1>1, <1>4, <1>5, <2>1 DEF commit, TypeOK, Goto, locals, Phases
  <2>2. CASE commitUnacknowledged(u)
    BY <1>1, <1>4, <1>5, <2>2, FaultsAssumption
       DEF commitUnacknowledged, Fault, TypeOK, Goto, locals, Phases, FaultsAssumption
  <2> QED
    BY <2>1, <2>2
<1> QED
  BY <1>3, <1>6

(* What the new row does to the versions of each document.                 *)
LEMMA CommittedRows ==
  ASSUME UploadInv, NEW u \in Uploads, Committed(u)
  PROVE  /\ versions' = versions \cup {Row(u)}
         /\ VersionsOf(target[u])' = VersionsOf(target[u]) \cup {Row(u)}
         /\ Row(u) \notin VersionsOf(target[u])
         /\ \A d \in Uploads : d # target[u] => VersionsOf(d)' = VersionsOf(d)
         /\ Cardinality(VersionsOf(target[u]))' = Cardinality(VersionsOf(target[u])) + 1
<1>1. versions' = versions \cup {Row(u)} /\ Row(u) \notin versions
  BY NextNumber DEF Committed, Commit
<1>2. Row(u).document = target[u] /\ target' = target
  BY DEF Row, Committed, locals
<1>3. VersionsOf(target[u])' = VersionsOf(target[u]) \cup {Row(u)}
  BY <1>1, <1>2 DEF VersionsOf
<1>4. Row(u) \notin VersionsOf(target[u])
  BY <1>1 DEF VersionsOf
<1>5. \A d \in Uploads : d # target[u] => VersionsOf(d)' = VersionsOf(d)
  BY <1>1, <1>2 DEF VersionsOf
<1>6. IsFiniteSet(VersionsOf(target[u]))
  BY NextNumber DEF Committed
<1>7. Cardinality(VersionsOf(target[u]) \cup {Row(u)}) = Cardinality(VersionsOf(target[u])) + 1
  BY <1>4, <1>6, FS_AddElement
<1> QED
  BY <1>1, <1>3, <1>4, <1>5, <1>7

LEMMA CommittedChain ==
  ASSUME UploadInv, NEW u \in Uploads, Committed(u)
  PROVE  VersionsChain'
<1> DEFINE d == target[u]
           k == Cardinality(VersionsOf(d))
<1>1. TypeOK /\ VersionsChain /\ Progress(u) /\ phase[u] = "committing" /\ Commit(u)
  BY DEF UploadInv, Committed
<1>2. /\ d \in Uploads /\ k \in Nat /\ number[u] = k + 1
      /\ d = u \/ documents[d] # None
      /\ request[u] \in DocumentTypes /\ Prepared(u)
  BY <1>1, NextNumber DEF Progress
<1>3. /\ Row(u).document = d /\ Row(u).version_number = k + 1
      /\ Row(u).file = u /\ Row(u).supersedes = latest[u]
  BY <1>2 DEF Row
<1>4. /\ versions' = versions \cup {Row(u)}
      /\ VersionsOf(d)' = VersionsOf(d) \cup {Row(u)}
      /\ \A e \in Uploads : e # d => VersionsOf(e)' = VersionsOf(e)
      /\ Cardinality(VersionsOf(d))' = k + 1
      /\ target' = target
  BY CommittedRows DEF Committed, locals
<1>5. /\ documents'[d] # None
      /\ \A e \in Uploads : e # d => documents'[e] = documents[e]
  BY <1>1, <1>2, TypesAssumption DEF Commit, TypeOK, TypesAssumption
<1> HIDE DEF k
<1>6. {v.version_number : v \in VersionsOf(d)}' = 1 .. (k + 1)
  <2>1. {v.version_number : v \in VersionsOf(d)} = 1 .. k
    BY <1>1, <1>2 DEF VersionsChain, k
  <2>2. {v.version_number : v \in VersionsOf(d)}' = (1 .. k) \cup {k + 1}
    BY <1>3, <1>4, <2>1
  <2> QED
    BY <1>2, <2>2
<1> HIDE DEF d
<1>7. ASSUME NEW e \in Uploads
      PROVE  /\ {v.version_number : v \in VersionsOf(e)}' = 1 .. Cardinality(VersionsOf(e))'
             /\ documents'[e] # None <=> VersionsOf(e)' # {}
  <2>1. CASE e = d
    <3>1. VersionsOf(d)' # {}
      BY <1>4
    <3>2. d' = d
      BY <1>4 DEF d
    <3> QED
      BY <1>4, <1>5, <1>6, <2>1, <3>1, <3>2
  <2>2. CASE e # d
    BY <1>1, <1>4, <1>5, <2>2 DEF VersionsChain
  <2> QED
    BY <2>1, <2>2
<1>8. ASSUME NEW v \in versions'
      PROVE  IF v.version_number = 1
             THEN v.supersedes = None
             ELSE \E w \in VersionsOf(v.document)' :
                    /\ w.file = v.supersedes
                    /\ w.version_number = v.version_number - 1
  <2>1. \A w \in versions : w \in versions'
    BY <1>4
  <2>2. CASE v \in versions
    BY <1>1, <2>1, <2>2 DEF VersionsChain, VersionsOf
  <2>3. CASE v = Row(u)
    <3>1. IF v.version_number = 1
          THEN v.supersedes = None
          ELSE \E w \in VersionsOf(d) :
                 w.file = v.supersedes /\ w.version_number = v.version_number - 1
      BY <1>2, <1>3, <2>3 DEF Prepared, d
    <3>2. \A w \in VersionsOf(d) : w \in VersionsOf(v.document)'
      BY <1>3, <2>1, <2>3 DEF VersionsOf
    <3> QED
      BY <3>1, <3>2
  <2> QED
    BY <1>4, <2>2, <2>3
<1> QED
  BY <1>7, <1>8 DEF VersionsChain

LEMMA CommittedKeeps ==
  ASSUME UploadInv, TypeOK', NEW u \in Uploads, Committed(u)
  PROVE  UploadInv'
<1>1. /\ TypeOK /\ KeysHeld /\ RowsUnique /\ ListingSeen
      /\ Progress(u) /\ phase[u] = "committing" /\ Commit(u)
      /\ request[u] \in DocumentTypes /\ ~HasVersion(u) /\ ~Taken(u)
  BY DEF UploadInv, Committed, Progress
<1>2. /\ \/ phase'[u] = "invalidating"
         \/ phase'[u] = "cleaning" /\ u \in unacknowledged'
      /\ OthersUntouched(u) /\ u \in files' /\ listing' = listing
      /\ request' = request /\ target' = target /\ latest' = latest /\ number' = number
  BY DEF Committed, locals
<1>3. /\ versions' = versions \cup {Row(u)}
      /\ Row(u).document = target[u] /\ Row(u).version_number = number[u]
      /\ Row(u).file = u
  BY CommittedRows DEF Row
<1> HIDE DEF Row
<1>4. Progress(u)'
  <2>1. HasVersion(u)'
    BY <1>3 DEF HasVersion
  <2> QED
    BY <1>1, <1>2, <2>1 DEF Progress
<1>5. ASSUME NEW w \in Uploads, w # u
      PROVE  Progress(w)'
  <2>1. Progress(w) /\ Untouched(w)
    BY <1>2, <1>5 DEF UploadInv, OthersUntouched
  <2>2. HasVersion(w)' => HasVersion(w)
    BY <1>3, <1>5 DEF HasVersion
  <2>3. phase[w] = "committing" => ~Taken(w)'
    <3>1. SUFFICES ASSUME phase[w] = "committing", Taken(w)' PROVE FALSE
      OBVIOUS
    <3>2. PICK v \in versions' : v.document = target[w] /\ v.version_number = number[w]
      BY <1>2, <3>1 DEF Taken, VersionsOf
    <3>3. v \notin versions
      BY <2>1, <3>1, <3>2 DEF Progress, Taken, VersionsOf
    <3>4. target[w] = target[u] /\ number[w] = number[u]
      BY <1>3, <3>2, <3>3
    <3> QED
      BY <1>1, <1>5, <3>1, <3>4 DEF KeysHeld
  <2>4. \A d \in Uploads : documents[d] # None => documents'[d] # None
    BY <1>1, TypesAssumption DEF Commit, TypeOK, TypesAssumption
  <2>5. versions \subseteq versions'
    BY <1>3
  <2> QED
    BY <1>1, <2>1, <2>2, <2>3, <2>4, <2>5, UntouchedProgress
<1>6. KeysHeld'
  BY <1>1, <1>2 DEF KeysHeld, OthersUntouched, Untouched
<1>7. RowsUnique'
  <2>1. IsFiniteSet(versions')
    BY <1>1, <1>3, FS_AddElement DEF RowsUnique
  <2>2. \A v \in versions : v.file # u
    BY <1>1 DEF HasVersion
  <2>3. \A v \in versions :
          ~(v.document = target[u] /\ v.version_number = number[u])
    BY <1>1 DEF Taken, VersionsOf
  <2>4. \A v, w \in versions' : v.file = w.file => v = w
    BY <1>1, <1>3, <2>2 DEF RowsUnique
  <2>5. \A v, w \in versions' :
          v.document = w.document /\ v.version_number = w.version_number => v = w
    BY <1>1, <1>3, <2>3 DEF RowsUnique
  <2> QED
    BY <2>1, <2>4, <2>5 DEF RowsUnique
<1>8. VersionsChain'
  BY CommittedChain
<1>9. ListingSeen' /\ (listing.document = None => listing.count = 0)'
  BY <1>1, <1>2, <1>3 DEF ListingSeen, VersionsOf, UploadInv
<1>10. \A w \in Uploads : Progress(w)'
  BY <1>4, <1>5
<1> QED
  BY <1>6, <1>7, <1>8, <1>9, <1>10 DEF UploadInv

-----------------------------------------------------------------------------
(* Listings, the initial state and every step.                             *)

LEMMA NoProgress ==
  ASSUME NEW u \in Uploads, Progress(u),
         UNCHANGED <<files, rows, phase, locals, faults, unacknowledged>>
  PROVE  Progress(u)'
  BY DEF Progress, Prepared, Taken, HasVersion, VersionsOf, rows, locals

(* A step of the list handler only changes what the listing has read.      *)
LEMMA ListingKeeps ==
  ASSUME UploadInv, UNCHANGED <<files, rows, phase, locals, faults, unacknowledged>>,
         listing' \in [document : Uploads \cup {None}, latest : Nat, count : Nat],
         ListingSeen', listing'.document = None => listing'.count = 0
  PROVE  UploadInv'
<1>1. TypeOK'
  BY DEF UploadInv, TypeOK, rows, locals
<1>2. \A u \in Uploads : Progress(u)'
  BY NoProgress DEF UploadInv
<1>3. KeysHeld' /\ RowsUnique' /\ VersionsChain'
  BY DEF UploadInv, KeysHeld, RowsUnique, VersionsChain, VersionsOf, rows, locals
<1> QED
  BY <1>1, <1>2, <1>3 DEF UploadInv

LEMMA ReadLatestKeeps ==
  ASSUME UploadInv, NEW d \in Uploads, readLatest(d)
  PROVE  UploadInv'
<1>1. PICK v \in Newest(d) :
        listing' = [document |-> d, latest |-> v.version_number, count |-> 0]
  BY DEF readLatest
<1>2. v \in VersionsOf(d) /\ v.version_number \in Nat /\ VersionsOf(d)' = VersionsOf(d)
  BY <1>1 DEF Newest, VersionsOf, UploadInv, TypeOK, Versions, readLatest, rows
<1>3. listing' \in [document : Uploads \cup {None}, latest : Nat, count : Nat]
  BY <1>1, <1>2
<1>4. ListingSeen'
  BY <1>1, <1>2 DEF ListingSeen, VersionsOf
<1> QED
  BY <1>1, <1>3, <1>4, ListingKeeps DEF readLatest

LEMMA CountVersionsKeeps ==
  ASSUME UploadInv, countVersions
  PROVE  UploadInv'
<1> DEFINE d == listing.document
           k == Cardinality(VersionsOf(d))
<1>1. /\ listing \in [document : Uploads \cup {None}, latest : Nat, count : Nat]
      /\ d \in Uploads
      /\ listing' = [listing EXCEPT !.count = k]
      /\ VersionsChain /\ ListingSeen
  BY DEF countVersions, VersionsCount, UploadInv, TypeOK
<1>2. k \in Nat
  BY FS_Subset, FS_CardinalityType DEF UploadInv, RowsUnique, VersionsOf
<1>3. listing.latest \in 1 .. k
  BY <1>1, UploadsAssumption DEF VersionsChain, ListingSeen, UploadsAssumption
<1> HIDE DEF k
<1>4. /\ listing'.document = d /\ listing'.latest = listing.latest
      /\ listing'.count = k
      /\ listing' \in [document : Uploads \cup {None}, latest : Nat, count : Nat]
  BY <1>1, <1>2
<1>5. k >= listing.latest
  BY <1>2, <1>3
<1>6. VersionsOf(d)' = VersionsOf(d)
  BY <1>4 DEF VersionsOf, countVersions, rows
<1>7. ListingSeen'
  BY <1>1, <1>4, <1>5, <1>6 DEF ListingSeen, VersionsOf
<1>8. listing'.document # None
  BY <1>1, <1>4, UploadsAssumption DEF UploadsAssumption
<1> QED
  BY <1>4, <1>7, <1>8, ListingKeeps DEF countVersions

LEMMA AnswerListingKeeps ==
  ASSUME UploadInv, answerListing
  PROVE  UploadInv'
<1>1. /\ listing' \in [document : Uploads \cup {None}, latest : Nat, count : Nat]
      /\ listing'.document = None /\ listing'.count = 0
  BY DEF answerListing
<1>2. ListingSeen'
  BY <1>1 DEF ListingSeen
<1> QED
  BY <1>1, <1>2, ListingKeeps DEF answerListing

LEMMA UploadInvInit == Init => UploadInv
<1> SUFFICES ASSUME Init PROVE UploadInv
  OBVIOUS
<1>1. TypeOK
  BY FaultsAssumption DEF Init, TypeOK, Phases, FaultsAssumption
<1>2. \A u \in Uploads : Progress(u)
  BY DEF Init, Progress, HasVersion
<1>3. KeysHeld /\ ListingSeen /\ (listing.document = None => listing.count = 0)
  BY DEF Init, KeysHeld, ListingSeen
<1>4. RowsUnique
  BY FS_EmptySet DEF Init, RowsUnique
<1>5. VersionsChain
  <2>1. ASSUME NEW d \in Uploads
        PROVE  /\ {v.version_number : v \in VersionsOf(d)} = 1..Cardinality(VersionsOf(d))
               /\ documents[d] # None <=> VersionsOf(d) # {}
    <3>1. VersionsOf(d) = {} /\ documents[d] = None
      BY DEF Init, VersionsOf
    <3>2. Cardinality(VersionsOf(d)) = 0
      BY <3>1, FS_EmptySet
    <3> QED
      BY <3>1, <3>2
  <2> QED
    BY <2>1 DEF VersionsChain, Init
<1> QED
  BY <1>1, <1>2, <1>3, <1>4, <1>5 DEF UploadInv

LEMMA UploadInvStep == UploadInv /\ [Next]_vars => UploadInv'
<1> SUFFICES ASSUME UploadInv, [Next]_vars PROVE UploadInv'
  OBVIOUS
<1>1. ASSUME NEW u \in Uploads, NEW t \in DocumentTypes, uploadDocument(u, t)
      PROVE  UploadInv'
  BY <1>1, UploadDocumentKeeps
<1>2. ASSUME NEW u \in Uploads, Proceed(u)
      PROVE  UploadInv'
  BY <1>2, SaveFileKeeps, FindOrCreateKeeps, FindLatestKeeps, InsertVersionKeeps,
     CommitEffect, CommittedKeeps, HandleErrorKeeps, RespondKeeps DEF Proceed
<1>3. ASSUME NEW u \in Uploads, Fails(u)
      PROVE  UploadInv'
  BY <1>3, SaveFailsKeeps, TransactionFailsKeeps, CommitEffect, CommittedKeeps,
     RemoveFailsKeeps DEF Fails
<1>4. CASE UNCHANGED vars
  <2>1. UNCHANGED <<files, rows, phase, locals, faults, unacknowledged>>
        /\ listing' = listing /\ versions' = versions
    BY <1>4 DEF vars, rows
  <2>2. ListingSeen' /\ (listing'.document = None => listing'.count = 0)
    BY <2>1 DEF UploadInv, ListingSeen, VersionsOf
  <2>3. listing' \in [document : Uploads \cup {None}, latest : Nat, count : Nat]
    BY <2>1 DEF UploadInv, TypeOK
  <2> QED
    BY <2>1, <2>2, <2>3, ListingKeeps
<1> QED
  BY <1>1, <1>2, <1>3, <1>4, StopKeeps, ReadLatestKeeps, CountVersionsKeeps,
     AnswerListingKeeps DEF Next

LEMMA UploadInvAlways == Spec => []UploadInv
<1> QED
  BY UploadInvInit, UploadInvStep, PTL DEF Spec

-----------------------------------------------------------------------------

(* Rows, files and what an upload has read keep their types                *)
(* (documents.repository.ts:95-261).                                      *)
THEOREM UploadTypes == Spec => []TypeOK
<1>1. UploadInv => TypeOK
  BY DEF UploadInv
<1> QED
  BY <1>1, UploadInvAlways, PTL

(* Concurrent uploads number the versions of a document 1, 2, 3, ...       *)
(* though they read the latest version without a lock                      *)
(* (documents.repository.ts:174-199).                                      *)
THEOREM ChainHolds == Spec => []VersionsChain
<1>1. UploadInv => VersionsChain
  BY DEF UploadInv
<1> QED
  BY <1>1, UploadInvAlways, PTL

(* No version is without its file, and no file without a version is left   *)
(* behind, unless a fault intervened (documents.repository.ts:227-232).    *)
THEOREM FilesFollowVersions == Spec => []FilesMatchVersions
<1>1. UploadInv => FilesMatchVersions
  <2> SUFFICES ASSUME UploadInv PROVE FilesMatchVersions
    OBVIOUS
  <2>1. TypeOK /\ \A u \in Uploads : Progress(u)
    BY DEF UploadInv
  <2>2. ASSUME NEW v \in versions
        PROVE  v.file \in files \cup unacknowledged
    <3>1. v.file \in Uploads /\ HasVersion(v.file)
      BY <2>1 DEF TypeOK, Versions, HasVersion
    <3> QED
      BY <2>1, <3>1 DEF Progress
  <2>3. ASSUME NEW f \in files
        PROVE  \/ \E v \in versions : v.file = f
               \/ Running(f)
               \/ phase[f] \in {"leaked", "stopped"}
    <3>1. f \in Uploads /\ Progress(f) /\ phase[f] \in Phases
      BY <2>1 DEF TypeOK
    <3> QED
      BY <3>1 DEF Progress, HasVersion, Running, Phases
  <2> QED
    BY <2>2, <2>3 DEF FilesMatchVersions
<1> QED
  BY <1>1, UploadInvAlways, PTL

(* A client told that its document is stored finds the file and exactly    *)
(* one version (documents.repository.ts:204-226).                          *)
THEOREM AcknowledgedKept == Spec => []AcknowledgedUploadsKept
<1>1. UploadInv => AcknowledgedUploadsKept
  <2> SUFFICES ASSUME UploadInv, NEW u \in Uploads, phase[u] = "stored"
               PROVE  /\ u \in files
                      /\ Cardinality({v \in versions : v.file = u}) = 1
    BY DEF AcknowledgedUploadsKept
  <2>1. u \in files /\ HasVersion(u)
    BY DEF UploadInv, Progress
  <2>2. PICK v \in versions : v.file = u
    BY <2>1 DEF HasVersion
  <2>3. {w \in versions : w.file = u} = {v}
    BY <2>2 DEF UploadInv, RowsUnique
  <2>4. Cardinality({v}) = 1
    BY FS_Singleton
  <2> QED
    BY <2>1, <2>3, <2>4
<1> QED
  BY <1>1, UploadInvAlways, PTL

(* The list of documents reads the latest version first and the count      *)
(* after it, and never shows fewer versions than the latest has            *)
(* (documents.repository.ts:274-313).                                      *)
THEOREM CountCoversLatest == Spec => []ListedCountCoversLatest
<1>1. UploadInv => ListedCountCoversLatest
  <2> SUFFICES ASSUME UploadInv, listing.count > 0 PROVE listing.count >= listing.latest
    BY DEF ListedCountCoversLatest
  <2>1. listing.count # 0
    BY DEF UploadInv, TypeOK
  <2> QED
    BY <2>1 DEF UploadInv, ListingSeen
<1> QED
  BY <1>1, UploadInvAlways, PTL

-----------------------------------------------------------------------------
(* The versions of a document, in the order of their numbers.              *)

FilesInOrder(V) ==
  [n \in 1..Cardinality(V) |-> (CHOOSE v \in V : v.version_number = n).file]

(* Versions that are numbered without gap or repetition.                   *)
Numbered(V) ==
  /\ V \subseteq Versions /\ IsFiniteSet(V)
  /\ {v.version_number : v \in V} = 1..Cardinality(V)
  /\ \A v, w \in V : v.version_number = w.version_number => v = w

LEMMA FilesOfNumbered ==
  ASSUME NEW V, Numbered(V)
  PROVE  /\ FilesInOrder(V) \in Seq(Uploads)
         /\ Len(FilesInOrder(V)) = Cardinality(V)
         /\ \A v \in V :
              /\ v.version_number \in 1..Cardinality(V)
              /\ FilesInOrder(V)[v.version_number] = v.file
<1> DEFINE k == Cardinality(V)
           Nth(n) == CHOOSE v \in V : v.version_number = n
<1>1. k \in Nat
  BY FS_CardinalityType DEF Numbered
<1>2. ASSUME NEW n \in 1..k PROVE Nth(n) \in V /\ Nth(n).version_number = n
  <2>1. \E v \in V : v.version_number = n
    BY DEF Numbered
  <2> QED
    BY <2>1
<1>3. ASSUME NEW v \in V
      PROVE  v.version_number \in 1..k /\ Nth(v.version_number) = v
  <2>1. v.version_number \in 1..k
    BY DEF Numbered
  <2> HIDE DEF Nth, k
  <2>2. Nth(v.version_number) \in V /\ Nth(v.version_number).version_number = v.version_number
    BY <1>2, <2>1
  <2> QED
    BY <2>1, <2>2 DEF Numbered
<1>4. FilesInOrder(V) = [n \in 1..k |-> Nth(n).file]
  BY DEF FilesInOrder
<1> HIDE DEF Nth, k
<1>5. \A n \in 1..k : Nth(n).file \in Uploads
  <2>1. \A n \in 1..k : Nth(n) \in Versions
    BY <1>2 DEF Numbered
  <2> QED
    BY <2>1 DEF Versions
<1>6. FilesInOrder(V) \in [1..k -> Uploads]
  BY <1>4, <1>5
<1>7. FilesInOrder(V) \in Seq(Uploads) /\ DOMAIN FilesInOrder(V) = 1..k
  BY <1>1, <1>6, SeqDef
<1>8. Len(FilesInOrder(V)) = k
  BY <1>1, <1>7, LenProperties
<1>9. \A v \in V : FilesInOrder(V)[v.version_number] = v.file
  BY <1>3, <1>4
<1> QED
  BY <1>3, <1>7, <1>8, <1>9 DEF k

LEMMA AppendedVersion ==
  ASSUME NEW V, NEW r, Numbered(V), Numbered(V \cup {r}), r \notin V,
         r.version_number = Cardinality(V) + 1
  PROVE  FilesInOrder(V \cup {r}) = Append(FilesInOrder(V), r.file)
<1> DEFINE W == V \cup {r}
           old == FilesInOrder(V)
           new == FilesInOrder(V \cup {r})
           k == Cardinality(V)
<1>1. k \in Nat /\ Cardinality(W) = k + 1
  BY FS_CardinalityType, FS_AddElement DEF Numbered
<1>2. /\ old \in Seq(Uploads) /\ Len(old) = k
      /\ \A v \in V : v.version_number \in 1..k /\ old[v.version_number] = v.file
  BY FilesOfNumbered
<1>3. /\ new \in Seq(Uploads) /\ Len(new) = k + 1
      /\ \A v \in W : new[v.version_number] = v.file
  BY <1>1, FilesOfNumbered
<1>4. r.file \in Uploads /\ r.version_number = k + 1
  BY DEF Numbered, Versions
<1>5. {v.version_number : v \in V} = 1..k
  BY DEF Numbered
<1> HIDE DEF old, new, k
<1>6. Append(old, r.file) \in Seq(Uploads) /\ Len(Append(old, r.file)) = k + 1
  BY <1>1, <1>2, <1>4
<1>7. ASSUME NEW n \in 1..(k + 1)
      PROVE  new[n] = Append(old, r.file)[n]
  <2>1. CASE n = k + 1
    BY <1>1, <1>2, <1>3, <1>4, <2>1
  <2>2. CASE n # k + 1
    <3>1. n \in 1..k
      BY <1>1, <2>2
    <3>2. PICK v \in V : v.version_number = n
      BY <1>5, <3>1
    <3>3. old[n] = v.file /\ new[n] = v.file
      BY <1>2, <1>3, <3>2
    <3>4. Append(old, r.file)[n] = old[n]
      BY <1>1, <1>2, <1>4, <3>1
    <3> QED
      BY <3>3, <3>4
  <2> QED
    BY <2>1, <2>2
<1>8. new = Append(old, r.file)
  BY <1>3, <1>6, <1>7, SeqEqual
<1> QED
  BY <1>8 DEF old, new

LEMMA DocumentsNumbered ==
  ASSUME UploadInv, NEW d \in Uploads
  PROVE  Numbered(VersionsOf(d)) /\ History(d) = FilesInOrder(VersionsOf(d))
<1>1. VersionsOf(d) \subseteq Versions /\ VersionsOf(d) \subseteq versions
  BY DEF UploadInv, TypeOK, VersionsOf
<1>2. IsFiniteSet(VersionsOf(d))
  BY <1>1, FS_Subset DEF UploadInv, RowsUnique
<1>3. {v.version_number : v \in VersionsOf(d)} = 1..Cardinality(VersionsOf(d))
  BY DEF UploadInv, VersionsChain
<1>4. \A v, w \in VersionsOf(d) : v.version_number = w.version_number => v = w
  BY DEF UploadInv, RowsUnique, VersionsOf
<1>5. History(d) = FilesInOrder(VersionsOf(d))
  BY DEF History, FilesInOrder
<1> QED
  BY <1>1, <1>2, <1>3, <1>4, <1>5 DEF Numbered

(* What the archive calls stored are the uploads that have a version.      *)
LEMMA StoredHaveVersions ==
  ASSUME UploadInv, NEW u \in Uploads
  PROVE  u \in Archive!Stored <=> HasVersion(u)
<1> DEFINE H == [d \in Uploads |-> History(d)]
<1>1. Archive!Stored = UNION {{H[d][n] : n \in 1..Len(H[d])} : d \in Uploads}
  BY DEF Archive!Stored
<1>2. ASSUME NEW d \in Uploads
      PROVE  \A n \in 1..Len(H[d]) : \E v \in VersionsOf(d) : H[d][n] = v.file
  <2>1. /\ H[d] = FilesInOrder(VersionsOf(d)) /\ Numbered(VersionsOf(d))
        /\ Len(H[d]) = Cardinality(VersionsOf(d))
        /\ \A v \in VersionsOf(d) : H[d][v.version_number] = v.file
    BY DocumentsNumbered, FilesOfNumbered
  <2> HIDE DEF H
  <2> QED
    BY <2>1 DEF Numbered
<1>3. ASSUME NEW d \in Uploads
      PROVE  \A v \in VersionsOf(d) : \E n \in 1..Len(H[d]) : H[d][n] = v.file
  <2>1. /\ H[d] = FilesInOrder(VersionsOf(d)) /\ Numbered(VersionsOf(d))
        /\ Len(H[d]) = Cardinality(VersionsOf(d))
        /\ \A v \in VersionsOf(d) :
             /\ v.version_number \in 1..Cardinality(VersionsOf(d))
             /\ H[d][v.version_number] = v.file
    BY DocumentsNumbered, FilesOfNumbered
  <2> HIDE DEF H
  <2> QED
    BY <2>1
<1> HIDE DEF H
<1>4. u \in Archive!Stored <=> \E d \in Uploads : \E n \in 1..Len(H[d]) : H[d][n] = u
  BY <1>1
<1>5. HasVersion(u) <=> \E d \in Uploads : \E v \in VersionsOf(d) : v.file = u
  BY DEF HasVersion, VersionsOf, UploadInv, TypeOK, Versions
<1> QED
  BY <1>2, <1>3, <1>4, <1>5

-----------------------------------------------------------------------------
(* Initial states and steps of the archive.                                *)

Histories == [d \in Uploads |-> History(d)]
Acknowledged == {u \in Uploads : phase[u] = "stored"}

LEMMA ArchiveInit == Init => Archive!Init
<1> SUFFICES ASSUME Init PROVE Archive!Init
  OBVIOUS
<1>1. UploadInv
  BY UploadInvInit
<1>2. ASSUME NEW d \in Uploads PROVE History(d) = << >>
  <2>1. VersionsOf(d) = {}
    BY DEF Init, VersionsOf
  <2>2. Cardinality(VersionsOf(d)) = 0
    BY <2>1, FS_EmptySet
  <2>3. History(d) \in Seq(Uploads) /\ Len(History(d)) = 0
    BY <1>1, <2>2, DocumentsNumbered, FilesOfNumbered
  <2> QED
    BY <2>3, EmptySeq
<1>3. Histories = [d \in Uploads |-> << >>]
  BY <1>2 DEF Histories
<1>4. Acknowledged = {}
  BY DEF Init, Acknowledged
<1> QED
  BY <1>3, <1>4 DEF Archive!Init, Histories, Acknowledged

(* A COMMIT is one step of the archive.                                    *)
LEMMA CommitStores ==
  ASSUME UploadInv, UploadInv', NEW u \in Uploads, Committed(u)
  PROVE  Archive!Next
<1> DEFINE d == target[u]
           V == VersionsOf(target[u])
<1>1. TypeOK /\ phase[u] = "committing" /\ OthersUntouched(u)
  BY DEF UploadInv, Committed
<1>2. /\ d \in Uploads /\ number[u] = Cardinality(V) + 1
      /\ Row(u).file = u /\ Row(u).version_number = number[u]
  BY <1>1, NextNumber DEF Row
<1>3. /\ V' = V \cup {Row(u)} /\ Row(u) \notin V
      /\ \A e \in Uploads : e # d => VersionsOf(e)' = VersionsOf(e)
      /\ target' = target
  BY CommittedRows DEF Committed, locals
<1>4. Numbered(V) /\ History(d) = FilesInOrder(V)
  BY <1>2, DocumentsNumbered
<1>5. ASSUME NEW e \in Uploads
      PROVE  Numbered(VersionsOf(e)') /\ History(e)' = FilesInOrder(VersionsOf(e)')
  <2>1. VersionsOf(e)' \subseteq Versions /\ VersionsOf(e)' \subseteq versions'
    BY DEF UploadInv, TypeOK, VersionsOf
  <2>2. IsFiniteSet(VersionsOf(e)')
    BY <2>1, FS_Subset DEF UploadInv, RowsUnique
  <2>3. {v.version_number : v \in VersionsOf(e)'} = 1..Cardinality(VersionsOf(e)')
    BY DEF UploadInv, VersionsChain
  <2>4. \A v, w \in VersionsOf(e)' : v.version_number = w.version_number => v = w
    BY DEF UploadInv, RowsUnique, VersionsOf
  <2>5. History(e)' = FilesInOrder(VersionsOf(e)')
    BY DEF History, FilesInOrder
  <2> QED
    BY <2>1, <2>2, <2>3, <2>4, <2>5 DEF Numbered
<1>6. ASSUME NEW e \in Uploads, e = d PROVE History(e)' = Append(History(e), u)
  <2>1. VersionsOf(e)' = V \cup {Row(u)} /\ History(e) = FilesInOrder(V)
    BY <1>3, <1>4, <1>6 DEF VersionsOf
  <2>2. Numbered(V \cup {Row(u)}) /\ History(e)' = FilesInOrder(V \cup {Row(u)})
    BY <1>5, <2>1
  <2> HIDE DEF V, d
  <2>3. FilesInOrder(V \cup {Row(u)}) = Append(FilesInOrder(V), u)
    BY <1>2, <1>3, <1>4, <2>2, AppendedVersion
  <2> QED
    BY <2>1, <2>2, <2>3
<1>7. ASSUME NEW e \in Uploads, e # d PROVE History(e)' = History(e)
  <2>1. VersionsOf(e)' = VersionsOf(e)
    BY <1>3, <1>7
  <2> QED
    BY <2>1 DEF History
<1> HIDE DEF d
<1>8. Histories' = [Histories EXCEPT ![d] = Append(Histories[d], u)]
  <2>1. \A e \in Uploads :
          History(e)' = IF e = d THEN Append(History(e), u) ELSE History(e)
    BY <1>6, <1>7
  <2>2. Histories' = [e \in Uploads |-> IF e = d THEN Append(History(e), u) ELSE History(e)]
    BY <2>1 DEF Histories
  <2> QED
    BY <1>2, <2>2 DEF Histories
<1>9. Acknowledged' = Acknowledged
  BY <1>1 DEF Acknowledged, OthersUntouched, Untouched, Committed
<1>10. u \notin Archive!Stored
  BY <1>1, StoredHaveVersions DEF UploadInv, Progress
<1>11. Archive!Store(u, d)
  BY <1>8, <1>9, <1>10 DEF Archive!Store, Histories, Acknowledged
<1> QED
  BY <1>2, <1>11 DEF Archive!Next

(* The answer to a stored upload acknowledges it.                          *)
LEMMA RespondAcknowledges ==
  ASSUME UploadInv, NEW u \in Uploads, respond(u)
  PROVE  Archive!Next
<1>1. /\ TypeOK /\ Progress(u) /\ phase[u] = "invalidating"
      /\ phase' = [phase EXCEPT ![u] = "stored"]
      /\ versions' = versions
  BY DEF UploadInv, respond, invalidateApplicationReadCaches, Goto, rows
<1>2. Acknowledged' = Acknowledged \cup {u} /\ u \notin Acknowledged
  BY <1>1 DEF TypeOK, Acknowledged
<1>3. \A d \in Uploads : VersionsOf(d)' = VersionsOf(d)
  BY <1>1 DEF VersionsOf
<1>4. ASSUME NEW d \in Uploads PROVE History(d)' = History(d)
  <2>1. VersionsOf(d)' = VersionsOf(d)
    BY <1>3
  <2> QED
    BY <2>1 DEF History
<1>5. Histories' = Histories
  BY <1>4 DEF Histories
<1>6. u \in Archive!Stored
  BY <1>1, StoredHaveVersions DEF Progress
<1>7. Archive!Acknowledge(u)
  BY <1>2, <1>5, <1>6 DEF Archive!Acknowledge, Histories, Acknowledged
<1> QED
  BY <1>7 DEF Archive!Next

(* Every other step leaves what the archive sees as it was.                *)
LEMMA OthersStutter ==
  ASSUME versions' = versions, Acknowledged' = Acknowledged
  PROVE  UNCHANGED Archive!vars
<1>1. \A d \in Uploads : VersionsOf(d)' = VersionsOf(d)
  BY DEF VersionsOf
<1>2. ASSUME NEW d \in Uploads PROVE History(d)' = History(d)
  <2>1. VersionsOf(d)' = VersionsOf(d)
    BY <1>1
  <2> QED
    BY <2>1 DEF History
<1>3. Histories' = Histories
  BY <1>2 DEF Histories
<1> QED
  BY <1>3 DEF Archive!vars, Histories, Acknowledged

LEMMA MoveStutters ==
  ASSUME TypeOK, NEW u \in Uploads, NEW p \in Phases \ {"stored"}, Goto(u, p),
         phase[u] # "stored", versions' = versions
  PROVE  UNCHANGED Archive!vars
<1>1. Acknowledged' = Acknowledged
  BY DEF TypeOK, Goto, Acknowledged
<1> QED
  BY <1>1, OthersStutter

LEMMA ArchiveStep ==
  ASSUME UploadInv, [Next]_vars
  PROVE  [Archive!Next]_Archive!vars
<1>1. UploadInv' /\ TypeOK
  BY UploadInvStep DEF UploadInv
<1>2. ASSUME NEW u \in Uploads, NEW t \in DocumentTypes, uploadDocument(u, t)
      PROVE  UNCHANGED Archive!vars
  BY <1>1, <1>2, MoveStutters DEF uploadDocument, rows, Phases
<1>3. ASSUME NEW u \in Uploads, Proceed(u)
      PROVE  [Archive!Next]_Archive!vars
  <2>1. CASE saveFile(u)
    BY <1>1, <2>1, MoveStutters DEF saveFile, rows, Phases
  <2>2. CASE findOrCreateDocument(u)
    BY <1>1, <2>2, MoveStutters DEF findOrCreateDocument, rows, Phases
  <2>3. CASE findLatestVersion(u)
    BY <1>1, <2>3, MoveStutters DEF findLatestVersion, rows, Phases
  <2>4. CASE insertVersion(u)
    BY <1>1, <2>4, MoveStutters DEF insertVersion, rows, Phases
  <2>5. CASE commit(u)
    BY <1>1, <2>5, CommitEffect, CommitStores
  <2>6. CASE handleError(u)
    BY <1>1, <2>6, MoveStutters DEF handleError, rows, Phases
  <2>7. CASE respond(u)
    BY <2>7, RespondAcknowledges
  <2> QED
    BY <1>3, <2>1, <2>2, <2>3, <2>4, <2>5, <2>6, <2>7 DEF Proceed
<1>4. ASSUME NEW u \in Uploads, Fails(u)
      PROVE  [Archive!Next]_Archive!vars
  <2>1. CASE saveFails(u)
    BY <1>1, <2>1, MoveStutters DEF saveFails, rows, Phases
  <2>2. CASE transactionFails(u)
    BY <1>1, <2>2, MoveStutters DEF transactionFails, rows, Phases
  <2>3. CASE commitUnacknowledged(u)
    BY <1>1, <2>3, CommitEffect, CommitStores
  <2>4. CASE removeFails(u)
    BY <1>1, <2>4, MoveStutters DEF removeFails, rows, Phases
  <2> QED
    BY <1>4, <2>1, <2>2, <2>3, <2>4 DEF Fails
<1>5. CASE stop
  <2>1. Acknowledged' = Acknowledged
    BY <1>5 DEF stop, Acknowledged, Running
  <2> QED
    BY <1>5, <2>1, OthersStutter DEF stop, rows
<1>6. ASSUME UNCHANGED <<rows, phase>> PROVE UNCHANGED Archive!vars
  <2>1. Acknowledged' = Acknowledged /\ versions' = versions
    BY <1>6 DEF Acknowledged, rows
  <2> QED
    BY <2>1, OthersStutter
<1>7. ASSUME \/ \E d \in Uploads : readLatest(d)
             \/ countVersions
             \/ answerListing
             \/ UNCHANGED vars
      PROVE  UNCHANGED Archive!vars
  BY <1>6, <1>7 DEF readLatest, countVersions, answerListing, vars
<1> QED
  BY <1>2, <1>3, <1>4, <1>5, <1>7 DEF Next

(* With its unlocked reads, its crashes and its lost answers the upload    *)
(* handler appends one version at a time, and answers with success only    *)
(* after it did (documents.repository.ts:154-226).                         *)
THEOREM ArchiveImplemented == Spec => ImplementsArchive
<1>1. UploadInv /\ [Next]_vars => [Archive!Next]_Archive!vars
  BY ArchiveStep
<1> QED
  BY <1>1, ArchiveInit, UploadInvAlways, PTL DEF Spec, ImplementsArchive

=============================================================================
