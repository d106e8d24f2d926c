--------------------------- MODULE DocumentUpload --------------------------
(***************************************************************************)
(* POST /applications/:id/documents (documents.repository.ts) for one      *)
(* application, from the moment its checks have passed: the file goes to   *)
(* the disk (document-storage.service.ts), its metadata to PostgreSQL in a *)
(* READ COMMITTED transaction, and a failure removes the file again.       *)
(* Every statement of the transaction is a step; what it wrote is visible  *)
(* to others after COMMIT.  A document and a version are named after the   *)
(* upload that creates them, and so is the stored file, whose name is a    *)
(* fresh UUID.  GET .../documents reads the version and the count of a     *)
(* document with two queries.                                              *)
(***************************************************************************)
EXTENDS Naturals, FiniteSets

CONSTANTS
  Uploads,        \* upload requests
  DocumentTypes,
  MaxFaults,      \* bound: failing commands and stops of the process
  None

ASSUME UploadsAssumption == IsFiniteSet(Uploads) /\ None \notin Uploads
ASSUME TypesAssumption == None \notin DocumentTypes
ASSUME FaultsAssumption == MaxFaults \in Nat

(* Columns of document_versions.                                           *)
Versions ==
  [document : Uploads, version_number : Nat \ {0}, file : Uploads,
   supersedes : Uploads \cup {None}]

Phases ==
  {"idle", "saving", "finding", "numbering", "inserting", "committing",
   "cleaning", "invalidating", "stored", "failed", "leaked", "stopped"}

VARIABLES
  files,      \* stored files on disk
  documents,  \* documents[d]: the type of the committed row d, or None
  versions,   \* the committed rows of document_versions
  phase,      \* phase[u]: where upload u is
  request,    \* request[u]: its document type, or None
  target,     \* target[u]: the document it found or creates, or None
  latest,     \* latest[u]: the version it supersedes, or None
  number,     \* number[u]: nextVersionNumber, 0 when not yet known
  listing,    \* a GET in progress: the document and the latest version read
  faults,     \* how many faults there were
  unacknowledged  \* uploads whose COMMIT took effect but reported a failure

rows == <<documents, versions>>
locals == <<request, target, latest, number>>
vars == <<files, rows, phase, locals, listing, faults, unacknowledged>>

TypeOK ==
  /\ files \subseteq Uploads
  /\ documents \in [Uploads -> DocumentTypes \cup {None}]
  /\ versions \subseteq Versions
  /\ phase \in [Uploads -> Phases]
  /\ request \in [Uploads -> DocumentTypes \cup {None}]
  /\ target \in [Uploads -> Uploads \cup {None}]
  /\ latest \in [Uploads -> Uploads \cup {None}]
  /\ number \in [Uploads -> Nat]
  /\ listing \in [document : Uploads \cup {None}, latest : Nat, count : Nat]
  /\ faults \in 0..MaxFaults
  /\ unacknowledged \subseteq Uploads
  /\ \A u \in Uploads :
       phase[u] \in {"inserting", "committing"} => target[u] # None

Init ==
  /\ files = {}
  /\ documents = [u \in Uploads |-> None]
  /\ versions = {}
  /\ phase = [u \in Uploads |-> "idle"]
  /\ request = [u \in Uploads |-> None]
  /\ target = [u \in Uploads |-> None]
  /\ latest = [u \in Uploads |-> None]
  /\ number = [u \in Uploads |-> 0]
  /\ listing = [document |-> None, latest |-> 0, count |-> 0]
  /\ faults = 0
  /\ unacknowledged = {}

VersionsOf(d) == {v \in versions : v.document = d}

Goto(u, p) == phase' = [phase EXCEPT ![u] = p]

Fault == faults < MaxFaults /\ faults' = faults + 1

-----------------------------------------------------------------------------

(* The request passed its checks: owner, editable state, non-empty file.   *)
uploadDocument(u, t) ==
  /\ phase[u] = "idle"
  /\ Goto(u, "saving")
  /\ request' = [request EXCEPT ![u] = t]
  /\ UNCHANGED <<files, rows, target, latest, number, listing, faults, unacknowledged>>

saveFile(u) ==
  /\ phase[u] = "saving"
  /\ Goto(u, "finding")
  /\ files' = files \cup {u}
  /\ UNCHANGED <<rows, locals, listing, faults, unacknowledged>>

(* The write or the stat after it fails: storedFilename is not yet         *)
(* assigned, so what was written is not removed.                           *)
saveFails(u) ==
  /\ Fault
  /\ phase[u] = "saving"
  /\ \/ Goto(u, "failed") /\ UNCHANGED files
     \/ Goto(u, "leaked") /\ files' = files \cup {u}
  /\ UNCHANGED <<rows, locals, listing, unacknowledged>>

(* Committed documents of the requested type; findOne has no ORDER BY.     *)
Candidates(u) == {d \in Uploads : documents[d] = request[u]}

(* BEGIN, then find the document or insert a new one.                      *)
findOrCreateDocument(u) ==
  /\ phase[u] = "finding"
  /\ \E d \in IF Candidates(u) = {} THEN {u} ELSE Candidates(u) :
       target' = [target EXCEPT ![u] = d]
  /\ Goto(u, "numbering")
  /\ UNCHANGED <<files, rows, request, latest, number, listing, faults, unacknowledged>>

(* The committed version with the highest number, if any.                  *)
Newest(d) ==
  {v \in VersionsOf(d) : \A w \in VersionsOf(d) : w.version_number <= v.version_number}

findLatestVersion(u) ==
  /\ phase[u] = "numbering"
  /\ IF Newest(target[u]) = {}
     THEN /\ latest' = [latest EXCEPT ![u] = None]
          /\ number' = [number EXCEPT ![u] = 1]
     ELSE \E v \in Newest(target[u]) :
            /\ latest' = [latest EXCEPT ![u] = v.file]
            /\ number' = [number EXCEPT ![u] = v.version_number + 1]
  /\ Goto(u, "inserting")
  /\ UNCHANGED <<files, rows, request, target, listing, faults, unacknowledged>>

(* Mutant: waits also for uploads that have only read.                     *)
Blocked_Mutual(u) ==
  \E w \in Uploads \ {u} :
    /\ phase[w] \in {"inserting", "committing"}
    /\ target[w] = target[u] /\ number[w] = number[u]

(* Another transaction has inserted the same (document_id, version_number) *)
(* and not ended: the unique index makes this INSERT wait.                 *)
Blocked(u) ==
  \E w \in Uploads \ {u} :
    phase[w] = "committing" /\ target[w] = target[u] /\ number[w] = number[u]

(* Mutant: no unique index.                                                *)
Taken_Never(u) == FALSE

Taken(u) == \E v \in VersionsOf(target[u]) : v.version_number = number[u]

(* Mutant: a violated unique key is taken for success.                     *)
insertVersion_Ignored(u) ==
  /\ phase[u] = "inserting"
  /\ ~Blocked(u)
  /\ Goto(u, IF Taken(u) THEN "invalidating" ELSE "committing")
  /\ UNCHANGED <<files, rows, locals, listing, faults, unacknowledged>>

(* INSERT INTO document_versions; a violated unique key rolls back.        *)
insertVersion(u) ==
  /\ phase[u] = "inserting"
  /\ ~Blocked(u)
  /\ Goto(u, IF Taken(u) THEN "cleaning" ELSE "committing")
  /\ UNCHANGED <<files, rows, locals, listing, faults, unacknowledged>>

(* Mutant: the version takes the number it was read with.                  *)
Row_NotIncremented(u) ==
  [document |-> target[u], version_number |-> number[u] - 1, file |-> u,
   supersedes |-> latest[u]]

Row(u) ==
  [document |-> target[u], version_number |-> number[u], file |-> u,
   supersedes |-> latest[u]]

(* Mutant: the document keeps its newest version only.                     *)
Commit_InPlace(u) ==
  /\ versions' = (versions \ VersionsOf(target[u]))
                 \cup {[Row(u) EXCEPT !.version_number = 1]}
  /\ documents' = IF target[u] = u
                  THEN [documents EXCEPT ![u] = request[u]]
                  ELSE documents

(* The version of u becomes visible, and its document if u created it.     *)
Commit(u) ==
  /\ versions' = versions \cup {Row(u)}
  /\ documents' = IF target[u] = u
                  THEN [documents EXCEPT ![u] = request[u]]
                  ELSE documents

commit(u) ==
  /\ phase[u] = "committing"
  /\ Commit(u)
  /\ Goto(u, "invalidating")
  /\ UNCHANGED <<files, locals, listing, faults, unacknowledged>>

(* A statement or COMMIT fails; the transaction is rolled back.            *)
transactionFails(u) ==
  /\ Fault
  /\ phase[u] \in {"finding", "numbering", "inserting", "committing"}
  /\ Goto(u, "cleaning")
  /\ UNCHANGED <<files, rows, locals, listing, unacknowledged>>

(* COMMIT takes effect but the connection is lost before the answer.       *)
commitUnacknowledged(u) ==
  /\ Fault
  /\ phase[u] = "committing"
  /\ Commit(u)
  /\ Goto(u, "cleaning")
  /\ unacknowledged' = unacknowledged \cup {u}
  /\ UNCHANGED <<files, locals, listing>>

removeFile(u) == files' = files \ {u}

(* The catch block; the request is answered with an error.                 *)
handleError(u) ==
  /\ phase[u] = "cleaning"
  /\ removeFile(u)
  /\ Goto(u, "failed")
  /\ UNCHANGED <<rows, locals, listing, faults, unacknowledged>>

(* An error of removeFile is ignored.                                      *)
removeFails(u) ==
  /\ Fault
  /\ phase[u] = "cleaning"
  /\ Goto(u, "leaked")
  /\ UNCHANGED <<files, rows, locals, listing, unacknowledged>>

(* Mutant: an error of Redis ends in the catch block.                      *)
invalidateApplicationReadCaches_Throws(u) == Goto(u, "stored") \/ Goto(u, "cleaning")

(* Errors of Redis are swallowed (application-cache.helper.ts).            *)
invalidateApplicationReadCaches(u) == Goto(u, "stored")

respond(u) ==
  /\ phase[u] = "invalidating"
  /\ invalidateApplicationReadCaches(u)
  /\ UNCHANGED <<files, rows, locals, listing, faults, unacknowledged>>

Running(u) == phase[u] \notin {"idle", "stored", "failed", "leaked", "stopped"}

(* The process stops: open transactions are rolled back.  A COMMIT that    *)
(* had reached the database is a step of commit before this one.           *)
stop ==
  /\ Fault
  /\ phase' = [u \in Uploads |-> IF Running(u) THEN "stopped" ELSE phase[u]]
  /\ listing' = [document |-> None, latest |-> 0, count |-> 0]
  /\ UNCHANGED <<files, rows, locals, unacknowledged>>

(* The list handler reads the latest version of a document ...             *)
readLatest(d) ==
  /\ documents[d] # None
  /\ listing.document = None
  /\ \E v \in Newest(d) :
       listing' = [document |-> d, latest |-> v.version_number, count |-> 0]
  /\ UNCHANGED <<files, rows, phase, locals, faults, unacknowledged>>

(* Mutant: counts the versions superseded by a later one.                  *)
VersionsCount_Superseded(d) == Cardinality({v \in VersionsOf(d) : v.supersedes # None})

VersionsCount(d) == Cardinality(VersionsOf(d))

(* ... and then counts its versions.                                       *)
countVersions ==
  /\ listing.document # None
  /\ listing.count = 0
  /\ listing' = [listing EXCEPT !.count = VersionsCount(listing.document)]
  /\ UNCHANGED <<files, rows, phase, locals, faults, unacknowledged>>

answerListing ==
  /\ listing.count > 0
  /\ listing' = [document |-> None, latest |-> 0, count |-> 0]
  /\ UNCHANGED <<files, rows, phase, locals, faults, unacknowledged>>

Proceed(u) ==
  \/ saveFile(u)
  \/ findOrCreateDocument(u)
  \/ findLatestVersion(u)
  \/ insertVersion(u)
  \/ commit(u)
  \/ handleError(u)
  \/ respond(u)

Fails(u) ==
  \/ saveFails(u)
  \/ transactionFails(u)
  \/ commitUnacknowledged(u)
  \/ removeFails(u)

Next ==
  \/ \E u \in Uploads, t \in DocumentTypes : uploadDocument(u, t)
  \/ \E u \in Uploads : Proceed(u) \/ Fails(u)
  \/ stop
  \/ \E d \in Uploads : readLatest(d)
  \/ countVersions
  \/ answerListing

(* The event loop continues every request it started; nobody has to upload.*)
Fairness == \A u \in Uploads : WF_vars(Proceed(u))

Spec == Init /\ [][Next]_vars /\ Fairness

-----------------------------------------------------------------------------

(* Concurrent uploads of one document are numbered 1, 2, 3, ... without    *)
(* gap or repetition, every version supersedes its predecessor, and no     *)
(* document is empty (documents.repository.ts:176-199 with the unique key  *)
(* of document_versions).                                                  *)
VersionsChain ==
  /\ \A d \in Uploads :
       /\ {v.version_number : v \in VersionsOf(d)} = 1..Cardinality(VersionsOf(d))
       /\ documents[d] # None <=> VersionsOf(d) # {}
  /\ \A v \in versions :
       IF v.version_number = 1
       THEN v.supersedes = None
       ELSE \E w \in VersionsOf(v.document) :
              /\ w.file = v.supersedes
              /\ w.version_number = v.version_number - 1

(* The disk and the database agree: a stored version has its file unless   *)
(* its COMMIT was reported as a failure, and a file without a version      *)
(* belongs to a running upload or to one that a fault cut short.           *)
FilesMatchVersions ==
  /\ \A v \in versions : v.file \in files \cup unacknowledged
  /\ \A f \in files :
       \/ \E v \in versions : v.file = f
       \/ Running(f)
       \/ phase[f] \in {"leaked", "stopped"}

(* An upload answered with success has its file and exactly one version.   *)
AcknowledgedUploadsKept ==
  \A u \in Uploads : phase[u] = "stored" =>
    /\ u \in files
    /\ Cardinality({v \in versions : v.file = u}) = 1

(* The list never shows a latest version above the number of versions,     *)
(* though it reads them with two queries.                                  *)
ListedCountCoversLatest == listing.count > 0 => listing.count >= listing.latest

(* Uploads that wait for each other's unique key all come to an answer.    *)
UploadsAnswered == \A u \in Uploads : Running(u) ~> ~Running(u)

(* The versions of each document, in the order of their numbers.           *)
History(d) ==
  [n \in 1..Cardinality(VersionsOf(d)) |->
     (CHOOSE v \in VersionsOf(d) : v.version_number = n).file]

Archive == INSTANCE VersionArchive WITH
  Documents <- Uploads,
  history <- [d \in Uploads |-> History(d)],
  acknowledged <- {u \in Uploads : phase[u] = "stored"}

(* With its unlocked reads the handler still appends one version at a time.*)
ImplementsArchive == Archive!Init /\ [][Archive!Next]_Archive!vars

=============================================================================
