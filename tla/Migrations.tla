----------------------------- MODULE Migrations ------------------------------
(***************************************************************************)
(* The schema of the database and the eight migrations that build it, run  *)
(* by umzug (database/migrate.js, umuzug.ts) on PostgreSQL.  A migration is*)
(* a list of statements without a transaction around them; it is recorded  *)
(* in SequelizeMeta when "up" has returned and removed from there when     *)
(* "down" has.  A statement may fail and the process may stop anywhere;    *)
(* some migrations log an error and return as if they had succeeded.       *)
(***************************************************************************)
EXTENDS Naturals, Sequences, FiniteSets, SequencesExt

CONSTANTS
  MaxFaults,   \* bound: failing statements and stops of the process
  MaxGaps      \* bound: migrations pending that are older than a recorded one

ASSUME BoundsAssumption == MaxFaults \in Nat /\ MaxGaps \in Nat

-----------------------------------------------------------------------------
(* Statements.  An object is named with the table it belongs to, a table   *)
(* with itself.  "demands" is what the statement finds an error without:   *)
(* the objects (to drop them, or their absence, to create them), their     *)
(* table, or nothing.  A table always demands the tables it refers to.     *)

Statement(do, demands, table, names) ==
  [do |-> do, demands |-> demands, table |-> table, names |-> names]

createTable(t) == Statement("create", "table", t, {t})
dropTable(t)   == Statement("drop", "nothing", t, {t})

(* Sequelize's CREATE INDEX and DROP INDEX IF EXISTS.                      *)
addIndex(t, name)    == Statement("create", "objects", t, {name})
removeIndex(t, name) == Statement("drop", "nothing", t, {name})

(* Mutant: does not look for the index.                                    *)
addIndexIfMissing_Always(t, name) == addIndex(t, name)

addIndexIfMissing(t, name) == Statement("create", "table", t, {name})

(* One ALTER TABLE IF EXISTS drops several, IF EXISTS.                     *)
addConstraintIfMissing(t, name) == Statement("create", "table", t, {name})
dropConstraints(t, names) == Statement("drop", "nothing", t, names)

(* A trigger and its function: CREATE OR REPLACE, DROP IF EXISTS.          *)
createTrigger(t, name) == Statement("create", "table", t, {name})
dropTrigger(t, name)   == Statement("drop", "nothing", t, {name})

addColumn(t, name)    == Statement("create", "objects", t, {name})
removeColumn(t, name) == Statement("drop", "objects", t, {name})

(* With hasColumn, which reads the table and fails without it.             *)
addColumnIfMissing(t, name)    == Statement("create", "table", t, {name})
removeColumnIfPresent(t, name) == Statement("drop", "table", t, {name})

(* The DO blocks that give documents.document_type another enum, casting   *)
(* the stored values as they are, or with the CASE from old names to new   *)
(* or back.                                                                *)
retype(values)    == Statement("retype", "nothing", "documents", values)
translate(values) == Statement("translate", "nothing", "documents", values)

(* The values the service writes: the core types and SUPPORTING_DOCUMENT.  *)
(* "old" stands for the values the core types had before the alignment.    *)
DocumentTypes == {"core", "supporting"}

-----------------------------------------------------------------------------
(* The migrations                                                          *)

AccountTables ==
  <<createTable("users"), addIndex("users", "users_email_key"),
    createTable("roles"), addIndex("roles", "roles_name_key"),
    createTable("user_roles")>>

ApplicationTables ==
  <<createTable("applications"),
    addIndex("applications", "applications_reference_number_key"),
    createTable("application_reviews"),
    addIndex("application_reviews", "application_reviews_application_id_cycle_number_key")>>

DocumentTables ==
  <<createTable("documents"), createTable("document_versions"),
    addIndex("document_versions", "document_versions_document_id_version_number_key")>>

AuditLogTable == <<createTable("audit_logs")>>

SessionTables ==
  <<createTable("sessions"), addIndex("sessions", "sessions_user_id_idx"),
    addIndex("sessions", "sessions_expires_at_idx"),
    createTable("auth_tokens"), addIndex("auth_tokens", "auth_tokens_token_hash_key"),
    addIndex("auth_tokens", "auth_tokens_user_type_created_at_idx"),
    addIndex("auth_tokens", "auth_tokens_type_expires_consumed_idx")>>

InitialSchemaUp ==
  AccountTables \o ApplicationTables \o DocumentTables \o AuditLogTable \o SessionTables

InitialSchemaDown ==
  <<dropTable("auth_tokens"), dropTable("sessions"), dropTable("audit_logs"),
    dropTable("document_versions"), dropTable("documents"),
    dropTable("application_reviews"), dropTable("applications"),
    dropTable("user_roles"), dropTable("roles"), dropTable("users")>>

HardeningUp ==
  <<addConstraintIfMissing("applications", "applications_final_state_requires_decision_fields_chk"),
    addConstraintIfMissing("applications", "applications_non_final_state_blocks_decision_fields_chk"),
    addConstraintIfMissing("applications", "applications_reviewer_not_approver_chk"),
    createTrigger("audit_logs", "audit_logs_append_only_trigger")>>

HardeningDown ==
  <<dropConstraints("applications",
      {"applications_reviewer_not_approver_chk", "applications_non_final_state_blocks_decision_fields_chk",
       "applications_final_state_requires_decision_fields_chk"}),
    dropTrigger("audit_logs", "audit_logs_append_only_trigger")>>

IndexHardeningUp ==
  <<addIndexIfMissing("applications", "applications_applicant_state_updated_at_idx"),
    addIndexIfMissing("applications", "applications_state_updated_at_idx"),
    addIndexIfMissing("applications", "applications_reviewer_state_idx"),
    addIndexIfMissing("applications", "applications_decisioner_decision_at_idx"),
    addIndexIfMissing("applications", "applications_submitted_at_idx"),
    addIndexIfMissing("documents", "documents_application_document_type_idx"),
    addIndexIfMissing("document_versions", "document_versions_uploaded_by_id_idx"),
    addIndexIfMissing("audit_logs", "audit_logs_application_occurred_at_idx"),
    addIndexIfMissing("audit_logs", "audit_logs_actor_occurred_at_idx"),
    addIndexIfMissing("audit_logs", "audit_logs_request_id_key"),
    addIndexIfMissing("users", "users_status_idx"),
    addIndexIfMissing("user_roles", "user_roles_user_id_role_id_key"),
    addIndexIfMissing("user_roles", "user_roles_role_id_idx"),
    addIndexIfMissing("audit_logs", "audit_logs_occurred_at_brin_idx")>>

(* Its indexes, the last one first.                                        *)
IndexHardeningDown ==
  [i \in DOMAIN IndexHardeningUp |->
     LET s == Reverse(IndexHardeningUp)[i] IN Statement("drop", "nothing", s.table, s.names)]

EnumAlignmentUp   == <<translate({"core"})>>
EnumAlignmentDown == <<translate({"old"})>>

ProfileColumns ==
  <<"business_address", "contact_name", "contact_email", "contact_phone",
    "license_category", "capital_amount_rwf", "incorporation_date",
    "business_summary">>

ProfileFieldsUp ==
  [i \in DOMAIN ProfileColumns |-> addColumnIfMissing("applications", ProfileColumns[i])]

ProfileFieldsDown ==
  [i \in DOMAIN ProfileColumns |-> removeColumnIfPresent("applications", ProfileColumns[i])]

OtherDetailsUp ==
  <<addColumnIfMissing("applications", "license_category_other_details")>>

OtherDetailsDown ==
  <<removeColumnIfPresent("applications", "license_category_other_details")>>

(* Mutant: the new columns without the new document type.                  *)
TypedRequestsUp_ColumnsOnly ==
  <<addColumn("application_reviews", "request_items"),
    addColumn("application_reviews", "applicant_responses"),
    addColumn("application_reviews", "responded_at")>>

TypedRequestsUp ==
  <<retype(DocumentTypes),
    addColumn("application_reviews", "request_items"),
    addColumn("application_reviews", "applicant_responses"),
    addColumn("application_reviews", "responded_at")>>

(* Mutant: the old spellings stay in the enum, too.                        *)
TypedRequestsDown_BothSpellings ==
  <<removeColumn("application_reviews", "responded_at"),
    removeColumn("application_reviews", "applicant_responses"),
    removeColumn("application_reviews", "request_items"),
    retype({"old", "core"})>>

TypedRequestsDown ==
  <<removeColumn("application_reviews", "responded_at"),
    removeColumn("application_reviews", "applicant_responses"),
    removeColumn("application_reviews", "request_items"),
    retype({"core"})>>

UserAuditLogUp ==
  <<createTable("user_audit_logs"),
    addIndex("user_audit_logs", "user_audit_logs_user_occurred_at_idx"),
    addIndex("user_audit_logs", "user_audit_logs_request_id_key"),
    createTrigger("user_audit_logs", "user_audit_logs_append_only_trigger")>>

UserAuditLogDown ==
  <<dropTrigger("user_audit_logs", "user_audit_logs_append_only_trigger"),
    dropTable("user_audit_logs")>>

(* A migration is its place in the order of the file names.                *)
Up == <<InitialSchemaUp, HardeningUp, IndexHardeningUp, EnumAlignmentUp,
        ProfileFieldsUp, OtherDetailsUp, TypedRequestsUp, UserAuditLogUp>>

Down == <<InitialSchemaDown, HardeningDown, IndexHardeningDown, EnumAlignmentDown,
          ProfileFieldsDown, OtherDetailsDown, TypedRequestsDown, UserAuditLogDown>>

Migrations == DOMAIN Up

InitialSchema == 1
EnumAlignment == 4
TypedRequests == 7
UserAuditLog  == 8

(* Mutant: db-index-hardening logs its errors and returns, too.            *)
Swallowing_Three == {1, 2, 3}

(* These log an error and return: initial-schema and db-hardening-audit.   *)
Swallowing == {1, 2}

(* Others create objects of the tables of the one, and TypedRequests       *)
(* extends the enum of the other.                                          *)
BuiltUpon == {InitialSchema, EnumAlignment}

(* These create an index or a column without looking for it.               *)
Unrepeatable == {InitialSchema, TypedRequests, UserAuditLog}

(* The foreign keys of a table.                                            *)
References(t) ==
  CASE t \in {"users", "roles"} -> {}
    [] t = "user_roles" -> {"users", "roles"}
    [] t \in {"application_reviews", "audit_logs"} -> {"applications", "users"}
    [] t = "documents" -> {"applications"}
    [] t = "document_versions" -> {"documents", "users"}
    [] OTHER -> {"users"}

Named(s) == {<<s.table, name>> : name \in s.names}

(* The objects each migration is there to create.                          *)
Provided ==
  UNION {UNION {{m} \X Named(s) : s \in {t \in ToSet(Up[m]) : t.do = "create"}} :
           m \in Migrations}

Objects == {p[2] : p \in Provided}

Tables == {o[1] : o \in Objects}

(* Unique keys under which the service stores a value twice when they are  *)
(* not in force: the client chooses the request id, and uploads and        *)
(* registrations read before they insert.                                  *)
ClashingKeys ==
  {<<"users", "users_email_key">>,
   <<"document_versions", "document_versions_document_id_version_number_key">>,
   <<"audit_logs", "audit_logs_request_id_key">>,
   <<"user_audit_logs", "user_audit_logs_request_id_key">>}

VARIABLES
  objects,       \* the schema objects that exist
  documentEnum,  \* the values of the type of documents.document_type
  stored,        \* the values of document_type in rows
  clashing,      \* the unique keys under which two rows are equal
  executed,      \* SequelizeMeta: the migrations recorded
  job,           \* the migration being run, its direction and next statement
  ended,         \* ended[m]: how the last run of m ended
  undermined,    \* a migration others build on was reverted before them
  faults         \* failing statements and stops so far

schema == <<objects, documentEnum, stored, clashing>>
vars == <<schema, executed, job, ended, undermined, faults>>

NoJob == [migration |-> 0, direction |-> "none", next |-> 0, swallowed |-> FALSE]

Statements(j) == IF j.direction = "up" THEN Up[j.migration] ELSE Down[j.migration]

TypeOK ==
  /\ objects \subseteq Objects
  /\ \A o \in objects : <<o[1], o[1]>> \in objects
  /\ documentEnum \in {{}, {"old"}, {"core"}, DocumentTypes}
  /\ documentEnum = {} <=> <<"documents", "documents">> \notin objects
  /\ stored \subseteq documentEnum
  /\ clashing \subseteq ClashingKeys \ objects
  /\ executed \subseteq Migrations
  /\ job = NoJob \/
       /\ job.migration \in Migrations
       /\ job.direction \in {"up", "down"}
       /\ job.next \in 1..(Len(Statements(job)) + 1)
       /\ job.swallowed \in BOOLEAN
       /\ (job.migration \in executed) = (job.direction = "down")
  /\ ended \in [Migrations -> {"clean", "swallowed", "torn"}]
  /\ undermined \in BOOLEAN
  /\ faults \in 0..MaxFaults

Init ==
  /\ objects = {}
  /\ documentEnum = {}
  /\ stored = {}
  /\ clashing = {}
  /\ executed = {}
  /\ job = NoJob
  /\ ended = [m \in Migrations |-> "clean"]
  /\ undermined = FALSE
  /\ faults = 0

-----------------------------------------------------------------------------
(* One statement                                                           *)

Exists(t) == <<t, t>> \in objects

IsTable(s) == s.names = {s.table}

Demanded(s) == IF IsTable(s) THEN References(s.table) ELSE {s.table}

(* The CASE knows nothing of SUPPORTING_DOCUMENT.                          *)
Cast(s) ==
  IF s.do = "translate"
  THEN (stored \cap {"supporting"}) \cup (IF stored \cap {"old", "core"} = {} THEN {} ELSE s.names)
  ELSE stored

(* What makes PostgreSQL or hasColumn refuse the statement.                *)
Refused(s) ==
  CASE s.do = "create" ->
         \/ s.demands = "objects" /\ Named(s) \cap objects # {}
         \/ ~(Named(s) \subseteq objects) /\ \E t \in Demanded(s) : ~Exists(t)
         \/ Named(s) \cap clashing # {}
    [] s.do = "drop" ->
         \/ s.demands = "objects" /\ ~(Named(s) \subseteq objects)
         \/ s.demands = "table" /\ ~Exists(s.table)
         \/ IsTable(s) /\ \E t \in Tables : Exists(t) /\ s.table \in References(t)
    [] OTHER -> documentEnum # {} /\ ~(Cast(s) \subseteq s.names)

(* With a table goes what belongs to it.                                   *)
Dropped(s) == IF IsTable(s) THEN {o \in objects : o[1] = s.table} ELSE Named(s)

(* createTable makes the enum of documents from the types the code has now;*)
(* without the enum the DO blocks do nothing.  Rows go with their table.   *)
Execute(s) ==
  /\ objects' = CASE s.do = "create" -> objects \cup Named(s)
                  [] s.do = "drop" -> objects \ Dropped(s)
                  [] OTHER -> objects
  /\ IF s \in {createTable("documents"), dropTable("documents")}
     THEN /\ documentEnum' = IF s.do = "drop" THEN {}
                             ELSE IF Exists("documents") THEN documentEnum
                             ELSE DocumentTypes
          /\ stored' = IF s.do = "drop" THEN {} ELSE stored
     ELSE IF s.do \in {"retype", "translate"} /\ documentEnum # {}
     THEN documentEnum' = s.names /\ stored' = Cast(s)
     ELSE UNCHANGED <<documentEnum, stored>>
  /\ clashing' = IF s.do = "drop" /\ IsTable(s)
                 THEN {key \in clashing : key[1] # s.table} ELSE clashing

-----------------------------------------------------------------------------
(* The migrator                                                            *)

Pending == Migrations \ executed

Start(m, direction) ==
  /\ job = NoJob
  /\ job' = [migration |-> m, direction |-> direction, next |-> 1, swallowed |-> FALSE]
  /\ UNCHANGED <<schema, executed, ended, faults>>

(* "up" takes the pending migrations in order, one after the other until   *)
(* an error: to go on with the next one is to run the command again.       *)
up ==
  /\ \E m \in Pending : (\A k \in Pending : m <= k) /\ Start(m, "up")
  /\ UNCHANGED undermined

Gaps(ms) == {m \in Migrations \ ms : \E k \in ms : k > m}

(* "down --name" takes any recorded migration, not only the newest.        *)
down(m) ==
  /\ m \in executed
  /\ Cardinality(Gaps(executed \ {m})) <= MaxGaps
  /\ undermined' = (undermined \/ (m \in BuiltUpon /\ \E k \in executed : k > m))
  /\ Start(m, "down")

Ongoing == job # NoJob /\ job.next <= Len(Statements(job))

Current == Statements(job)[job.next]

execute ==
  /\ Ongoing
  /\ ~Refused(Current)
  /\ Execute(Current)
  /\ job' = [job EXCEPT !.next = @ + 1]
  /\ UNCHANGED <<executed, ended, undermined, faults>>

Abort ==
  /\ job' = NoJob
  /\ ended' = IF job.next > 1 THEN [ended EXCEPT ![job.migration] = "torn"] ELSE ended

(* The catch block logs; most migrations throw the error again, and the    *)
(* command ends with nothing recorded.                                     *)
catch ==
  IF job.migration \in Swallowing
  THEN /\ job' = [job EXCEPT !.next = Len(Statements(job)) + 1, !.swallowed = TRUE]
       /\ UNCHANGED ended
  ELSE Abort

refuse ==
  /\ Ongoing
  /\ Refused(Current)
  /\ catch
  /\ UNCHANGED <<schema, executed, undermined, faults>>

Fault == faults < MaxFaults /\ faults' = faults + 1

(* A lock timeout, a lost connection.                                      *)
statementFails ==
  /\ Fault
  /\ Ongoing
  /\ catch
  /\ UNCHANGED <<schema, executed, undermined>>

stop ==
  /\ Fault
  /\ job # NoJob
  /\ Abort
  /\ UNCHANGED <<schema, executed, undermined>>

(* The migration has returned: logMigration or unlogMigration.             *)
record ==
  /\ job # NoJob
  /\ ~Ongoing
  /\ executed' = IF job.direction = "up" THEN executed \cup {job.migration}
                                        ELSE executed \ {job.migration}
  /\ ended' = [ended EXCEPT ![job.migration] =
                  IF job.swallowed THEN "swallowed" ELSE "clean"]
  /\ job' = NoJob
  /\ UNCHANGED <<schema, undermined, faults>>

(* The service stores a document, between two migrations: a migration looks*)
(* at the rows in its first or its last statement only.                    *)
storeDocument(type) ==
  /\ job = NoJob
  /\ type \in documentEnum \cap DocumentTypes
  /\ stored' = stored \cup {type}
  /\ UNCHANGED <<objects, documentEnum, clashing, executed, job, ended, undermined, faults>>

(* The service stores a value twice that only a missing key would refuse.  *)
storeTwice(key) ==
  /\ job = NoJob
  /\ key \in ClashingKeys \ (objects \cup clashing)
  /\ Exists(key[1])
  /\ clashing' = clashing \cup {key}
  /\ UNCHANGED <<objects, documentEnum, stored, executed, job, ended, undermined, faults>>

Next ==
  \/ up
  \/ \E m \in Migrations : down(m)
  \/ execute
  \/ refuse
  \/ statementFails
  \/ stop
  \/ record
  \/ \E type \in DocumentTypes : storeDocument(type)
  \/ \E key \in ClashingKeys : storeTwice(key)

(* Somebody runs "up" again until nothing is pending, and a command that   *)
(* is not stopped goes on.                                                 *)
Fairness == WF_vars(up) /\ WF_vars(execute \/ refuse \/ record)

Spec == Init /\ [][Next]_vars /\ Fairness

-----------------------------------------------------------------------------

(* The keys on which the models of the service rest.                       *)
Keys ==
  {<<"users", "users_email_key">>,
   <<"applications", "applications_reference_number_key">>,
   <<"application_reviews", "application_reviews_application_id_cycle_number_key">>,
   <<"document_versions", "document_versions_document_id_version_number_key">>,
   <<"audit_logs", "audit_logs_request_id_key">>,
   <<"user_audit_logs", "user_audit_logs_request_id_key">>}

(* An error that initial-schema swallows does not go unnoticed where it    *)
(* matters most: once every migration is recorded, and none was torn by a  *)
(* stop or reverted under one that builds on it, the keys against          *)
(* concurrent writers are in force, since a later migration cannot do      *)
(* without the tables of an earlier one.                                   *)
KeysInForce ==
  executed = Migrations /\ job = NoJob /\ ~undermined
  /\ (\A m \in Migrations : ended[m] # "torn") => Keys \subseteq objects

(* SequelizeMeta can be believed, whatever happened to other migrations:   *)
(* one that is recorded and ended without an error has all its objects, one*)
(* that is not has none of them, and once workflow-typed-info-requests is  *)
(* recorded the enum has its value.                                        *)
RecordsAreTrue ==
  LET EndedWell(m) == ended[m] = "clean" /\ job.migration # m
  IN ~undermined =>
       /\ \A m \in Migrations, o \in Objects :
            EndedWell(m) /\ <<m, o>> \in Provided => (m \in executed <=> o \in objects)
       /\ EndedWell(TypedRequests) /\ TypedRequests \in executed => documentEnum = DocumentTypes

(* Nothing in the way of running "up" again: the three that cannot be      *)
(* repeated ended well, reverting the enum was not stopped before it was   *)
(* unlogged, no SUPPORTING_DOCUMENT is stored while a migration is pending *)
(* that would retype the column without it, and no unique key is missing   *)
(* for so long that two rows would now break it.                           *)
Repeatable ==
  /\ ~undermined
  /\ \A m \in Unrepeatable :
       ended[m] = "clean" /\ (job.migration = m => ~job.swallowed)
  /\ EnumAlignment \in executed /\ job.migration # EnumAlignment => documentEnum # {"old"}
  /\ "supporting" \in stored => EnumAlignment \in executed
  /\ clashing = {}

(* After the last fault, and once nobody reverts, "up" gets through        *)
(* whatever failed or stopped half-way before, and in whatever order the   *)
(* other migrations were reverted.                                         *)
UpGetsThrough ==
  []Repeatable /\ <>[](job.direction # "down") => <>[](executed = Migrations)

=============================================================================
