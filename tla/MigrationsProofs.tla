-------------------------- MODULE MigrationsProofs -------------------------
(***************************************************************************)
(* The migrations, for every number of faults and of gaps in their order:  *)
(* the records of SequelizeMeta are true and the keys the service rests on *)
(* are in force.  The first part says what the statements of each migration*)
(* may create and drop; the second that a migration finishes its statements*)
(* in order (Progress), what a migration may rely on (Founded), and that   *)
(* initial-schema, which hides its errors, builds the keys before the table*)
(* every later migration needs (KeysFirst).                                *)
(***************************************************************************)
EXTENDS Migrations, TLAPS

SchemaTables ==
  {"users", "roles", "user_roles", "applications", "application_reviews",
   "documents", "document_versions", "audit_logs", "sessions", "auth_tokens"}

(* The tables a migration works on.                                        *)
TablesOf(m) == IF m = UserAuditLog THEN {"user_audit_logs"} ELSE SchemaTables

(* The names of the objects each migration provides.                       *)
ProvidedNames ==
  <<SchemaTables \cup
      {"users_email_key", "roles_name_key", "applications_reference_number_key",
       "application_reviews_application_id_cycle_number_key",
       "document_versions_document_id_version_number_key",
       "sessions_user_id_idx", "sessions_expires_at_idx", "auth_tokens_token_hash_key",
       "auth_tokens_user_type_created_at_idx", "auth_tokens_type_expires_consumed_idx"},
    {"applications_final_state_requires_decision_fields_chk",
     "applications_non_final_state_blocks_decision_fields_chk", "applications_reviewer_not_approver_chk",
     "audit_logs_append_only_trigger"},
    {"applications_applicant_state_updated_at_idx", "applications_state_updated_at_idx",
     "applications_reviewer_state_idx", "applications_decisioner_decision_at_idx",
     "applications_submitted_at_idx", "documents_application_document_type_idx",
     "document_versions_uploaded_by_id_idx", "audit_logs_application_occurred_at_idx",
     "audit_logs_actor_occurred_at_idx", "audit_logs_request_id_key",
     "users_status_idx", "user_roles_user_id_role_id_key", "user_roles_role_id_idx",
     "audit_logs_occurred_at_brin_idx"},
    {},
    {"business_address", "contact_name", "contact_email", "contact_phone",
     "license_category", "capital_amount_rwf", "incorporation_date",
     "business_summary"},
    {"license_category_other_details"},
    {"request_items", "applicant_responses", "responded_at"},
    {"user_audit_logs", "user_audit_logs_user_occurred_at_idx",
     "user_audit_logs_request_id_key", "user_audit_logs_append_only_trigger"}>>

(* A statement that creates one object of migration m.                     *)
Creates(s, m) ==
  \E d \in {"objects", "table"}, t \in TablesOf(m), n \in ProvidedNames[m] :
    /\ s = Statement("create", d, t, {n})
    /\ n \in SchemaTables \cup {"user_audit_logs"} => n = t /\ d = "table"

(* A statement that drops a table of migration m, or objects in a table.   *)
DropsTable(s, m) ==
  /\ m \in {InitialSchema, UserAuditLog}
  /\ \E t \in TablesOf(m) : s = dropTable(t)

DropsObjects(s, m) ==
  \E d \in {"objects", "table", "nothing"}, t \in TablesOf(m),
     ns \in SUBSET (ProvidedNames[m] \ (SchemaTables \cup {"user_audit_logs"})) :
    s = Statement("drop", d, t, ns)

Retypes(s, m) ==
  /\ m \in {EnumAlignment, TypedRequests}
  /\ \E do \in {"retype", "translate"}, values \in {{"old"}, {"core"}, DocumentTypes} :
       s = Statement(do, "nothing", "documents", values)

-----------------------------------------------------------------------------
(* The statements of each migration.                                       *)

LEMMA MigrationNumbers == Migrations = 1..8
  BY DEF Migrations, Up

(* Every way to write a creating statement creates.                        *)
LEMMA CreatingForms ==
  ASSUME NEW m \in Migrations, NEW t \in TablesOf(m), NEW n \in ProvidedNames[m]
  PROVE  /\ n = t => Creates(createTable(t), m)
         /\ n \notin SchemaTables \cup {"user_audit_logs"} =>
              /\ Creates(addIndex(t, n), m)
              /\ Creates(addIndexIfMissing(t, n), m)
              /\ Creates(addConstraintIfMissing(t, n), m)
              /\ Creates(createTrigger(t, n), m)
              /\ Creates(addColumn(t, n), m)
              /\ Creates(addColumnIfMissing(t, n), m)
<1>1. ASSUME NEW d \in {"objects", "table"},
             n \in SchemaTables \cup {"user_audit_logs"} => n = t /\ d = "table"
      PROVE  Creates(Statement("create", d, t, {n}), m)
  BY <1>1 DEF Creates
<1>2. ASSUME n = t PROVE Creates(createTable(t), m)
  <2>1. Creates(Statement("create", "table", t, {n}), m)
    BY <1>1, <1>2
  <2> QED
    BY <1>2, <2>1 DEF createTable
<1>3. ASSUME n \notin SchemaTables \cup {"user_audit_logs"}
      PROVE  /\ Creates(Statement("create", "objects", t, {n}), m)
             /\ Creates(Statement("create", "table", t, {n}), m)
  BY <1>1, <1>3
<1> QED
  BY <1>2, <1>3 DEF addIndex, addIndexIfMissing, addConstraintIfMissing, createTrigger,
                    addColumn, addColumnIfMissing

LEMMA CreatedShapes ==
  ASSUME NEW m, NEW s, Creates(s, m)
  PROVE  /\ s.do = "create" /\ s.demands \in {"objects", "table"} /\ s.table \in TablesOf(m)
         /\ \E n \in ProvidedNames[m] :
              /\ s.names = {n}
              /\ n \in SchemaTables \cup {"user_audit_logs"} =>
                   n = s.table /\ s = createTable(s.table)
<1>1. PICK d \in {"objects", "table"}, t \in TablesOf(m), n \in ProvidedNames[m] :
        /\ s = Statement("create", d, t, {n})
        /\ n \in SchemaTables \cup {"user_audit_logs"} => n = t /\ d = "table"
  BY DEF Creates
<1>2. s.do = "create" /\ s.demands = d /\ s.table = t /\ s.names = {n}
  BY <1>1 DEF Statement
<1>3. n = t /\ d = "table" => s = createTable(t)
  BY <1>1 DEF createTable
<1> QED
  BY <1>1, <1>2, <1>3

LEMMA InitialSchemaForms ==
  /\ Len(Up[1]) = 20 /\ DOMAIN Up[1] = 1..20
  /\ \A i \in 1..20 : Creates(Up[1][i], 1)
<1>1. Up[1] = InitialSchemaUp
  BY DEF Up
<1>2. Len(InitialSchemaUp) = 20 /\ DOMAIN InitialSchemaUp = 1..20
  BY DEF InitialSchemaUp, AccountTables, ApplicationTables, DocumentTables, AuditLogTable,
         SessionTables
<1>3. ASSUME NEW i \in 1..20
      PROVE  \/ \E t \in SchemaTables : InitialSchemaUp[i] = createTable(t)
             \/ \E t \in SchemaTables, n \in ProvidedNames[1] \ SchemaTables :
                  InitialSchemaUp[i] = addIndex(t, n)
  BY <1>3 DEF InitialSchemaUp, AccountTables, ApplicationTables, DocumentTables, AuditLogTable,
         SessionTables, SchemaTables, ProvidedNames
<1>4. TablesOf(1) = SchemaTables /\ SchemaTables \subseteq ProvidedNames[1]
      /\ "user_audit_logs" \notin ProvidedNames[1] /\ 1 \in Migrations
  BY MigrationNumbers DEF TablesOf, UserAuditLog, ProvidedNames, SchemaTables
<1> QED
  BY <1>1, <1>2, <1>3, <1>4, CreatingForms

LEMMA HardeningForms ==
  /\ Len(Up[2]) = 4 /\ DOMAIN Up[2] = 1..4
  /\ \A i \in 1..4 : Creates(Up[2][i], 2)
<1>1. Up[2] = HardeningUp
  BY DEF Up
<1>2. Len(HardeningUp) = 4 /\ DOMAIN HardeningUp = 1..4
  BY DEF HardeningUp
<1>3. ASSUME NEW i \in 1..4
      PROVE  \E t \in SchemaTables, n \in ProvidedNames[2] :
               \/ HardeningUp[i] = addConstraintIfMissing(t, n)
               \/ HardeningUp[i] = createTrigger(t, n)
  BY <1>3 DEF HardeningUp, SchemaTables, ProvidedNames
<1>4. TablesOf(2) = SchemaTables /\ 2 \in Migrations
  BY MigrationNumbers DEF TablesOf, UserAuditLog
<1>5. ProvidedNames[2] \cap (SchemaTables \cup {"user_audit_logs"}) = {}
  BY DEF ProvidedNames, SchemaTables
<1> QED
  BY <1>1, <1>2, <1>3, <1>4, <1>5, CreatingForms

LEMMA IndexHardeningForms ==
  /\ Len(Up[3]) = 14 /\ DOMAIN Up[3] = 1..14
  /\ \A i \in 1..14 : Creates(Up[3][i], 3)
<1>1. Up[3] = IndexHardeningUp
  BY DEF Up
<1>2. Len(IndexHardeningUp) = 14 /\ DOMAIN IndexHardeningUp = 1..14
  BY DEF IndexHardeningUp
<1>3. ASSUME NEW i \in 1..14
      PROVE  \E t \in SchemaTables, n \in ProvidedNames[3] :
               IndexHardeningUp[i] = addIndexIfMissing(t, n)
  BY <1>3 DEF IndexHardeningUp, SchemaTables, ProvidedNames
<1>4. TablesOf(3) = SchemaTables /\ 3 \in Migrations
  BY MigrationNumbers DEF TablesOf, UserAuditLog
<1>5. ProvidedNames[3] \cap (SchemaTables \cup {"user_audit_logs"}) = {}
  BY DEF ProvidedNames, SchemaTables
<1> QED
  BY <1>1, <1>2, <1>3, <1>4, <1>5, CreatingForms

LEMMA ColumnForms ==
  /\ Len(Up[5]) = 8 /\ DOMAIN Up[5] = 1..8
  /\ \A i \in 1..8 : Creates(Up[5][i], 5)
  /\ Len(Up[6]) = 1 /\ DOMAIN Up[6] = 1..1
  /\ \A i \in 1..1 : Creates(Up[6][i], 6)
<1>1. Up[5] = ProfileFieldsUp /\ Up[6] = OtherDetailsUp
  BY DEF Up
<1>2. /\ Len(ProfileColumns) = 8 /\ DOMAIN ProfileColumns = 1..8
      /\ Len(OtherDetailsUp) = 1 /\ DOMAIN OtherDetailsUp = 1..1
  BY DEF ProfileColumns, OtherDetailsUp
<1>3. Len(ProfileFieldsUp) = 8 /\ DOMAIN ProfileFieldsUp = 1..8
  BY <1>2 DEF ProfileFieldsUp
<1>4. ASSUME NEW i \in 1..8
      PROVE  \E n \in ProvidedNames[5] :
               ProfileFieldsUp[i] = addColumnIfMissing("applications", n)
  <2>1. ProfileColumns[i] \in ProvidedNames[5]
    BY <1>4 DEF ProfileColumns, ProvidedNames
  <2> QED
    BY <1>2, <2>1 DEF ProfileFieldsUp
<1>5. "license_category_other_details" \in ProvidedNames[6]
      /\ OtherDetailsUp[1] = addColumnIfMissing("applications", "license_category_other_details")
  BY DEF OtherDetailsUp, ProvidedNames
<1>6. /\ TablesOf(5) = SchemaTables /\ TablesOf(6) = SchemaTables
      /\ 5 \in Migrations /\ 6 \in Migrations /\ "applications" \in SchemaTables
  BY MigrationNumbers DEF TablesOf, UserAuditLog, SchemaTables
<1>7. /\ ProvidedNames[5] \cap (SchemaTables \cup {"user_audit_logs"}) = {}
      /\ ProvidedNames[6] \cap (SchemaTables \cup {"user_audit_logs"}) = {}
  BY DEF ProvidedNames, SchemaTables
<1>8. \A i \in 1..8 : Creates(ProfileFieldsUp[i], 5)
  BY <1>4, <1>6, <1>7, CreatingForms
<1>9. Creates(OtherDetailsUp[1], 6)
  BY <1>5, <1>6, <1>7, CreatingForms
<1> QED
  BY <1>1, <1>2, <1>3, <1>8, <1>9

LEMMA EnumForms ==
  /\ Len(Up[4]) = 1 /\ DOMAIN Up[4] = 1..1 /\ Retypes(Up[4][1], 4)
  /\ Len(Down[4]) = 1 /\ DOMAIN Down[4] = 1..1 /\ Retypes(Down[4][1], 4)
<1>1. Up[4] = <<translate({"core"})>> /\ Down[4] = <<translate({"old"})>>
  BY DEF Up, Down, EnumAlignmentUp, EnumAlignmentDown
<1>2. Retypes(translate({"core"}), 4) /\ Retypes(translate({"old"}), 4)
  BY DEF Retypes, translate, EnumAlignment, TypedRequests
<1> QED
  BY <1>1, <1>2

LEMMA TypedRequestsForms ==
  /\ Len(Up[7]) = 4 /\ DOMAIN Up[7] = 1..4
  /\ Up[7][1] = retype(DocumentTypes) /\ Retypes(Up[7][1], 7)
  /\ \A i \in 2..4 : Creates(Up[7][i], 7)
<1>1. Up[7] = TypedRequestsUp
  BY DEF Up
<1>2. /\ Len(TypedRequestsUp) = 4 /\ DOMAIN TypedRequestsUp = 1..4
      /\ TypedRequestsUp[1] = retype(DocumentTypes)
  BY DEF TypedRequestsUp
<1>3. ASSUME NEW i \in 2..4
      PROVE  \E n \in ProvidedNames[7] :
               TypedRequestsUp[i] = addColumn("application_reviews", n)
  BY <1>3 DEF TypedRequestsUp, ProvidedNames
<1>4. /\ TablesOf(7) = SchemaTables /\ 7 \in Migrations
      /\ "application_reviews" \in SchemaTables
  BY MigrationNumbers DEF TablesOf, UserAuditLog, SchemaTables
<1>5. ProvidedNames[7] \cap (SchemaTables \cup {"user_audit_logs"}) = {}
  BY DEF ProvidedNames, SchemaTables
<1>6. Retypes(retype(DocumentTypes), 7)
  BY DEF Retypes, retype, EnumAlignment, TypedRequests
<1> QED
  BY <1>1, <1>2, <1>3, <1>4, <1>5, <1>6, CreatingForms

LEMMA UserAuditLogForms ==
  /\ Len(Up[8]) = 4 /\ DOMAIN Up[8] = 1..4
  /\ \A i \in 1..4 : Creates(Up[8][i], 8)
<1>1. Up[8] = UserAuditLogUp
  BY DEF Up
<1>2. Len(UserAuditLogUp) = 4 /\ DOMAIN UserAuditLogUp = 1..4
  BY DEF UserAuditLogUp
<1>3. ASSUME NEW i \in 1..4
      PROVE  \/ UserAuditLogUp[i] = createTable("user_audit_logs")
             \/ \E n \in ProvidedNames[8] \ {"user_audit_logs"} :
                  \/ UserAuditLogUp[i] = addIndex("user_audit_logs", n)
                  \/ UserAuditLogUp[i] = createTrigger("user_audit_logs", n)
  BY <1>3 DEF UserAuditLogUp, ProvidedNames
<1>4. TablesOf(8) = {"user_audit_logs"} /\ 8 \in Migrations
  BY MigrationNumbers DEF TablesOf, UserAuditLog
<1>5. ProvidedNames[8] \cap SchemaTables = {} /\ "user_audit_logs" \in ProvidedNames[8]
  BY DEF ProvidedNames, SchemaTables
<1> QED
  BY <1>1, <1>2, <1>3, <1>4, <1>5, CreatingForms

-----------------------------------------------------------------------------
(* The statements that revert each migration, and what they undo.          *)

Undoes(d, s) ==
  \/ d = dropTable(s.table)
  \/ d.do = "drop" /\ d.table = s.table /\ s.names \subseteq d.names

Reverts(m) ==
  \A i \in DOMAIN Up[m] : Up[m][i].do = "create" =>
    \E j \in DOMAIN Down[m] : Undoes(Down[m][j], Up[m][i])

LEMMA DroppingForms ==
  ASSUME NEW m \in Migrations, NEW t \in TablesOf(m), NEW ns,
         ns \subseteq ProvidedNames[m] \ (SchemaTables \cup {"user_audit_logs"})
  PROVE  /\ DropsObjects(dropConstraints(t, ns), m)
         /\ \A n \in ns :
              /\ DropsObjects(Statement("drop", "nothing", t, {n}), m)
              /\ DropsObjects(dropTrigger(t, n), m)
              /\ DropsObjects(removeColumn(t, n), m)
              /\ DropsObjects(removeColumnIfPresent(t, n), m)
<1>1. ASSUME NEW d \in {"objects", "table", "nothing"}, NEW names, names \subseteq ns
      PROVE  DropsObjects(Statement("drop", d, t, names), m)
  BY <1>1 DEF DropsObjects
<1>2. DropsObjects(dropConstraints(t, ns), m)
  BY <1>1 DEF dropConstraints
<1>3. ASSUME NEW n \in ns
      PROVE  /\ DropsObjects(Statement("drop", "nothing", t, {n}), m)
             /\ DropsObjects(Statement("drop", "table", t, {n}), m)
             /\ DropsObjects(Statement("drop", "objects", t, {n}), m)
  BY <1>1, <1>3
<1> QED
  BY <1>2, <1>3 DEF dropTrigger, removeColumn, removeColumnIfPresent

(* The same, of one object.                                                *)
LEMMA DroppingForm ==
  ASSUME NEW m \in Migrations, NEW t \in TablesOf(m),
         NEW n \in ProvidedNames[m] \ (SchemaTables \cup {"user_audit_logs"})
  PROVE  /\ DropsObjects(Statement("drop", "nothing", t, {n}), m)
         /\ DropsObjects(dropTrigger(t, n), m)
         /\ DropsObjects(removeColumn(t, n), m)
         /\ DropsObjects(removeColumnIfPresent(t, n), m)
<1> DEFINE ns == {n}
<1>1. ns \subseteq ProvidedNames[m] \ (SchemaTables \cup {"user_audit_logs"}) /\ n \in ns
  OBVIOUS
<1> HIDE DEF ns
<1> QED
  BY <1>1, DroppingForms

LEMMA InitialSchemaReverts ==
  /\ Len(Down[1]) = 10 /\ DOMAIN Down[1] = 1..10
  /\ \A j \in 1..10 : DropsTable(Down[1][j], 1)
  /\ Reverts(1)
<1>1. Down[1] = InitialSchemaDown
  BY DEF Down
<1>2. Len(InitialSchemaDown) = 10 /\ DOMAIN InitialSchemaDown = 1..10
  BY DEF InitialSchemaDown
<1>3. \A j \in 1..10 : \E t \in SchemaTables : InitialSchemaDown[j] = dropTable(t)
  BY DEF InitialSchemaDown, SchemaTables
<1>4. \A t \in SchemaTables : \E j \in 1..10 : InitialSchemaDown[j] = dropTable(t)
  BY DEF InitialSchemaDown, SchemaTables
<1>5. TablesOf(1) = SchemaTables
  BY DEF TablesOf, UserAuditLog
<1>6. \A i \in 1..20 : Up[1][i].table \in SchemaTables
  BY <1>5, InitialSchemaForms, CreatedShapes
<1> QED
  BY <1>1, <1>2, <1>3, <1>4, <1>5, <1>6, InitialSchemaForms
     DEF DropsTable, Reverts, Undoes, InitialSchema

LEMMA HardeningReverts ==
  /\ Len(Down[2]) = 2 /\ DOMAIN Down[2] = 1..2
  /\ \A j \in 1..2 : DropsObjects(Down[2][j], 2)
  /\ Reverts(2)
<1> DEFINE ns == {"applications_reviewer_not_approver_chk", "applications_non_final_state_blocks_decision_fields_chk",
                  "applications_final_state_requires_decision_fields_chk"}
<1>1. Down[2] = HardeningDown
  BY DEF Down
<1>2. /\ Len(HardeningDown) = 2 /\ DOMAIN HardeningDown = 1..2
      /\ HardeningDown[1] = dropConstraints("applications", ns)
      /\ HardeningDown[2] = dropTrigger("audit_logs", "audit_logs_append_only_trigger")
  BY DEF HardeningDown
<1>3. /\ ns \cup {"audit_logs_append_only_trigger"} \subseteq
           ProvidedNames[2] \ (SchemaTables \cup {"user_audit_logs"})
      /\ TablesOf(2) = SchemaTables /\ 2 \in Migrations
      /\ "applications" \in SchemaTables /\ "audit_logs" \in SchemaTables
  BY MigrationNumbers DEF ProvidedNames, SchemaTables, TablesOf, UserAuditLog
<1>4. DropsObjects(HardeningDown[1], 2)
  BY <1>2, <1>3, DroppingForms
<1>5. DropsObjects(HardeningDown[2], 2)
  <2>1. /\ ProvidedNames[2] \subseteq
             ProvidedNames[2] \ (SchemaTables \cup {"user_audit_logs"})
        /\ "audit_logs_append_only_trigger" \in ProvidedNames[2]
    BY DEF ProvidedNames, SchemaTables
  <2>2. DropsObjects(dropTrigger("audit_logs", "audit_logs_append_only_trigger"), 2)
    BY <1>3, <2>1, DroppingForms
  <2> QED
    BY <1>2, <2>2
<1>6. Reverts(2)
  <2>1. Up[2] = HardeningUp /\ DOMAIN Up[2] = 1..4
    BY HardeningForms DEF Up
  <2>2. \A i \in 1..3 : Undoes(HardeningDown[1], HardeningUp[i])
    BY DEF Undoes, HardeningUp, HardeningDown, dropConstraints, addConstraintIfMissing,
           Statement
  <2>3. Undoes(HardeningDown[2], HardeningUp[4])
    BY DEF Undoes, HardeningUp, HardeningDown, dropTrigger, createTrigger, Statement
  <2>4. \A i \in 1..4 : i \in 1..3 \/ i = 4
    OBVIOUS
  <2> QED
    BY <1>1, <1>2, <2>1, <2>2, <2>3, <2>4 DEF Reverts
<1> QED
  BY <1>1, <1>2, <1>4, <1>5, <1>6

LEMMA IndexHardeningReverts ==
  /\ Len(Down[3]) = 14 /\ DOMAIN Down[3] = 1..14
  /\ \A j \in 1..14 : DropsObjects(Down[3][j], 3)
  /\ Reverts(3)
<1>1. Down[3] = IndexHardeningDown /\ Up[3] = IndexHardeningUp
  BY DEF Down, Up
<1>2. Len(IndexHardeningUp) = 14 /\ DOMAIN IndexHardeningUp = 1..14
  BY <1>1, IndexHardeningForms
<1>3. Len(IndexHardeningDown) = 14 /\ DOMAIN IndexHardeningDown = 1..14
  BY <1>2 DEF IndexHardeningDown
<1>4. ASSUME NEW j \in 1..14
      PROVE  IndexHardeningDown[j] =
               Statement("drop", "nothing", IndexHardeningUp[15 - j].table,
                         IndexHardeningUp[15 - j].names)
  <2>1. Reverse(IndexHardeningUp)[j] = IndexHardeningUp[15 - j]
    <3>1. (14 - j) + 1 = 15 - j
      BY <1>4
    <3> QED
      BY <1>2, <1>4, <3>1 DEF Reverse
  <2> QED
    BY <1>2, <1>4, <2>1 DEF IndexHardeningDown
<1>5. ASSUME NEW i \in 1..14
      PROVE  \E t \in SchemaTables, n \in ProvidedNames[3] :
               /\ IndexHardeningUp[i].table = t /\ IndexHardeningUp[i].names = {n}
  BY <1>1, <1>5, IndexHardeningForms, CreatedShapes DEF TablesOf, UserAuditLog
<1>6. ASSUME NEW j \in 1..14
      PROVE  \E t \in SchemaTables, n \in ProvidedNames[3] :
               /\ IndexHardeningUp[15 - j].table = t /\ IndexHardeningUp[15 - j].names = {n}
               /\ IndexHardeningDown[j] = Statement("drop", "nothing", t, {n})
  <2>1. 15 - j \in 1..14
    BY <1>6
  <2>2. PICK t \in SchemaTables, n \in ProvidedNames[3] :
          /\ IndexHardeningUp[15 - j].table = t /\ IndexHardeningUp[15 - j].names = {n}
    BY <1>5, <2>1
  <2> QED
    BY <1>4, <1>6, <2>2
<1>7. /\ TablesOf(3) = SchemaTables /\ 3 \in Migrations
      /\ ProvidedNames[3] \cap (SchemaTables \cup {"user_audit_logs"}) = {}
  BY MigrationNumbers DEF ProvidedNames, SchemaTables, TablesOf, UserAuditLog
<1>8. ASSUME NEW j \in 1..14 PROVE DropsObjects(IndexHardeningDown[j], 3)
  <2>1. PICK t \in SchemaTables, n \in ProvidedNames[3] :
          IndexHardeningDown[j] = Statement("drop", "nothing", t, {n})
    BY <1>6, <1>8
  <2>2. ProvidedNames[3] \subseteq
          ProvidedNames[3] \ (SchemaTables \cup {"user_audit_logs"})
    BY <1>7
  <2> QED
    BY <1>7, <2>1, <2>2, DroppingForms
<1>9. Reverts(3)
  <2>1. ASSUME NEW i \in 1..14 PROVE Undoes(IndexHardeningDown[15 - i], IndexHardeningUp[i])
    <3>1. PICK j \in 1..14 : j = 15 - i /\ 15 - j = i
      BY <2>1
    <3>2. PICK t \in SchemaTables, n \in ProvidedNames[3] :
            /\ IndexHardeningUp[15 - j].table = t /\ IndexHardeningUp[15 - j].names = {n}
            /\ IndexHardeningDown[j] = Statement("drop", "nothing", t, {n})
      BY <1>6
    <3>3. /\ IndexHardeningDown[j].do = "drop" /\ IndexHardeningDown[j].table = t
          /\ IndexHardeningDown[j].names = {n}
      BY <3>2 DEF Statement
    <3> QED
      BY <3>1, <3>2, <3>3 DEF Undoes
  <2>2. \A i \in 1..14 : 15 - i \in 1..14
    OBVIOUS
  <2> QED
    BY <1>1, <1>2, <1>3, <2>1, <2>2 DEF Reverts
<1> QED
  BY <1>1, <1>3, <1>8, <1>9

LEMMA ColumnReverts ==
  /\ Len(Down[5]) = 8 /\ DOMAIN Down[5] = 1..8
  /\ \A j \in 1..8 : DropsObjects(Down[5][j], 5)
  /\ Reverts(5)
  /\ Len(Down[6]) = 1 /\ DOMAIN Down[6] = 1..1
  /\ \A j \in 1..1 : DropsObjects(Down[6][j], 6)
  /\ Reverts(6)
<1>1. /\ Down[5] = ProfileFieldsDown /\ Down[6] = OtherDetailsDown
      /\ Up[5] = ProfileFieldsUp /\ Up[6] = OtherDetailsUp
  BY DEF Down, Up
<1>2. /\ Len(ProfileColumns) = 8 /\ DOMAIN ProfileColumns = 1..8
      /\ Len(OtherDetailsDown) = 1 /\ DOMAIN OtherDetailsDown = 1..1
      /\ DOMAIN OtherDetailsUp = 1..1
  BY DEF ProfileColumns, OtherDetailsDown, OtherDetailsUp
<1>3. /\ Len(ProfileFieldsDown) = 8 /\ DOMAIN ProfileFieldsDown = 1..8
      /\ DOMAIN ProfileFieldsUp = 1..8
  BY <1>2 DEF ProfileFieldsDown, ProfileFieldsUp
<1>4. ASSUME NEW i \in 1..8
      PROVE  /\ ProfileColumns[i] \in ProvidedNames[5]
             /\ ProfileFieldsDown[i] = removeColumnIfPresent("applications", ProfileColumns[i])
             /\ ProfileFieldsUp[i] = addColumnIfMissing("applications", ProfileColumns[i])
  <2>1. ProfileColumns[i] \in ProvidedNames[5]
    BY <1>4 DEF ProfileColumns, ProvidedNames
  <2> QED
    BY <1>2, <2>1 DEF ProfileFieldsDown, ProfileFieldsUp
<1>5. /\ "license_category_other_details" \in ProvidedNames[6]
      /\ OtherDetailsDown[1] =
           removeColumnIfPresent("applications", "license_category_other_details")
      /\ OtherDetailsUp[1] = addColumnIfMissing("applications", "license_category_other_details")
  BY DEF OtherDetailsDown, OtherDetailsUp, ProvidedNames
<1>6. /\ TablesOf(5) = SchemaTables /\ TablesOf(6) = SchemaTables
      /\ 5 \in Migrations /\ 6 \in Migrations /\ "applications" \in SchemaTables
  BY MigrationNumbers DEF TablesOf, UserAuditLog, SchemaTables
<1>7. /\ ProvidedNames[5] \subseteq ProvidedNames[5] \ (SchemaTables \cup {"user_audit_logs"})
      /\ ProvidedNames[6] \subseteq ProvidedNames[6] \ (SchemaTables \cup {"user_audit_logs"})
  BY DEF ProvidedNames, SchemaTables
<1>8. ASSUME NEW i \in 1..8 PROVE DropsObjects(ProfileFieldsDown[i], 5)
  <2>1. PICK n \in ProvidedNames[5] \ (SchemaTables \cup {"user_audit_logs"}) :
          ProfileFieldsDown[i] = removeColumnIfPresent("applications", n)
    BY <1>4, <1>7, <1>8
  <2>2. DropsObjects(removeColumnIfPresent("applications", n), 5)
    BY <1>6, DroppingForm
  <2> QED
    BY <2>1, <2>2
<1>9. DropsObjects(OtherDetailsDown[1], 6)
  BY <1>5, <1>6, <1>7, DroppingForm
<1>10. \A n : Undoes(removeColumnIfPresent("applications", n),
                     addColumnIfMissing("applications", n))
  BY DEF Undoes, removeColumnIfPresent, addColumnIfMissing, Statement
<1>11. Reverts(5) /\ Reverts(6)
  BY <1>1, <1>2, <1>3, <1>4, <1>5, <1>10 DEF Reverts
<1> QED
  BY <1>1, <1>2, <1>3, <1>8, <1>9, <1>11

LEMMA TypedRequestsReverts ==
  /\ Len(Down[7]) = 4 /\ DOMAIN Down[7] = 1..4
  /\ \A j \in 1..3 : DropsObjects(Down[7][j], 7)
  /\ Retypes(Down[7][4], 7)
  /\ Reverts(7)
<1>1. /\ Down[7] = TypedRequestsDown /\ Up[7] = TypedRequestsUp
  BY DEF Down, Up
<1>2. /\ Len(TypedRequestsDown) = 4 /\ DOMAIN TypedRequestsDown = 1..4
      /\ DOMAIN TypedRequestsUp = 1..4 /\ TypedRequestsUp[1] = retype(DocumentTypes)
      /\ TypedRequestsDown[4] = retype({"core"})
  BY DEF TypedRequestsDown, TypedRequestsUp
<1>3. ASSUME NEW j \in 1..3
      PROVE  \E n \in ProvidedNames[7] :
               TypedRequestsDown[j] = removeColumn("application_reviews", n)
  BY <1>3 DEF TypedRequestsDown, ProvidedNames
<1>4. ASSUME NEW i \in 2..4
      PROVE  \E j \in 1..3, n \in ProvidedNames[7] :
               /\ TypedRequestsDown[j] = removeColumn("application_reviews", n)
               /\ TypedRequestsUp[i] = addColumn("application_reviews", n)
  BY <1>4 DEF TypedRequestsDown, TypedRequestsUp, ProvidedNames
<1>5. /\ TablesOf(7) = SchemaTables /\ 7 \in Migrations
      /\ "application_reviews" \in SchemaTables
  BY MigrationNumbers DEF TablesOf, UserAuditLog, SchemaTables
<1>6. ProvidedNames[7] \subseteq ProvidedNames[7] \ (SchemaTables \cup {"user_audit_logs"})
  BY DEF ProvidedNames, SchemaTables
<1>7. ASSUME NEW j \in 1..3 PROVE DropsObjects(TypedRequestsDown[j], 7)
  <2>1. PICK n \in ProvidedNames[7] \ (SchemaTables \cup {"user_audit_logs"}) :
          TypedRequestsDown[j] = removeColumn("application_reviews", n)
    BY <1>3, <1>6, <1>7
  <2>2. DropsObjects(removeColumn("application_reviews", n), 7)
    BY <1>5, DroppingForm
  <2> QED
    BY <2>1, <2>2
<1>8. Retypes(retype({"core"}), 7)
  BY DEF Retypes, retype, EnumAlignment, TypedRequests
<1>9. \A n : Undoes(removeColumn("application_reviews", n), addColumn("application_reviews", n))
  BY DEF Undoes, removeColumn, addColumn, Statement
<1>10. retype(DocumentTypes).do # "create"
  BY DEF retype, Statement
<1>11. Reverts(7)
  <2>1. ASSUME NEW i \in 1..4, TypedRequestsUp[i].do = "create"
        PROVE  \E j \in 1..4 : Undoes(TypedRequestsDown[j], TypedRequestsUp[i])
    <3>1. i \in 2..4
      BY <1>2, <1>10, <2>1
    <3>2. PICK j \in 1..3, n \in ProvidedNames[7] :
            /\ TypedRequestsDown[j] = removeColumn("application_reviews", n)
            /\ TypedRequestsUp[i] = addColumn("application_reviews", n)
      BY <1>4, <3>1
    <3>3. j \in 1..4
      OBVIOUS
    <3> QED
      BY <1>9, <3>2, <3>3
  <2> QED
    BY <1>1, <1>2, <2>1 DEF Reverts
<1> QED
  BY <1>1, <1>2, <1>7, <1>8, <1>11

LEMMA UserAuditLogReverts ==
  /\ Len(Down[8]) = 2 /\ DOMAIN Down[8] = 1..2
  /\ DropsObjects(Down[8][1], 8) /\ DropsTable(Down[8][2], 8)
  /\ Reverts(8)
<1>1. /\ Len(Down[8]) = 2 /\ DOMAIN Down[8] = 1..2
      /\ Down[8][1] = dropTrigger("user_audit_logs", "user_audit_logs_append_only_trigger")
      /\ Down[8][2] = dropTable("user_audit_logs")
  BY DEF Down, UserAuditLogDown
<1>2. /\ TablesOf(8) = {"user_audit_logs"} /\ 8 \in Migrations
  BY MigrationNumbers DEF TablesOf, UserAuditLog
<1>3. "user_audit_logs_append_only_trigger" \in
        ProvidedNames[8] \ (SchemaTables \cup {"user_audit_logs"})
  BY DEF ProvidedNames, SchemaTables
<1>4. DropsObjects(Down[8][1], 8)
  BY <1>1, <1>2, <1>3, DroppingForm
<1>5. DropsTable(Down[8][2], 8)
  BY <1>1, <1>2 DEF DropsTable, UserAuditLog
<1>6. \A i \in DOMAIN Up[8] : Up[8][i].table = "user_audit_logs"
  BY <1>2, UserAuditLogForms, CreatedShapes
<1> QED
  BY <1>1, <1>4, <1>5, <1>6 DEF Reverts, Undoes

(* All of them together.                                                   *)
LEMMA UpForms ==
  ASSUME NEW m \in Migrations
  PROVE  /\ Len(Up[m]) \in Nat \ {0} /\ DOMAIN Up[m] = 1..Len(Up[m])
         /\ \A i \in DOMAIN Up[m] : Creates(Up[m][i], m) \/ Retypes(Up[m][i], m)
<1>1. m \in 1..8
  BY MigrationNumbers
<1>2. CASE m = 1
  BY <1>2, InitialSchemaForms
<1>3. CASE m = 2
  BY <1>3, HardeningForms
<1>4. CASE m = 3
  BY <1>4, IndexHardeningForms
<1>5. CASE m = 4
  BY <1>5, EnumForms
<1>6. CASE m = 5 \/ m = 6
  BY <1>6, ColumnForms
<1>7. CASE m = 7
  <2>1. \A i \in 1..4 : i = 1 \/ i \in 2..4
    OBVIOUS
  <2> QED
    BY <1>7, <2>1, TypedRequestsForms
<1>8. CASE m = 8
  BY <1>8, UserAuditLogForms
<1> QED
  BY <1>1, <1>2, <1>3, <1>4, <1>5, <1>6, <1>7, <1>8

LEMMA DownForms ==
  ASSUME NEW m \in Migrations
  PROVE  /\ Len(Down[m]) \in Nat \ {0} /\ DOMAIN Down[m] = 1..Len(Down[m])
         /\ \A j \in DOMAIN Down[m] : \/ DropsTable(Down[m][j], m)
                                      \/ m # InitialSchema /\ DropsObjects(Down[m][j], m)
                                      \/ Retypes(Down[m][j], m)
         /\ Reverts(m)
<1>1. m \in 1..8
  BY MigrationNumbers
<1>2. CASE m = 1
  BY <1>2, InitialSchemaReverts
<1>3. CASE m = 2
  BY <1>3, HardeningReverts DEF InitialSchema
<1>4. CASE m = 3
  BY <1>4, IndexHardeningReverts DEF InitialSchema
<1>5. CASE m = 4
  <2>1. ~\E i \in DOMAIN Up[4] : Up[4][i].do = "create"
    BY EnumForms DEF Retypes, Statement
  <2> QED
    BY <1>5, <2>1, EnumForms DEF Reverts
<1>6. CASE m = 5 \/ m = 6
  BY <1>6, ColumnReverts DEF InitialSchema
<1>7. CASE m = 7
  <2>1. \A i \in 1..4 : i = 4 \/ i \in 1..3
    OBVIOUS
  <2> QED
    BY <1>7, <2>1, TypedRequestsReverts DEF InitialSchema
<1>8. CASE m = 8
  <2>1. \A i \in 1..2 : i = 1 \/ i = 2
    OBVIOUS
  <2> QED
    BY <1>8, <2>1, UserAuditLogReverts DEF InitialSchema
<1> QED
  BY <1>1, <1>2, <1>3, <1>4, <1>5, <1>6, <1>7, <1>8

(* initial-schema creates audit_logs after the tables with the first four  *)
(* keys of the service, and drops it before them.                          *)
FirstKeys ==
  {<<"users", "users_email_key">>,
   <<"applications", "applications_reference_number_key">>,
   <<"application_reviews", "application_reviews_application_id_cycle_number_key">>,
   <<"document_versions", "document_versions_document_id_version_number_key">>}

LEMMA AuditLogsLastUp ==
  /\ \A i \in 1..12 : Up[1][i].table # "audit_logs"
  /\ \A o \in FirstKeys : \E i \in 1..12 : Up[1][i].do = "create" /\ o \in Named(Up[1][i])
<1>1. Up[1] = InitialSchemaUp
  BY DEF Up
<1>2. ASSUME NEW i \in 1..12
      PROVE  \/ \E t \in SchemaTables \ {"audit_logs"} : InitialSchemaUp[i] = createTable(t)
             \/ \E t \in SchemaTables \ {"audit_logs"}, n \in ProvidedNames[1] \ SchemaTables :
                  InitialSchemaUp[i] = addIndex(t, n)
  BY <1>2 DEF InitialSchemaUp, AccountTables, ApplicationTables, DocumentTables, AuditLogTable,
         SessionTables, SchemaTables, ProvidedNames
<1>3. \A t, n : createTable(t).table = t /\ addIndex(t, n).table = t
  BY DEF createTable, addIndex, Statement
<1>4. /\ InitialSchemaUp[2] = addIndex("users", "users_email_key")
      /\ InitialSchemaUp[7] = addIndex("applications", "applications_reference_number_key")
      /\ InitialSchemaUp[9] = addIndex("application_reviews",
                                "application_reviews_application_id_cycle_number_key")
      /\ InitialSchemaUp[12] = addIndex("document_versions",
                                 "document_versions_document_id_version_number_key")
  BY DEF InitialSchemaUp, AccountTables, ApplicationTables, DocumentTables, AuditLogTable,
         SessionTables
<1>5. \A t, n : addIndex(t, n).do = "create" /\ <<t, n>> \in Named(addIndex(t, n))
  BY DEF addIndex, Statement, Named
<1>6. \A o \in FirstKeys : \E i \in 1..12 : InitialSchemaUp[i].do = "create"
                                             /\ o \in Named(InitialSchemaUp[i])
  BY <1>4, <1>5 DEF FirstKeys
<1> QED
  BY <1>1, <1>2, <1>3, <1>6

LEMMA AuditLogsFirstDown ==
  /\ Down[1][3] = dropTable("audit_logs")
  /\ \A i \in 1..3 : \A o \in FirstKeys : Down[1][i].table # o[1]
<1>1. /\ Down[1][1] = dropTable("auth_tokens") /\ Down[1][2] = dropTable("sessions")
      /\ Down[1][3] = dropTable("audit_logs")
  BY DEF Down, InitialSchemaDown
<1>2. \A t : dropTable(t).table = t
  BY DEF dropTable, Statement
<1>3. \A i \in 1..3 : Down[1][i].table \in {"auth_tokens", "sessions", "audit_logs"}
  BY <1>1, <1>2
<1>4. \A o \in FirstKeys : o[1] \notin {"auth_tokens", "sessions", "audit_logs"}
  BY DEF FirstKeys
<1> QED
  BY <1>1, <1>3, <1>4

-----------------------------------------------------------------------------
(* The objects a migration is there to create.                             *)

Own(m) == {o \in Objects : <<m, o>> \in Provided}

LEMMA OwnCreated ==
  ASSUME NEW m \in Migrations, NEW o
  PROVE  o \in Own(m) <=>
           \E i \in DOMAIN Up[m] : Up[m][i].do = "create" /\ o \in Named(Up[m][i])
<1>1. \A s : s \in ToSet(Up[m]) <=> \E i \in DOMAIN Up[m] : s = Up[m][i]
  BY DEF ToSet
<1>2. <<m, o>> \in Provided <=>
        \E s \in ToSet(Up[m]) : s.do = "create" /\ o \in Named(s)
  BY DEF Provided
<1>3. <<m, o>> \in Provided => o \in Objects
  BY DEF Objects
<1> QED
  BY <1>1, <1>2, <1>3 DEF Own

LEMMA NamesDisjoint ==
  ASSUME NEW m \in Migrations, NEW k \in Migrations, m # k
  PROVE  ProvidedNames[m] \cap ProvidedNames[k] = {}
<1>1. m \in 1..8 /\ k \in 1..8
  BY MigrationNumbers
<1> QED
  BY <1>1 DEF ProvidedNames, SchemaTables

(* Objects of a migration carry its names and stand in its tables.         *)
LEMMA OwnForm ==
  ASSUME NEW m \in Migrations, NEW o \in Own(m)
  PROVE  /\ o = <<o[1], o[2]>> /\ o[1] \in TablesOf(m) /\ o[2] \in ProvidedNames[m]
         /\ o[2] \in SchemaTables \cup {"user_audit_logs"} => o[2] = o[1]
<1>1. PICK i \in DOMAIN Up[m] : Up[m][i].do = "create" /\ o \in Named(Up[m][i])
  BY OwnCreated
<1>2. Creates(Up[m][i], m)
  <2>1. Retypes(Up[m][i], m) => Up[m][i].do # "create"
    BY DEF Retypes, Statement
  <2> QED
    BY <1>1, <2>1, UpForms
<1>3. PICK n \in ProvidedNames[m] :
        /\ Up[m][i].names = {n} /\ Up[m][i].table \in TablesOf(m)
        /\ n \in SchemaTables \cup {"user_audit_logs"} => n = Up[m][i].table
  BY <1>2, CreatedShapes
<1>4. o = <<Up[m][i].table, n>>
  BY <1>1, <1>3 DEF Named
<1> QED
  BY <1>3, <1>4

LEMMA EveryObjectIsOwned == \A o \in Objects : \E m \in Migrations : o \in Own(m)
<1> SUFFICES ASSUME NEW o \in Objects PROVE \E m \in Migrations : o \in Own(m)
  OBVIOUS
<1>1. PICK p \in Provided : o = p[2]
  BY DEF Objects
<1>2. PICK m \in Migrations : \E s \in ToSet(Up[m]) : p \in {m} \X Named(s)
  BY <1>1 DEF Provided
<1>3. p = <<m, o>>
  BY <1>1, <1>2
<1> QED
  BY <1>1, <1>3 DEF Own

LEMMA ObjectForm ==
  ASSUME NEW o \in Objects
  PROVE  o = <<o[1], o[2]>> /\ o[1] \in SchemaTables \cup {"user_audit_logs"}
<1>1. PICK m \in Migrations : o \in Own(m)
  BY EveryObjectIsOwned
<1> QED
  BY <1>1, OwnForm DEF TablesOf

-----------------------------------------------------------------------------
(* What the kinds of statements do to the schema.                          *)

LEMMA CreateEffect ==
  ASSUME NEW m \in Migrations, NEW s, \E i \in DOMAIN Up[m] : s = Up[m][i],
         Creates(s, m), ~Refused(s), Execute(s)
  PROVE  \E t \in TablesOf(m), n \in ProvidedNames[m] :
           /\ <<t, n>> \in Own(m) /\ Named(s) = {<<t, n>>} /\ s.table = t
           /\ objects' = objects \cup {<<t, n>>}
           /\ n \in SchemaTables \cup {"user_audit_logs"} => n = t
           /\ n # t /\ <<t, n>> \notin objects => <<t, t>> \in objects
           /\ IF n = t /\ t = "documents" /\ <<"documents", "documents">> \notin objects
              THEN documentEnum' = DocumentTypes /\ stored' = stored
              ELSE documentEnum' = documentEnum /\ stored' = stored
<1>1. PICK n \in ProvidedNames[m] :
        /\ s.names = {n}
        /\ n \in SchemaTables \cup {"user_audit_logs"} => n = s.table /\ s = createTable(s.table)
  BY CreatedShapes
<1>2. s.do = "create" /\ s.table \in TablesOf(m)
  BY CreatedShapes
<1>3. Named(s) = {<<s.table, n>>}
  BY <1>1 DEF Named
<1>4. <<s.table, n>> \in Own(m)
  BY <1>2, <1>3, OwnCreated
<1>5. objects' = objects \cup {<<s.table, n>>}
  BY <1>2, <1>3 DEF Execute
<1>6. n # s.table /\ <<s.table, n>> \notin objects => <<s.table, s.table>> \in objects
  BY <1>1, <1>2, <1>3 DEF Refused, Demanded, IsTable, Exists
<1>7. s \in {createTable("documents"), dropTable("documents")}
        <=> n = s.table /\ s.table = "documents"
  <2>1. createTable("documents").names = {"documents"}
        /\ createTable("documents").table = "documents" /\ dropTable("documents").do = "drop"
    BY DEF createTable, dropTable, Statement
  <2>2. "documents" \in SchemaTables
    BY DEF SchemaTables
  <2> QED
    BY <1>1, <1>2, <2>1, <2>2
<1>8. IF n = s.table /\ s.table = "documents" /\ <<"documents", "documents">> \notin objects
      THEN documentEnum' = DocumentTypes /\ stored' = stored
      ELSE documentEnum' = documentEnum /\ stored' = stored
  BY <1>2, <1>7 DEF Execute, Exists
<1> QED
  BY <1>1, <1>2, <1>3, <1>4, <1>5, <1>6, <1>8

LEMMA DropTableEffect ==
  ASSUME NEW m \in Migrations, NEW s, DropsTable(s, m), Execute(s)
  PROVE  \E t \in TablesOf(m) :
           /\ s = dropTable(t) /\ s.table = t /\ objects' = {o \in objects : o[1] # t}
           /\ documentEnum' = IF t = "documents" THEN {} ELSE documentEnum
           /\ stored' = IF t = "documents" THEN {} ELSE stored
<1>1. PICK t \in TablesOf(m) : s = dropTable(t)
  BY DEF DropsTable
<1>2. s.do = "drop" /\ s.table = t /\ s.names = {t}
  BY <1>1 DEF dropTable, Statement
<1>3. objects' = {o \in objects : o[1] # t}
  BY <1>2 DEF Execute, Dropped, IsTable
<1>4. s \in {createTable("documents"), dropTable("documents")} <=> t = "documents"
  BY <1>1, <1>2 DEF createTable, dropTable, Statement
<1> QED
  BY <1>1, <1>2, <1>3, <1>4 DEF Execute

LEMMA DropObjectsEffect ==
  ASSUME NEW m \in Migrations, NEW s, DropsObjects(s, m), Execute(s)
  PROVE  \E t \in TablesOf(m),
            ns \in SUBSET (ProvidedNames[m] \ (SchemaTables \cup {"user_audit_logs"})) :
           /\ s.do = "drop" /\ ~IsTable(s)
           /\ Named(s) = {<<t, n>> : n \in ns} /\ objects' = objects \ Named(s)
           /\ documentEnum' = documentEnum /\ stored' = stored
<1>1. PICK d \in {"objects", "table", "nothing"}, t \in TablesOf(m),
           ns \in SUBSET (ProvidedNames[m] \ (SchemaTables \cup {"user_audit_logs"})) :
        s = Statement("drop", d, t, ns)
  BY DEF DropsObjects
<1>2. s.do = "drop" /\ s.table = t /\ s.names = ns
  BY <1>1 DEF Statement
<1>3. t \in SchemaTables \cup {"user_audit_logs"}
  BY DEF TablesOf
<1>4. ~IsTable(s)
  BY <1>1, <1>2, <1>3 DEF IsTable
<1>5. s \notin {createTable("documents"), dropTable("documents")}
  BY <1>2, <1>4 DEF createTable, dropTable, Statement, IsTable
<1>6. Named(s) = {<<t, n>> : n \in ns}
  BY <1>2 DEF Named
<1> QED
  BY <1>2, <1>4, <1>5, <1>6 DEF Execute, Dropped

LEMMA RetypeEffect ==
  ASSUME NEW m \in Migrations, NEW s, Retypes(s, m), ~Refused(s), Execute(s)
  PROVE  /\ objects' = objects /\ s.names \in {{"old"}, {"core"}, DocumentTypes}
         /\ s.do \notin {"create", "drop"}
         /\ documentEnum = {} => documentEnum' = {} /\ stored' = stored
         /\ documentEnum # {} => documentEnum' = s.names /\ stored' \subseteq s.names
<1>1. s.do \in {"retype", "translate"} /\ s.names \in {{"old"}, {"core"}, DocumentTypes}
  BY DEF Retypes, Statement
<1>2. s \notin {createTable("documents"), dropTable("documents")}
  BY <1>1 DEF createTable, dropTable, Statement
<1>3. documentEnum # {} => Cast(s) \subseteq s.names
  BY <1>1 DEF Refused
<1> QED
  BY <1>1, <1>2, <1>3 DEF Execute

-----------------------------------------------------------------------------
(* Types.                                                                  *)

JobIsRecord ==
  job \in [migration : 0..8, direction : {"none", "up", "down"}, next : Nat,
           swallowed : BOOLEAN]

LEMMA RunningJob ==
  ASSUME TypeOK, JobIsRecord, job # NoJob
  PROVE  /\ job.migration \in Migrations /\ job.direction \in {"up", "down"}
         /\ job.direction = "up" => Statements(job) = Up[job.migration]
         /\ job.direction = "down" => Statements(job) = Down[job.migration]
         /\ Len(Statements(job)) \in Nat \ {0}
         /\ DOMAIN Statements(job) = 1..Len(Statements(job))
         /\ job.next \in 1..(Len(Statements(job)) + 1)
         /\ job.migration \in executed <=> job.direction = "down"
<1>1. /\ job.migration \in Migrations /\ job.direction \in {"up", "down"}
      /\ job.next \in 1..(Len(Statements(job)) + 1)
      /\ job.migration \in executed <=> job.direction = "down"
  BY DEF TypeOK
<1>2. /\ job.direction = "up" => Statements(job) = Up[job.migration]
      /\ job.direction = "down" => Statements(job) = Down[job.migration]
  BY DEF Statements
<1> QED
  BY <1>1, <1>2, UpForms, DownForms

(* The statement a migration is at.                                        *)
LEMMA CurrentForms ==
  ASSUME TypeOK, JobIsRecord, Ongoing
  PROVE  /\ job.next \in DOMAIN Statements(job) /\ job.migration \in Migrations
         /\ job.direction = "up" =>
              /\ job.next \in DOMAIN Up[job.migration] /\ Current = Up[job.migration][job.next]
              /\ Creates(Current, job.migration) \/ Retypes(Current, job.migration)
         /\ job.direction = "down" =>
              /\ job.next \in DOMAIN Down[job.migration]
              /\ Current = Down[job.migration][job.next]
              /\ \/ DropsTable(Current, job.migration)
                 \/ job.migration # InitialSchema /\ DropsObjects(Current, job.migration)
                 \/ Retypes(Current, job.migration)
<1>1. job # NoJob /\ job.next <= Len(Statements(job))
  BY DEF Ongoing
<1>2. job.next \in DOMAIN Statements(job)
  BY <1>1, RunningJob
<1> QED
  BY <1>1, <1>2, RunningJob, UpForms, DownForms DEF Current

LEMMA StartedJob ==
  ASSUME NEW m \in Migrations, NEW d \in {"up", "down"}, Start(m, d)
  PROVE  /\ JobIsRecord' /\ job = NoJob /\ job' # NoJob
         /\ job'.migration = m /\ job'.direction = d /\ job'.next = 1 /\ job'.swallowed = FALSE
         /\ job'.next \in 1..(Len(Statements(job')) + 1)
<1>1. job' = [migration |-> m, direction |-> d, next |-> 1, swallowed |-> FALSE] /\ job = NoJob
  BY DEF Start
<1>2. m \in 1..8
  BY MigrationNumbers
<1>3. Statements(job') = IF d = "up" THEN Up[m] ELSE Down[m]
  BY <1>1 DEF Statements
<1>4. Len(Statements(job')) \in Nat \ {0}
  BY <1>3, UpForms, DownForms
<1> QED
  BY <1>1, <1>2, <1>4 DEF JobIsRecord, NoJob

LEMMA NoJobIsRecord ==
  NoJob \in [migration : 0..8, direction : {"none", "up", "down"}, next : Nat,
             swallowed : BOOLEAN]
  BY DEF NoJob

(* The tables of the objects that exist stay, and the type of              *)
(* document_type comes and goes with documents.                            *)
SchemaTypes ==
  /\ objects \subseteq Objects
  /\ \A o \in objects : <<o[1], o[1]>> \in objects
  /\ documentEnum \in {{}, {"old"}, {"core"}, DocumentTypes}
  /\ documentEnum = {} <=> <<"documents", "documents">> \notin objects
  /\ stored \subseteq documentEnum
  /\ clashing \subseteq ClashingKeys \ objects

(* A key is not created over rows that break it.                           *)
LEMMA ExecuteKeepsClashing ==
  ASSUME NEW s, clashing \subseteq ClashingKeys \ objects, ~Refused(s), Execute(s)
  PROVE  clashing' \subseteq ClashingKeys \ objects'
<1>1. clashing' \subseteq clashing
  BY DEF Execute
<1>2. CASE s.do = "create"
  <2>1. objects' = objects \cup Named(s) /\ Named(s) \cap clashing = {}
    BY <1>2 DEF Execute, Refused
  <2> QED
    BY <1>1, <2>1
<1>3. CASE s.do # "create"
  BY <1>1, <1>3 DEF Execute
<1> QED
  BY <1>2, <1>3

LEMMA ExecuteKeepsSchemaTypes ==
  ASSUME TypeOK, JobIsRecord, Ongoing, ~Refused(Current), Execute(Current)
  PROVE  SchemaTypes'
<1> DEFINE m == job.migration
<1>0. clashing' \subseteq ClashingKeys \ objects'
  BY ExecuteKeepsClashing DEF TypeOK
<1>1. SchemaTypes /\ m \in Migrations
  BY CurrentForms DEF TypeOK, SchemaTypes
<1>2. DocumentTypes # {} /\ {"old"} # {} /\ {"core"} # {}
  BY DEF DocumentTypes
<1>3. CASE job.direction = "up" /\ Creates(Current, m)
  <2>1. PICK t \in TablesOf(m), n \in ProvidedNames[m] :
           /\ <<t, n>> \in Own(m)
           /\ objects' = objects \cup {<<t, n>>}
           /\ n # t /\ <<t, n>> \notin objects => <<t, t>> \in objects
           /\ IF n = t /\ t = "documents" /\ <<"documents", "documents">> \notin objects
              THEN documentEnum' = DocumentTypes /\ stored' = stored
              ELSE documentEnum' = documentEnum /\ stored' = stored
    BY <1>1, <1>3, CurrentForms, CreateEffect
  <2>2. objects' \subseteq Objects
    BY <1>1, <2>1 DEF Own, SchemaTypes
  <2>3. ASSUME NEW o \in objects' PROVE <<o[1], o[1]>> \in objects'
    BY <1>1, <2>1, <2>3 DEF SchemaTypes
  <2>4. <<"documents", "documents">> \in objects' <=>
          <<"documents", "documents">> \in objects \/ (n = t /\ t = "documents")
    BY <2>1
  <2> QED
    BY <1>0, <1>1, <1>2, <2>1, <2>2, <2>3, <2>4 DEF SchemaTypes
<1>4. CASE job.direction = "down" /\ DropsTable(Current, m)
  <2>1. PICK t \in TablesOf(m) :
           /\ objects' = {o \in objects : o[1] # t}
           /\ documentEnum' = IF t = "documents" THEN {} ELSE documentEnum
           /\ stored' = IF t = "documents" THEN {} ELSE stored
    BY <1>1, <1>4, DropTableEffect
  <2> QED
    BY <1>0, <1>1, <2>1 DEF SchemaTypes
<1>5. CASE job.direction = "down" /\ DropsObjects(Current, m)
  <2>1. PICK t \in TablesOf(m),
             ns \in SUBSET (ProvidedNames[m] \ (SchemaTables \cup {"user_audit_logs"})) :
           /\ Named(Current) = {<<t, n>> : n \in ns} /\ objects' = objects \ Named(Current)
           /\ documentEnum' = documentEnum /\ stored' = stored
    BY <1>1, <1>5, DropObjectsEffect
  <2>2. \A u \in SchemaTables \cup {"user_audit_logs"} : <<u, u>> \notin Named(Current)
    BY <2>1
  <2>3. \A o \in objects : o[1] \in SchemaTables \cup {"user_audit_logs"}
    BY <1>1, ObjectForm DEF SchemaTypes
  <2>4. "documents" \in SchemaTables
    BY DEF SchemaTables
  <2> QED
    BY <1>0, <1>1, <2>1, <2>2, <2>3, <2>4 DEF SchemaTypes
<1>6. CASE Retypes(Current, m)
  <2>1. /\ objects' = objects /\ Current.names \in {{"old"}, {"core"}, DocumentTypes}
        /\ documentEnum = {} => documentEnum' = {} /\ stored' = stored
        /\ documentEnum # {} =>
             documentEnum' = Current.names /\ stored' \subseteq Current.names
    BY <1>1, <1>6, RetypeEffect
  <2> QED
    BY <1>0, <1>1, <1>2, <2>1 DEF SchemaTypes
<1> QED
  BY <1>3, <1>4, <1>5, <1>6, CurrentForms, RunningJob DEF Ongoing

(* The migrator's own part.                                                *)
MigratorTypes ==
  /\ executed \subseteq Migrations
  /\ job = NoJob \/
       /\ job.migration \in Migrations
       /\ job.direction \in {"up", "down"}
       /\ job.next \in 1..(Len(Statements(job)) + 1)
       /\ job.swallowed \in BOOLEAN
       /\ (job.migration \in executed) = (job.direction = "down")
  /\ ended \in [Migrations -> {"clean", "swallowed", "torn"}]
  /\ undermined \in BOOLEAN
  /\ faults \in 0..MaxFaults

LEMMA TypeParts == TypeOK <=> SchemaTypes /\ MigratorTypes
  BY DEF TypeOK, SchemaTypes, MigratorTypes

LEMMA TypePartsNext == TypeOK' <=> SchemaTypes' /\ MigratorTypes'
  BY DEF TypeOK, SchemaTypes, MigratorTypes

(* The service stores rows: nothing of the schema changes.                 *)
Stores ==
  \/ \E type \in DocumentTypes : storeDocument(type)
  \/ \E key \in ClashingKeys : storeTwice(key)

LEMMA SameSchemaTypes == SchemaTypes /\ UNCHANGED schema => SchemaTypes'
  BY DEF SchemaTypes, schema

(* A migration that goes on: the same one, at another statement.           *)
LEMMA GoesOn ==
  ASSUME TypeOK, JobIsRecord, job # NoJob, UNCHANGED <<executed, undermined>>,
         NEW next \in 1..(Len(Statements(job)) + 1), NEW swallowed \in BOOLEAN,
         job' = [job EXCEPT !.next = next, !.swallowed = swallowed],
         ended' = ended, faults' \in 0..MaxFaults
  PROVE  /\ MigratorTypes' /\ JobIsRecord' /\ job' # NoJob
         /\ job'.migration = job.migration /\ job'.direction = job.direction
         /\ job'.next = next /\ job'.swallowed = swallowed
         /\ Statements(job') = Statements(job)
<1>1. next \in Nat /\ job.migration \in Migrations /\ job.direction \in {"up", "down"}
  BY RunningJob
<1>2. /\ job'.migration = job.migration /\ job'.direction = job.direction
      /\ job'.next = next /\ job'.swallowed = swallowed
  BY DEF JobIsRecord
<1>3. JobIsRecord'
  BY <1>1 DEF JobIsRecord
<1>4. Statements(job') = Statements(job)
  BY <1>2 DEF Statements
<1>5. job' # NoJob
  BY <1>1, <1>2 DEF NoJob
<1>6. MigratorTypes'
  BY <1>1, <1>2, <1>4, RunningJob DEF TypeOK, MigratorTypes
<1> QED
  BY <1>2, <1>3, <1>4, <1>5, <1>6

(* A migration that is given up.                                           *)
LEMMA GivenUp ==
  ASSUME TypeOK, JobIsRecord, job # NoJob, Abort, UNCHANGED <<executed, undermined>>,
         faults' \in 0..MaxFaults
  PROVE  MigratorTypes' /\ JobIsRecord'
<1>1. job' = NoJob /\ ended' \in [Migrations -> {"clean", "swallowed", "torn"}]
  BY RunningJob DEF Abort, TypeOK
<1> QED
  BY <1>1, NoJobIsRecord DEF MigratorTypes, TypeOK, JobIsRecord

LEMMA Caught ==
  ASSUME TypeOK, JobIsRecord, Ongoing, catch, UNCHANGED <<schema, executed, undermined>>,
         faults' \in 0..MaxFaults
  PROVE  TypeOK' /\ JobIsRecord'
<1>1. job # NoJob
  BY DEF Ongoing
<1>2. MigratorTypes' /\ JobIsRecord'
  <2>1. CASE job.migration \in Swallowing
    <3>1. Len(Statements(job)) + 1 \in 1..(Len(Statements(job)) + 1)
      BY <1>1, RunningJob
    <3>2. /\ job' = [job EXCEPT !.next = Len(Statements(job)) + 1, !.swallowed = TRUE]
          /\ ended' = ended
      BY <2>1 DEF catch
    <3> QED
      BY <1>1, <3>1, <3>2, GoesOn
  <2>2. CASE job.migration \notin Swallowing
    BY <1>1, <2>2, GivenUp DEF catch
  <2> QED
    BY <2>1, <2>2
<1> QED
  BY <1>2, TypeParts, TypePartsNext, SameSchemaTypes

LEMMA TypesInit == Init => TypeOK /\ JobIsRecord
<1> SUFFICES ASSUME Init PROVE TypeOK /\ JobIsRecord
  OBVIOUS
<1>1. SchemaTypes
  BY DEF Init, SchemaTypes
<1>2. MigratorTypes
  <2>1. 0 \in 0..MaxFaults
    BY BoundsAssumption DEF BoundsAssumption
  <2> QED
    BY <2>1 DEF Init, MigratorTypes
<1> QED
  BY <1>1, <1>2, TypeParts, NoJobIsRecord DEF Init, JobIsRecord

LEMMA TypesNext == TypeOK /\ JobIsRecord /\ [Next]_vars => TypeOK' /\ JobIsRecord'
<1> SUFFICES ASSUME TypeOK, JobIsRecord, [Next]_vars PROVE TypeOK' /\ JobIsRecord'
  OBVIOUS
<1>0. SchemaTypes /\ MigratorTypes
  BY TypeParts
<1>1. ASSUME NEW m \in Migrations, NEW d \in {"up", "down"}, Start(m, d),
             m \in executed <=> d = "down", undermined' \in BOOLEAN
      PROVE  TypeOK' /\ JobIsRecord'
  <2>1. /\ JobIsRecord' /\ job'.migration = m /\ job'.direction = d /\ job'.next = 1
        /\ job'.swallowed = FALSE /\ job'.next \in 1..(Len(Statements(job')) + 1)
    BY <1>1, StartedJob
  <2>2. UNCHANGED <<schema, executed, ended, faults>>
    BY <1>1 DEF Start
  <2>3. /\ executed' = executed /\ ended' = ended /\ faults' = faults
    BY <2>2
  <2>4. (job'.migration \in executed') = (job'.direction = "down")
    BY <1>1, <2>1, <2>3
  <2>5. MigratorTypes'
    BY <1>0, <1>1, <2>1, <2>3, <2>4 DEF MigratorTypes
  <2> QED
    BY <1>0, <2>1, <2>2, <2>5, TypePartsNext, SameSchemaTypes
<1>2. CASE up
  <2>1. PICK m \in Pending : Start(m, "up")
    BY <1>2 DEF up
  <2>2. m \in Migrations /\ m \notin executed /\ undermined' \in BOOLEAN
    BY <1>0, <1>2 DEF up, Pending, MigratorTypes
  <2> QED
    BY <1>1, <2>1, <2>2
<1>3. ASSUME NEW m \in Migrations, down(m) PROVE TypeOK' /\ JobIsRecord'
  <2>1. m \in executed /\ Start(m, "down") /\ undermined' \in BOOLEAN
    BY <1>0, <1>3 DEF down, MigratorTypes
  <2> QED
    BY <1>1, <2>1
<1>4. CASE execute
  <2>1. SchemaTypes'
    BY <1>4, ExecuteKeepsSchemaTypes DEF execute
  <2>2. job # NoJob /\ job.next <= Len(Statements(job))
    BY <1>4 DEF execute, Ongoing
  <2>3. job.next + 1 \in 1..(Len(Statements(job)) + 1)
    BY <2>2, RunningJob
  <2>4. job' = [job EXCEPT !.next = job.next + 1, !.swallowed = job.swallowed]
    BY <1>4 DEF execute, JobIsRecord
  <2>5. UNCHANGED <<executed, undermined>> /\ ended' = ended /\ faults' \in 0..MaxFaults
    BY <1>0, <1>4 DEF execute, MigratorTypes
  <2>6. job.swallowed \in BOOLEAN
    BY DEF JobIsRecord
  <2>7. MigratorTypes' /\ JobIsRecord'
    BY <2>2, <2>3, <2>4, <2>5, <2>6, GoesOn
  <2> QED
    BY <2>1, <2>7, TypePartsNext
<1>5. CASE refuse
  BY <1>0, <1>5, Caught DEF refuse, MigratorTypes
<1>6. CASE statementFails
  <2>1. faults' \in 0..MaxFaults
    BY <1>0, <1>6, BoundsAssumption
       DEF statementFails, Fault, MigratorTypes, BoundsAssumption
  <2> QED
    BY <1>6, <2>1, Caught DEF statementFails
<1>7. CASE stop
  <2>1. faults' \in 0..MaxFaults
    BY <1>0, <1>7, BoundsAssumption DEF stop, Fault, MigratorTypes, BoundsAssumption
  <2>2. MigratorTypes' /\ JobIsRecord'
    BY <1>7, <2>1, GivenUp DEF stop
  <2> QED
    BY <1>0, <1>7, <2>2, TypePartsNext, SameSchemaTypes DEF stop
<1>8. CASE record
  <2>1. job' = NoJob /\ executed' \subseteq Migrations
        /\ ended' \in [Migrations -> {"clean", "swallowed", "torn"}]
    BY <1>0, <1>8, RunningJob DEF record, MigratorTypes
  <2>2. MigratorTypes' /\ JobIsRecord'
    BY <1>0, <1>8, <2>1, NoJobIsRecord DEF record, MigratorTypes, JobIsRecord
  <2> QED
    BY <1>0, <1>8, <2>2, TypePartsNext, SameSchemaTypes DEF record
<1>9. ASSUME Stores PROVE TypeOK' /\ JobIsRecord'
  <2>1. SchemaTypes'
    BY <1>0, <1>9 DEF Stores, storeDocument, storeTwice, SchemaTypes
  <2>2. MigratorTypes' /\ JobIsRecord'
    BY <1>0, <1>9 DEF Stores, storeDocument, storeTwice, MigratorTypes, JobIsRecord
  <2> QED
    BY <2>1, <2>2, TypePartsNext
<1>10. CASE UNCHANGED vars
  <2>1. SchemaTypes' /\ MigratorTypes' /\ JobIsRecord'
    BY <1>0, <1>10 DEF vars, schema, SchemaTypes, MigratorTypes, JobIsRecord
  <2> QED
    BY <2>1, TypePartsNext
<1> QED
  BY <1>2, <1>3, <1>4, <1>5, <1>6, <1>7, <1>8, <1>9, <1>10 DEF Next, Stores

(* Every state is one the schema and the migrator can be in: no object     *)
(* without its table, the enum of documents exactly while the table exists,*)
(* and "down" only of what is recorded, "up" of what is not (umzug).       *)
THEOREM MigrationTypes == Spec => []TypeOK
<1>1. Spec => [](TypeOK /\ JobIsRecord)
  BY TypesInit, TypesNext, PTL DEF Spec
<1> QED
  BY <1>1, PTL

-----------------------------------------------------------------------------
(* The invariant.                                                          *)

(* "up" runs a migration on everything before it; nothing is recorded after*)
(* a reverted migration that others build on.                              *)
Founded ==
  /\ job.direction = "up" => \A k \in Migrations : k < job.migration => k \in executed
  /\ ~undermined =>
       \A b \in BuiltUpon :
         b \notin executed \/ (job.direction = "down" /\ job.migration = b) =>
           \A k \in executed : k <= b

(* The objects "os" are what they are when s has been executed.            *)
Finished(s, os) ==
  /\ s.do = "create" => Named(s) \subseteq os
  /\ s.do = "drop" => \A o \in os : o \notin Named(s) /\ (IsTable(s) => o[1] # s.table)

(* What the statements of a migration before the next did is still done.   *)
Progress ==
  job # NoJob /\ ~job.swallowed =>
    \A i \in 1..(job.next - 1) : Finished(Statements(job)[i], objects)

(* Errors are only swallowed where the code does so, and then end the run. *)
SwallowedWhere ==
  /\ job.swallowed => job.migration \in Swallowing /\ job.next = Len(Statements(job)) + 1
  /\ \A m \in Migrations : ended[m] = "swallowed" => m \in Swallowing

(* The last run of m ended well and no statement was executed since.       *)
Settled(m) == ended[m] = "clean" /\ (job.migration # m \/ job.next = 1)

Recorded ==
  ~undermined =>
    \A m \in Migrations :
      Settled(m) => \A o \in Own(m) : m \in executed <=> o \in objects

(* The enum has the new value from the first statement of                  *)
(* workflow-typed-info-requests on.                                        *)
Extended ==
  ~undermined =>
    /\ Settled(TypedRequests) /\ TypedRequests \in executed => documentEnum = DocumentTypes
    /\ job.migration = TypedRequests /\ job.direction = "up" /\ job.next > 1 =>
         documentEnum = DocumentTypes

(* db-index-hardening is not recorded without documents.                   *)
DocumentsThere ==
  ~undermined /\ 3 \in executed => <<"documents", "documents">> \in objects

KeysFirst == <<"audit_logs", "audit_logs">> \in objects => FirstKeys \subseteq objects

MigrationInv ==
  /\ TypeOK
  /\ JobIsRecord
  /\ Founded
  /\ Progress
  /\ SwallowedWhere
  /\ Recorded
  /\ Extended
  /\ DocumentsThere
  /\ KeysFirst

LEMMA MigrationInvInit == Init => MigrationInv
<1> SUFFICES ASSUME Init PROVE MigrationInv
  OBVIOUS
<1>1. TypeOK /\ JobIsRecord
  BY TypesInit
<1>2. /\ job = NoJob /\ executed = {} /\ objects = {}
      /\ \A m \in Migrations : ended[m] = "clean"
  BY DEF Init
<1>3. Founded /\ Progress /\ SwallowedWhere
  BY <1>2 DEF Founded, Progress, SwallowedWhere, NoJob
<1>4. Recorded /\ Extended /\ DocumentsThere /\ KeysFirst
  BY <1>2 DEF Recorded, Extended, DocumentsThere, KeysFirst, NoJob
<1> QED
  BY <1>1, <1>3, <1>4 DEF MigrationInv

LEMMA FoundedNext == MigrationInv /\ [Next]_vars => Founded'
<1> SUFFICES ASSUME MigrationInv, [Next]_vars PROVE Founded'
  OBVIOUS
<1> USE MigrationNumbers
<1>1. TypeOK /\ JobIsRecord /\ Founded /\ executed \subseteq Migrations
      /\ BuiltUpon \subseteq Migrations /\ BuiltUpon \subseteq Nat
  BY DEF MigrationInv, TypeOK, BuiltUpon, InitialSchema, EnumAlignment
<1>2. ASSUME UNCHANGED <<executed, undermined>>,
             \/ job' = NoJob
             \/ job'.direction = job.direction /\ job'.migration = job.migration
      PROVE  Founded'
  BY <1>1, <1>2 DEF Founded, NoJob
<1>3. ASSUME Ongoing, catch, UNCHANGED <<executed, undermined>> PROVE Founded'
  BY <1>1, <1>2, <1>3 DEF catch, Abort, JobIsRecord
<1>4. CASE up
  <2>1. PICK m \in Pending : (\A k \in Pending : m <= k) /\ Start(m, "up")
    BY <1>4 DEF up
  <2>2. job'.direction = "up" /\ job'.migration = m /\ executed' = executed
        /\ undermined' = undermined /\ m \in Migrations
    BY <1>4, <2>1, StartedJob DEF up, Pending, Start
  <2>3. \A k \in Migrations : k < m => k \in executed
    BY <2>1 DEF Pending
  <2> QED
    BY <1>1, <2>2, <2>3 DEF Founded
<1>5. ASSUME NEW m \in Migrations, down(m) PROVE Founded'
  <2>1. job'.direction = "down" /\ job'.migration = m /\ executed' = executed
    BY <1>5, StartedJob DEF down, Start
  <2>2. ASSUME ~undermined' PROVE ~undermined /\ (m \in BuiltUpon => ~\E k \in executed : k > m)
    BY <1>5, <2>2 DEF down
  <2> QED
    BY <1>1, <2>1, <2>2 DEF Founded
<1>6. CASE execute
  BY <1>1, <1>2, <1>6 DEF execute, JobIsRecord
<1>7. CASE refuse
  BY <1>3, <1>7 DEF refuse
<1>8. CASE statementFails
  BY <1>3, <1>8 DEF statementFails
<1>9. CASE stop
  BY <1>2, <1>9 DEF stop, Abort
<1>10. CASE record
  <2>1. job # NoJob /\ job' = NoJob /\ undermined' = undermined
        /\ executed' = IF job.direction = "up" THEN executed \cup {job.migration}
                                                ELSE executed \ {job.migration}
    BY <1>10 DEF record
  <2>2. job.migration \in Migrations /\ job.direction \in {"up", "down"}
        /\ (job.migration \in executed <=> job.direction = "down")
    BY <1>1, <2>1, RunningJob
  <2>3. job'.direction = "none"
    BY <2>1 DEF NoJob
  <2>4. ASSUME NEW b \in BuiltUpon, ~undermined, b \notin executed', NEW k \in executed'
        PROVE  k <= b
    BY <1>1, <2>1, <2>2, <2>4 DEF Founded
  <2> QED
    BY <2>1, <2>3, <2>4 DEF Founded
<1>11. ASSUME Stores PROVE Founded'
  BY <1>2, <1>11 DEF Stores, storeDocument, storeTwice
<1>12. CASE UNCHANGED vars
  BY <1>2, <1>12 DEF vars
<1> QED
  BY <1>4, <1>5, <1>6, <1>7, <1>8, <1>9, <1>10, <1>11, <1>12 DEF Next, Stores

(* A statement finishes what it does and nothing undoes it: "up" only      *)
(* creates and "down" only drops.                                          *)
LEMMA StatementsFinish ==
  ASSUME TypeOK, JobIsRecord, Ongoing, ~Refused(Current), Execute(Current)
  PROVE  /\ Finished(Current, objects')
         /\ \A i \in DOMAIN Statements(job) :
              Finished(Statements(job)[i], objects) => Finished(Statements(job)[i], objects')
<1> DEFINE m == job.migration
<1>1. m \in Migrations /\ job # NoJob /\ job.direction \in {"up", "down"}
  BY CurrentForms, RunningJob DEF Ongoing
<1>2. CASE job.direction = "up"
  <2>1. ASSUME NEW s, Retypes(s, m) PROVE s.do \notin {"create", "drop"}
    BY <2>1 DEF Retypes, Statement
  <2>2. ASSUME NEW s, Creates(s, m) PROVE s.do = "create"
    BY <2>2, CreatedShapes
  <2>3. \A i \in DOMAIN Up[m] : Up[m][i].do # "drop"
    BY <1>1, <2>1, <2>2, UpForms
  <2>4. objects \subseteq objects' /\ (Current.do = "create" => Named(Current) \subseteq objects')
        /\ Current.do # "drop"
    <3>1. CASE Creates(Current, m)
      BY <1>1, <1>2, <2>2, <3>1, CurrentForms DEF Execute
    <3>2. CASE Retypes(Current, m)
      BY <1>1, <2>1, <3>2, RetypeEffect
    <3> QED
      BY <1>2, <3>1, <3>2, CurrentForms
  <2>5. Statements(job) = Up[m]
    BY <1>1, <1>2, RunningJob
  <2>6. Finished(Current, objects')
    BY <2>4 DEF Finished
  <2>7. \A i \in DOMAIN Up[m] : Finished(Up[m][i], objects) => Finished(Up[m][i], objects')
    BY <2>3, <2>4 DEF Finished
  <2> QED
    BY <2>5, <2>6, <2>7
<1>3. CASE job.direction = "down"
  <2>1. ASSUME NEW s, Retypes(s, m) PROVE s.do \notin {"create", "drop"}
    BY <2>1 DEF Retypes, Statement
  <2>2. ASSUME NEW s, DropsTable(s, m) \/ DropsObjects(s, m) PROVE s.do = "drop"
    BY <2>2 DEF DropsTable, DropsObjects, dropTable, Statement
  <2>3. \A i \in DOMAIN Down[m] : Down[m][i].do # "create"
    BY <1>1, <2>1, <2>2, DownForms
  <2>4. /\ objects' \subseteq objects /\ Current.do # "create"
        /\ Current.do = "drop" => objects' = objects \ Dropped(Current)
    BY <1>1, <1>3, <2>1, <2>2, CurrentForms DEF Execute
  <2>5. Statements(job) = Down[m]
    BY <1>1, <1>3, RunningJob
  <2>6. Current.do = "drop" =>
          \A o \in objects' : o \notin Named(Current)
                              /\ (IsTable(Current) => o[1] # Current.table)
    BY <2>4 DEF Dropped, IsTable, Named
  <2>7. Finished(Current, objects')
    BY <2>4, <2>6 DEF Finished
  <2>8. \A i \in DOMAIN Down[m] : Finished(Down[m][i], objects) => Finished(Down[m][i], objects')
    BY <2>3, <2>4 DEF Finished
  <2> QED
    BY <2>5, <2>7, <2>8
<1> QED
  BY <1>1, <1>2, <1>3

LEMMA ProgressNext == MigrationInv /\ [Next]_vars => Progress'
<1> SUFFICES ASSUME MigrationInv, [Next]_vars PROVE Progress'
  OBVIOUS
<1>1. TypeOK /\ JobIsRecord /\ Progress
  BY DEF MigrationInv
<1>2. ASSUME job' = NoJob PROVE Progress'
  BY <1>2 DEF Progress
<1>3. ASSUME Ongoing, catch PROVE Progress'
  <2>1. CASE job.migration \in Swallowing
    <3>1. job'.swallowed = TRUE
      BY <1>1, <1>3, <2>1 DEF catch, JobIsRecord
    <3> QED
      BY <3>1 DEF Progress
  <2>2. CASE job.migration \notin Swallowing
    BY <1>2, <1>3, <2>2 DEF catch, Abort
  <2> QED
    BY <2>1, <2>2
<1>4. ASSUME NEW m \in Migrations, NEW d \in {"up", "down"}, Start(m, d) PROVE Progress'
  <2>1. job'.next = 1
    BY <1>4, StartedJob
  <2> QED
    BY <2>1 DEF Progress
<1>5. CASE up
  BY <1>4, <1>5 DEF up, Pending
<1>6. ASSUME NEW m \in Migrations, down(m) PROVE Progress'
  BY <1>4, <1>6 DEF down
<1>7. CASE execute
  <2>1. Ongoing /\ ~Refused(Current) /\ Execute(Current)
    BY <1>7 DEF execute
  <2>2. /\ job # NoJob /\ job.next \in 1..Len(Statements(job))
        /\ DOMAIN Statements(job) = 1..Len(Statements(job))
    BY <1>1, <2>1, CurrentForms, RunningJob DEF Ongoing
  <2>3. job'.next = job.next + 1 /\ job'.swallowed = job.swallowed
        /\ Statements(job') = Statements(job)
    BY <1>1, <1>7 DEF execute, JobIsRecord, Statements
  <2>4. ASSUME ~job.swallowed, NEW i \in 1..(job'.next - 1)
        PROVE  Finished(Statements(job)[i], objects')
    <3>1. CASE i = job.next
      <4>1. Statements(job)[i] = Current
        BY <3>1 DEF Current
      <4> QED
        BY <1>1, <2>1, <4>1, StatementsFinish
    <3>2. CASE i \in 1..(job.next - 1)
      BY <1>1, <2>1, <2>2, <2>4, <3>2, StatementsFinish DEF Progress
    <3> QED
      BY <2>2, <2>3, <2>4, <3>1, <3>2
  <2> QED
    BY <2>3, <2>4 DEF Progress
<1>8. CASE refuse
  BY <1>3, <1>8 DEF refuse
<1>9. CASE statementFails
  BY <1>3, <1>9 DEF statementFails
<1>10. CASE stop
  BY <1>2, <1>10 DEF stop, Abort
<1>11. CASE record
  BY <1>2, <1>11 DEF record
<1>12. ASSUME Stores PROVE Progress'
  BY <1>2, <1>12 DEF Stores, storeDocument, storeTwice
<1>13. CASE UNCHANGED vars
  BY <1>1, <1>13 DEF vars, schema, Progress, Finished
<1> QED
  BY <1>5, <1>6, <1>7, <1>8, <1>9, <1>10, <1>11, <1>12, <1>13 DEF Next, Stores

LEMMA SwallowedWhereNext == MigrationInv /\ [Next]_vars => SwallowedWhere'
<1> SUFFICES ASSUME MigrationInv, [Next]_vars PROVE SwallowedWhere'
  OBVIOUS
<1>1. TypeOK /\ JobIsRecord /\ SwallowedWhere
      /\ ended \in [Migrations -> {"clean", "swallowed", "torn"}]
  BY DEF MigrationInv, TypeOK
<1>2. ASSUME job' = NoJob \/ job'.swallowed = FALSE,
             \A m \in Migrations :
               ended'[m] = "swallowed" => ended[m] = "swallowed" \/ m \in Swallowing
      PROVE  SwallowedWhere'
  BY <1>1, <1>2 DEF SwallowedWhere, NoJob
<1>3. ASSUME job # NoJob, Abort PROVE SwallowedWhere'
  <2>1. \A m \in Migrations : ended'[m] = "swallowed" => ended[m] = "swallowed"
    BY <1>1, <1>3, RunningJob DEF Abort
  <2> QED
    BY <1>2, <1>3, <2>1 DEF Abort
<1>4. ASSUME Ongoing, catch PROVE SwallowedWhere'
  <2>1. CASE job.migration \in Swallowing
    <3>2. /\ job'.migration = job.migration /\ job'.next = Len(Statements(job)) + 1
          /\ ended' = ended
      BY <1>1, <1>4, <2>1 DEF catch, JobIsRecord
    <3>3. Statements(job') = Statements(job)
      BY <1>1, <1>4, <2>1 DEF catch, JobIsRecord, Statements
    <3> QED
      BY <1>1, <2>1, <3>2, <3>3 DEF SwallowedWhere
  <2>2. CASE job.migration \notin Swallowing
    BY <1>3, <1>4, <2>2 DEF catch, Ongoing
  <2> QED
    BY <2>1, <2>2
<1>5. ASSUME NEW m \in Migrations, NEW d \in {"up", "down"}, Start(m, d)
      PROVE  SwallowedWhere'
  BY <1>2, <1>5, StartedJob DEF Start
<1>6. CASE up
  BY <1>5, <1>6 DEF up, Pending
<1>7. ASSUME NEW m \in Migrations, down(m) PROVE SwallowedWhere'
  BY <1>5, <1>7 DEF down
<1>8. CASE execute
  <2>1. job'.swallowed = job.swallowed /\ ended' = ended
    BY <1>1, <1>8 DEF execute, JobIsRecord
  <2>2. /\ job.next \in 1..(Len(Statements(job)) + 1) /\ Len(Statements(job)) \in Nat
        /\ job.next <= Len(Statements(job))
    BY <1>1, <1>8, RunningJob DEF execute, Ongoing
  <2>3. ~job.swallowed
    BY <1>1, <2>2 DEF SwallowedWhere
  <2> QED
    BY <1>1, <2>1, <2>3 DEF SwallowedWhere
<1>9. CASE refuse
  BY <1>4, <1>9 DEF refuse
<1>10. CASE statementFails
  BY <1>4, <1>10 DEF statementFails
<1>11. CASE stop
  BY <1>3, <1>11 DEF stop
<1>12. CASE record
  <2>1. job' = NoJob
        /\ ended' = [ended EXCEPT ![job.migration] =
                       IF job.swallowed THEN "swallowed" ELSE "clean"]
    BY <1>12 DEF record
  <2>2. \A m \in Migrations :
          ended'[m] = "swallowed" => ended[m] = "swallowed" \/ m \in Swallowing
    BY <1>1, <2>1 DEF SwallowedWhere
  <2> QED
    BY <1>2, <2>1, <2>2
<1>13. ASSUME Stores PROVE SwallowedWhere'
  BY <1>2, <1>13 DEF Stores, storeDocument, storeTwice
<1>14. CASE UNCHANGED vars
  BY <1>1, <1>14 DEF vars, SwallowedWhere
<1> QED
  BY <1>6, <1>7, <1>8, <1>9, <1>10, <1>11, <1>12, <1>13, <1>14 DEF Next, Stores

(* A statement leaves what other migrations provide alone, but for a table *)
(* that initial-schema drops when no other migration is recorded.          *)
LEMMA OthersKept ==
  ASSUME TypeOK, JobIsRecord, Founded, ~undermined,
         Ongoing, ~Refused(Current), Execute(Current),
         NEW k \in Migrations, k # job.migration, NEW o \in Own(k)
  PROVE  /\ o \in objects' => o \in objects
         /\ k \in executed /\ o \in objects => o \in objects'
<1> DEFINE m == job.migration
<1>1. m \in Migrations /\ m # k /\ job.direction \in {"up", "down"}
  BY CurrentForms, RunningJob DEF Ongoing
<1>2. o = <<o[1], o[2]>> /\ o[1] \in TablesOf(k) /\ o[2] \in ProvidedNames[k]
  BY OwnForm
<1>3. o[2] \notin ProvidedNames[m]
  BY <1>1, <1>2, NamesDisjoint
<1>4. CASE job.direction = "up" /\ Creates(Current, m)
  <2>1. PICK t \in TablesOf(m), n \in ProvidedNames[m] : objects' = objects \cup {<<t, n>>}
    BY <1>1, <1>4, CurrentForms, CreateEffect
  <2>2. o # <<t, n>>
    BY <1>3, <2>1
  <2> QED
    BY <2>1, <2>2
<1>5. CASE job.direction = "down" /\ DropsTable(Current, m)
  <2>1. PICK t \in TablesOf(m) : objects' = {x \in objects : x[1] # t}
    BY <1>1, <1>5, DropTableEffect
  <2>2. m \in {1, 8}
    BY <1>5 DEF DropsTable, InitialSchema, UserAuditLog
  <2>3. CASE m = 1
    <3>1. k \in executed => k <= 1
      BY <1>5, <2>3 DEF Founded, BuiltUpon, InitialSchema
    <3>2. k \notin executed
      BY <1>1, <2>3, <3>1, MigrationNumbers
    <3> QED
      BY <2>1, <3>2
  <2>4. CASE m = 8
    <3>1. o[1] # t
      BY <1>1, <1>2, <2>1, <2>4 DEF TablesOf, UserAuditLog, SchemaTables
    <3> QED
      BY <2>1, <3>1
  <2> QED
    BY <2>2, <2>3, <2>4
<1>6. CASE job.direction = "down" /\ DropsObjects(Current, m)
  <2>1. PICK t \in TablesOf(m),
             ns \in SUBSET (ProvidedNames[m] \ (SchemaTables \cup {"user_audit_logs"})) :
           Named(Current) = {<<t, n>> : n \in ns} /\ objects' = objects \ Named(Current)
    BY <1>1, <1>6, DropObjectsEffect
  <2>2. o \notin Named(Current)
    BY <1>2, <1>3, <2>1
  <2> QED
    BY <2>1, <2>2
<1>7. CASE Retypes(Current, m)
  BY <1>1, <1>7, RetypeEffect
<1> QED
  BY <1>1, <1>4, <1>5, <1>6, <1>7, CurrentForms

(* What is recorded well is true, by the statements it has finished.       *)
LEMMA AllStatementsDone ==
  ASSUME TypeOK, JobIsRecord, Progress, job # NoJob, ~Ongoing, ~job.swallowed,
         NEW o \in Own(job.migration)
  PROVE  /\ job.direction = "up" => o \in objects
         /\ job.direction = "down" => o \notin objects
<1> DEFINE m == job.migration
<1>1. /\ m \in Migrations /\ job.direction \in {"up", "down"}
      /\ DOMAIN Statements(job) = 1..Len(Statements(job)) /\ Len(Statements(job)) \in Nat
      /\ job.direction = "up" => Statements(job) = Up[m]
      /\ job.direction = "down" => Statements(job) = Down[m]
  BY RunningJob
<1>2. job.next = Len(Statements(job)) + 1
  BY <1>1, RunningJob DEF Ongoing
<1>3. \A i \in DOMAIN Statements(job) : Finished(Statements(job)[i], objects)
  BY <1>1, <1>2 DEF Progress
<1>4. PICK i \in DOMAIN Up[m] : Up[m][i].do = "create" /\ o \in Named(Up[m][i])
  BY <1>1, OwnCreated
<1>5. CASE job.direction = "up"
  BY <1>1, <1>3, <1>4, <1>5 DEF Finished
<1>6. CASE job.direction = "down"
  <2>1. PICK j \in DOMAIN Down[m] : Undoes(Down[m][j], Up[m][i])
    BY <1>1, <1>4, DownForms DEF Reverts
  <2>2. Finished(Down[m][j], objects)
    BY <1>1, <1>3, <1>6
  <2>3. PICK n \in Up[m][i].names : o = <<Up[m][i].table, n>>
    BY <1>4 DEF Named
  <2>4. CASE Down[m][j] = dropTable(Up[m][i].table)
    <3>1. /\ Down[m][j].do = "drop" /\ Down[m][j].table = Up[m][i].table
          /\ Down[m][j].names = {Up[m][i].table}
      BY <2>4 DEF dropTable, Statement
    <3>2. IsTable(Down[m][j])
      BY <3>1 DEF IsTable
    <3> QED
      BY <1>6, <2>2, <2>3, <3>1, <3>2 DEF Finished
  <2>5. CASE /\ Down[m][j].do = "drop" /\ Down[m][j].table = Up[m][i].table
             /\ Up[m][i].names \subseteq Down[m][j].names
    BY <1>6, <2>2, <2>3, <2>5 DEF Finished, Named
  <2> QED
    BY <2>1, <2>4, <2>5 DEF Undoes
<1> QED
  BY <1>1, <1>5, <1>6

LEMMA RecordedNext == MigrationInv /\ [Next]_vars => Recorded'
<1> SUFFICES ASSUME MigrationInv, [Next]_vars PROVE Recorded'
  OBVIOUS
<1>1. TypeOK /\ JobIsRecord /\ Founded /\ Progress /\ Recorded
      /\ ended \in [Migrations -> {"clean", "swallowed", "torn"}]
  BY DEF MigrationInv, TypeOK
<1>2. ASSUME objects' = objects, executed' = executed, ~undermined' => ~undermined,
             NEW m \in Migrations, Settled(m)' => Settled(m)
      PROVE  ~undermined' => (Settled(m)' => \A o \in Own(m) : m \in executed' <=> o \in objects')
  BY <1>1, <1>2 DEF Recorded
<1>3. ASSUME objects' = objects, executed' = executed, ~undermined' => ~undermined,
             \A m \in Migrations : Settled(m)' => Settled(m)
      PROVE  Recorded'
  BY <1>2, <1>3 DEF Recorded
<1>4. ASSUME NEW m \in Migrations, job = NoJob PROVE Settled(m) <=> ended[m] = "clean"
  BY <1>4, MigrationNumbers DEF Settled, NoJob
<1>5. ASSUME NEW m \in Migrations, NEW d \in {"up", "down"}, Start(m, d),
             ~undermined' => ~undermined
      PROVE  Recorded'
  <2>1. ended' = ended /\ objects' = objects /\ executed' = executed /\ job = NoJob
    BY <1>5 DEF Start, schema
  <2>2. \A k \in Migrations : Settled(k)' => Settled(k)
    BY <1>4, <2>1 DEF Settled
  <2> QED
    BY <1>3, <1>5, <2>1, <2>2
<1>6. CASE up
  BY <1>5, <1>6 DEF up, Pending
<1>7. ASSUME NEW m \in Migrations, down(m) PROVE Recorded'
  <2>1. Start(m, "down") /\ (~undermined' => ~undermined)
    BY <1>7 DEF down
  <2> QED
    BY <1>5, <2>1
<1>8. ASSUME job # NoJob, Abort, UNCHANGED <<schema, executed, undermined>> PROVE Recorded'
  <2>1. job.next \in Nat /\ job.migration \in Migrations
    BY <1>1, <1>8, RunningJob DEF JobIsRecord
  <2>2. ASSUME NEW m \in Migrations, ended'[m] = "clean" PROVE Settled(m)
    <3>1. job.next \in 1..(Len(Statements(job)) + 1) /\ Len(Statements(job)) \in Nat
      BY <1>1, <1>8, RunningJob
    <3>2. CASE job.next > 1
      <4>1. m # job.migration /\ ended[m] = "clean"
        BY <1>1, <1>8, <2>1, <2>2, <3>2 DEF Abort
      <4> QED
        BY <4>1 DEF Settled
    <3>3. CASE ~(job.next > 1)
      <4>1. job.next = 1 /\ ended[m] = "clean"
        BY <1>8, <2>2, <3>1, <3>3 DEF Abort
      <4> QED
        BY <4>1 DEF Settled
    <3> QED
      BY <3>2, <3>3
  <2>3. \A m \in Migrations : Settled(m)' => Settled(m)
    BY <2>2 DEF Settled
  <2> QED
    BY <1>3, <1>8, <2>3 DEF schema
<1>9. ASSUME Ongoing, catch, UNCHANGED <<schema, executed, undermined>> PROVE Recorded'
  <2>1. CASE job.migration \in Swallowing
    <3>1. Len(Statements(job)) \in Nat \ {0}
      BY <1>1, <1>9, RunningJob DEF Ongoing
    <3>2. /\ job'.migration = job.migration /\ job'.next = Len(Statements(job)) + 1
          /\ ended' = ended
      BY <1>1, <1>9, <2>1 DEF catch, JobIsRecord
    <3>3. job'.next # 1
      BY <3>1, <3>2
    <3>4. \A m \in Migrations : Settled(m)' => Settled(m)
      BY <3>2, <3>3 DEF Settled
    <3> QED
      BY <1>3, <1>9, <3>4 DEF schema
  <2>2. CASE job.migration \notin Swallowing
    BY <1>8, <1>9, <2>2 DEF catch, Ongoing
  <2> QED
    BY <2>1, <2>2
<1>10. CASE execute
  <2>1. Ongoing /\ ~Refused(Current) /\ Execute(Current)
        /\ executed' = executed /\ undermined' = undermined /\ ended' = ended
    BY <1>10 DEF execute
  <2>2. job'.migration = job.migration /\ job'.next = job.next + 1
    BY <1>1, <1>10 DEF execute, JobIsRecord
  <2>3. job.next \in 1..(Len(Statements(job)) + 1) /\ Len(Statements(job)) \in Nat
    BY <1>1, <2>1, RunningJob DEF Ongoing
  <2>4. job'.next # 1
    BY <2>2, <2>3
  <2>5. ASSUME NEW m \in Migrations, Settled(m)', ~undermined', NEW o \in Own(m)
        PROVE  m \in executed' <=> o \in objects'
    <3>1. m # job.migration /\ Settled(m) /\ ~undermined
      BY <2>1, <2>2, <2>4, <2>5 DEF Settled
    <3>2. m \in executed <=> o \in objects
      BY <1>1, <2>5, <3>1 DEF Recorded
    <3> QED
      BY <1>1, <2>1, <2>5, <3>1, <3>2, OthersKept
  <2> QED
    BY <2>5 DEF Recorded
<1>11. CASE refuse
  BY <1>9, <1>11 DEF refuse
<1>12. CASE statementFails
  BY <1>9, <1>12 DEF statementFails
<1>13. CASE stop
  BY <1>8, <1>13 DEF stop
<1>14. CASE record
  <2>1. /\ job # NoJob /\ ~Ongoing /\ objects' = objects /\ undermined' = undermined
        /\ executed' = IF job.direction = "up" THEN executed \cup {job.migration}
                                                ELSE executed \ {job.migration}
        /\ ended' = [ended EXCEPT ![job.migration] =
                       IF job.swallowed THEN "swallowed" ELSE "clean"]
    BY <1>14 DEF record, schema
  <2>2. job.migration \in Migrations /\ job.direction \in {"up", "down"}
    BY <1>1, <2>1, RunningJob
  <2>3. ASSUME NEW m \in Migrations, Settled(m)', ~undermined', NEW o \in Own(m)
        PROVE  m \in executed' <=> o \in objects'
    <3>1. ended'[m] = "clean"
      BY <2>3 DEF Settled
    <3>2. CASE m = job.migration
      <4>1. ~job.swallowed
        BY <1>1, <2>1, <2>2, <3>1, <3>2
      <4>2. /\ job.direction = "up" => o \in objects
            /\ job.direction = "down" => o \notin objects
        BY <1>1, <2>1, <2>3, <3>2, <4>1, AllStatementsDone
      <4> QED
        BY <2>1, <2>2, <3>2, <4>2
    <3>3. CASE m # job.migration
      <4>1. Settled(m) /\ ~undermined
        BY <1>1, <2>1, <2>3, <3>1, <3>3 DEF Settled
      <4> QED
        BY <1>1, <2>1, <2>3, <3>3, <4>1 DEF Recorded
    <3> QED
      BY <3>2, <3>3
  <2> QED
    BY <2>3 DEF Recorded
<1>15. ASSUME Stores PROVE Recorded'
  BY <1>3, <1>15 DEF Stores, storeDocument, storeTwice, Settled
<1>16. CASE UNCHANGED vars
  BY <1>3, <1>16 DEF vars, schema, Settled
<1> QED
  BY <1>6, <1>7, <1>10, <1>11, <1>12, <1>13, <1>14, <1>15, <1>16 DEF Next, Stores

(* When db-index-hardening is recorded its index on documents exists.      *)
LEMMA DocumentsThereNext == MigrationInv /\ [Next]_vars => DocumentsThere'
<1> SUFFICES ASSUME MigrationInv, [Next]_vars PROVE DocumentsThere'
  OBVIOUS
<1>1. TypeOK /\ JobIsRecord /\ Founded /\ Progress /\ SwallowedWhere /\ DocumentsThere
      /\ SchemaTypes
  BY TypeParts DEF MigrationInv
<1>2. ASSUME objects' = objects, executed' = executed, ~undermined' => ~undermined
      PROVE  DocumentsThere'
  BY <1>1, <1>2 DEF DocumentsThere
<1>3. CASE up
  BY <1>2, <1>3 DEF up, Start, schema
<1>4. ASSUME NEW m \in Migrations, down(m) PROVE DocumentsThere'
  BY <1>2, <1>4 DEF down, Start, schema
<1>5. CASE execute
  <2> SUFFICES ASSUME ~undermined, 3 \in executed
               PROVE  <<"documents", "documents">> \in objects'
    BY <1>5 DEF execute, DocumentsThere
  <2> DEFINE m == job.migration
  <2>1. Ongoing /\ ~Refused(Current) /\ Execute(Current)
    BY <1>5 DEF execute
  <2>2. m \in Migrations /\ job.direction \in {"up", "down"}
        /\ <<"documents", "documents">> \in objects
    BY <1>1, <2>1, CurrentForms, RunningJob DEF Ongoing, DocumentsThere
  <2>3. CASE job.direction = "up" /\ Creates(Current, m)
    BY <1>1, <2>1, <2>2, <2>3, CurrentForms, CreateEffect
  <2>4. CASE job.direction = "down" /\ DropsTable(Current, m)
    <3>1. m = 1 => 3 <= 1
      BY <1>1, <2>4 DEF Founded, BuiltUpon, InitialSchema
    <3>2. m = 8
      BY <2>4, <3>1 DEF DropsTable, InitialSchema, UserAuditLog
    <3>3. "documents" \notin TablesOf(m)
      BY <3>2 DEF TablesOf, UserAuditLog
    <3> QED
      BY <2>1, <2>2, <2>4, <3>3, DropTableEffect
  <2>5. CASE job.direction = "down" /\ DropsObjects(Current, m)
    <3>1. PICK t \in TablesOf(m),
               ns \in SUBSET (ProvidedNames[m] \ (SchemaTables \cup {"user_audit_logs"})) :
             Named(Current) = {<<t, n>> : n \in ns} /\ objects' = objects \ Named(Current)
      BY <2>1, <2>2, <2>5, DropObjectsEffect
    <3>2. "documents" \in SchemaTables
      BY DEF SchemaTables
    <3> QED
      BY <2>2, <3>1, <3>2
  <2>6. CASE Retypes(Current, m)
    BY <2>1, <2>2, <2>6, RetypeEffect
  <2> QED
    BY <1>1, <2>1, <2>2, <2>3, <2>4, <2>5, <2>6, CurrentForms
<1>6. CASE refuse
  BY <1>2, <1>6 DEF refuse, schema
<1>7. CASE statementFails
  BY <1>2, <1>7 DEF statementFails, schema
<1>8. CASE stop
  BY <1>2, <1>8 DEF stop, schema
<1>9. CASE record
  <2>1. /\ job # NoJob /\ ~Ongoing /\ objects' = objects /\ undermined' = undermined
        /\ executed' = IF job.direction = "up" THEN executed \cup {job.migration}
                                                ELSE executed \ {job.migration}
    BY <1>9 DEF record, schema
  <2>2. CASE job.direction = "up" /\ job.migration = 3
    <3> DEFINE index == <<"documents", "documents_application_document_type_idx">>
    <3>1. ~job.swallowed
      BY <1>1, <2>2 DEF SwallowedWhere, Swallowing
    <3>2. Up[3][6].do = "create" /\ index \in Named(Up[3][6])
      BY DEF Up, IndexHardeningUp, addIndexIfMissing, Statement, Named
    <3>3. 6 \in DOMAIN Up[3]
      BY IndexHardeningForms
    <3>4. index \in Own(3)
      BY <3>2, <3>3, OwnCreated, MigrationNumbers
    <3>5. index \in objects
      BY <1>1, <2>1, <2>2, <3>1, <3>4, AllStatementsDone
    <3>6. <<"documents", "documents">> \in objects
      BY <1>1, <3>5 DEF SchemaTypes
    <3> QED
      BY <2>1, <3>6 DEF DocumentsThere
  <2>3. CASE ~(job.direction = "up" /\ job.migration = 3)
    BY <1>1, <2>1, <2>3 DEF DocumentsThere
  <2> QED
    BY <2>2, <2>3
<1>10. ASSUME Stores PROVE DocumentsThere'
  BY <1>2, <1>10 DEF Stores, storeDocument, storeTwice
<1>11. CASE UNCHANGED vars
  BY <1>2, <1>11 DEF vars, schema
<1> QED
  BY <1>3, <1>4, <1>5, <1>6, <1>7, <1>8, <1>9, <1>10, <1>11 DEF Next, Stores

LEMMA ExtendedNext == MigrationInv /\ [Next]_vars => Extended'
<1> SUFFICES ASSUME MigrationInv, [Next]_vars PROVE Extended'
  OBVIOUS
<1> USE MigrationNumbers DEF TypedRequests
<1>1. TypeOK /\ JobIsRecord /\ Founded /\ SwallowedWhere /\ Extended /\ DocumentsThere
      /\ SchemaTypes /\ ended \in [Migrations -> {"clean", "swallowed", "torn"}]
  BY TypeParts DEF MigrationInv, TypeOK
<1>2. ASSUME documentEnum' = documentEnum, executed' = executed, ~undermined' => ~undermined,
             Settled(7)' => Settled(7), job' = NoJob \/ job'.next = 1
      PROVE  Extended'
  BY <1>1, <1>2 DEF Extended, NoJob
<1>3. ASSUME NEW m \in Migrations, NEW d \in {"up", "down"}, Start(m, d),
             ~undermined' => ~undermined
      PROVE  Extended'
  BY <1>2, <1>3, StartedJob DEF Start, schema, Settled, NoJob
<1>4. CASE up
  BY <1>3, <1>4 DEF up, Pending
<1>5. ASSUME NEW m \in Migrations, down(m) PROVE Extended'
  <2>1. Start(m, "down") /\ (~undermined' => ~undermined)
    BY <1>5 DEF down
  <2> QED
    BY <1>3, <2>1
<1>6. ASSUME job # NoJob, Abort, UNCHANGED <<schema, executed, undermined>> PROVE Extended'
  <2>1. job.next \in 1..(Len(Statements(job)) + 1) /\ Len(Statements(job)) \in Nat
        /\ job.migration \in Migrations
    BY <1>1, <1>6, RunningJob
  <2>2. Settled(7)' => Settled(7)
    BY <1>1, <1>6, <2>1 DEF Abort, Settled, NoJob
  <2> QED
    BY <1>2, <1>6, <2>2 DEF Abort, schema
<1>7. ASSUME Ongoing, catch, UNCHANGED <<schema, executed, undermined>> PROVE Extended'
  <2>1. CASE job.migration \in Swallowing
    <3>1. job'.migration = job.migration /\ ended' = ended
      BY <1>1, <1>7, <2>1 DEF catch, JobIsRecord
    <3>2. job.migration # 7
      BY <2>1 DEF Swallowing
    <3>3. Settled(7)' => Settled(7)
      BY <3>1, <3>2 DEF Settled
    <3> QED
      BY <1>1, <1>7, <3>1, <3>2, <3>3 DEF Extended, schema
  <2>2. CASE job.migration \notin Swallowing
    BY <1>6, <1>7, <2>2 DEF catch, Ongoing
  <2> QED
    BY <2>1, <2>2
<1>8. CASE execute
  <2> DEFINE m == job.migration
  <2>1. Ongoing /\ ~Refused(Current) /\ Execute(Current)
        /\ executed' = executed /\ undermined' = undermined /\ ended' = ended
    BY <1>8 DEF execute
  <2>2. job'.migration = m /\ job'.direction = job.direction /\ job'.next = job.next + 1
    BY <1>1, <1>8 DEF execute, JobIsRecord
  <2>3. m \in Migrations /\ job.direction \in {"up", "down"} /\ job # NoJob
        /\ job.next \in 1..(Len(Statements(job)) + 1) /\ Len(Statements(job)) \in Nat
        /\ (m \in executed <=> job.direction = "down")
    BY <1>1, <2>1, RunningJob DEF Ongoing
  <2>4. job'.next # 1
    BY <2>2, <2>3
  <2>5. ASSUME ~undermined, Settled(7)', 7 \in executed PROVE documentEnum' = DocumentTypes
    <3>1. m # 7 /\ documentEnum = DocumentTypes
      BY <1>1, <2>1, <2>2, <2>4, <2>5 DEF Extended, Settled
    <3>2. <<"documents", "documents">> \in objects
      BY <1>1, <3>1 DEF SchemaTypes, DocumentTypes
    <3>3. ASSUME m \in {1, 4}, job.direction = "down" \/ m \notin executed PROVE FALSE
      BY <1>1, <2>5, <3>3 DEF Founded, BuiltUpon, InitialSchema, EnumAlignment
    <3>4. CASE job.direction = "up" /\ Creates(Current, m)
      BY <1>1, <2>1, <2>3, <3>1, <3>2, <3>4, CurrentForms, CreateEffect
    <3>5. CASE job.direction = "down" /\ DropsTable(Current, m)
      <4>1. m = 8
        BY <3>3, <3>5 DEF DropsTable, InitialSchema, UserAuditLog
      <4>2. "documents" \notin TablesOf(m)
        BY <4>1 DEF TablesOf, UserAuditLog
      <4> QED
        BY <2>1, <2>3, <3>1, <3>5, <4>2, DropTableEffect
    <3>6. CASE job.direction = "down" /\ DropsObjects(Current, m)
      BY <2>1, <2>3, <3>1, <3>6, DropObjectsEffect
    <3>7. CASE Retypes(Current, m)
      <4>1. m = 4
        BY <3>1, <3>7 DEF Retypes, EnumAlignment
      <4> QED
        BY <2>3, <3>3, <4>1
    <3> QED
      BY <1>1, <2>1, <2>3, <3>4, <3>5, <3>6, <3>7, CurrentForms
  <2>6. ASSUME ~undermined, m = 7, job.direction = "up" PROVE documentEnum' = DocumentTypes
    <3>1. 3 \in executed
      BY <1>1, <2>6 DEF Founded
    <3>2. <<"documents", "documents">> \in objects /\ documentEnum # {}
      BY <1>1, <2>6, <3>1 DEF DocumentsThere, SchemaTypes
    <3>3. Current = Up[7][job.next] /\ job.next \in 1..4
      BY <1>1, <2>1, <2>6, CurrentForms, TypedRequestsForms
    <3>4. CASE job.next = 1
      <4>1. Retypes(Current, 7) /\ Current.names = DocumentTypes
        BY <3>3, <3>4, TypedRequestsForms DEF retype, Statement
      <4> QED
        BY <2>1, <3>2, <4>1, RetypeEffect
    <3>5. CASE job.next > 1
      <4>1. job.next \in 2..4 /\ documentEnum = DocumentTypes
        BY <1>1, <2>6, <3>3, <3>5 DEF Extended
      <4>2. Creates(Current, 7) /\ \E i \in DOMAIN Up[7] : Current = Up[7][i]
        BY <3>3, <4>1, TypedRequestsForms
      <4>3. PICK t \in TablesOf(7), n \in ProvidedNames[7] :
               IF n = t /\ t = "documents" /\ <<"documents", "documents">> \notin objects
               THEN documentEnum' = DocumentTypes /\ stored' = stored
               ELSE documentEnum' = documentEnum /\ stored' = stored
        BY <2>1, <2>3, <2>6, <4>2, CreateEffect
      <4> QED
        BY <3>2, <4>1, <4>3
    <3> QED
      BY <3>3, <3>4, <3>5
  <2> QED
    BY <2>1, <2>2, <2>5, <2>6 DEF Extended
<1>9. CASE refuse
  BY <1>7, <1>9 DEF refuse
<1>10. CASE statementFails
  BY <1>7, <1>10 DEF statementFails
<1>11. CASE stop
  BY <1>6, <1>11 DEF stop
<1>12. CASE record
  <2>1. /\ job # NoJob /\ ~Ongoing /\ documentEnum' = documentEnum /\ undermined' = undermined
        /\ executed' = IF job.direction = "up" THEN executed \cup {job.migration}
                                                ELSE executed \ {job.migration}
        /\ ended' = [ended EXCEPT ![job.migration] =
                       IF job.swallowed THEN "swallowed" ELSE "clean"]
        /\ job' = NoJob
    BY <1>12 DEF record, schema
  <2>2. ASSUME ~undermined', Settled(7)', 7 \in executed' PROVE documentEnum' = DocumentTypes
    <3>1. CASE job.migration = 7
      <4>1. job.direction = "up"
        BY <2>1, <2>2, <3>1
      <4>2. job.next > 1
        BY <1>1, <2>1, RunningJob DEF Ongoing
      <4> QED
        BY <1>1, <2>1, <2>2, <3>1, <4>1, <4>2 DEF Extended
    <3>2. CASE job.migration # 7
      <4>1. Settled(7) /\ 7 \in executed
        BY <1>1, <2>1, <2>2, <3>2 DEF Settled
      <4> QED
        BY <1>1, <2>1, <2>2, <4>1 DEF Extended
    <3> QED
      BY <3>1, <3>2
  <2> QED
    BY <2>1, <2>2 DEF Extended, NoJob
<1>13. ASSUME Stores PROVE Extended'
  BY <1>2, <1>13 DEF Stores, storeDocument, storeTwice, Settled
<1>14. CASE UNCHANGED vars
  BY <1>1, <1>14 DEF vars, schema, Extended, Settled
<1> QED
  BY <1>4, <1>5, <1>8, <1>9, <1>10, <1>11, <1>12, <1>13, <1>14 DEF Next, Stores

LEMMA FirstKeysOwned ==
  ASSUME NEW o \in FirstKeys
  PROVE  /\ o \in Own(1) /\ o = <<o[1], o[2]>>
         /\ o[1] \in SchemaTables /\ o[2] \in ProvidedNames[1]
<1>1. o \in Own(1)
  <2>1. PICK i \in 1..12 : Up[1][i].do = "create" /\ o \in Named(Up[1][i])
    BY AuditLogsLastUp
  <2>2. i \in DOMAIN Up[1]
    BY InitialSchemaForms
  <2> QED
    BY <2>1, <2>2, OwnCreated, MigrationNumbers
<1> QED
  BY <1>1, OwnForm, MigrationNumbers DEF TablesOf, UserAuditLog

(* initial-schema creates audit_logs when it has created the keys, unless  *)
(* it has swallowed an error, and then it creates nothing more; only its   *)
(* own "down" drops them, after audit_logs.                                *)
LEMMA KeysFirstNext == MigrationInv /\ [Next]_vars => KeysFirst'
<1> SUFFICES ASSUME MigrationInv, [Next]_vars PROVE KeysFirst'
  OBVIOUS
<1>1. TypeOK /\ JobIsRecord /\ Progress /\ SwallowedWhere /\ KeysFirst
  BY DEF MigrationInv
<1>2. ASSUME objects' = objects PROVE KeysFirst'
  BY <1>1, <1>2 DEF KeysFirst
<1>3. CASE execute
  <2> DEFINE m == job.migration
             auditLogs == <<"audit_logs", "audit_logs">>
  <2>1. Ongoing /\ ~Refused(Current) /\ Execute(Current)
    BY <1>3 DEF execute
  <2>2. /\ m \in Migrations /\ job.direction \in {"up", "down"} /\ job # NoJob
        /\ job.next \in DOMAIN Statements(job) /\ job.next \in Nat
        /\ job.direction = "up" => Statements(job) = Up[m] /\ job.next \in DOMAIN Up[m]
                                   /\ Current = Up[m][job.next]
        /\ job.direction = "down" => Statements(job) = Down[m] /\ job.next \in DOMAIN Down[m]
                                     /\ Current = Down[m][job.next]
    BY <1>1, <2>1, CurrentForms, RunningJob DEF Ongoing, JobIsRecord
  <2>3. ~job.swallowed
    <3>1. job.next <= Len(Statements(job)) /\ Len(Statements(job)) \in Nat
      BY <1>1, <2>1, <2>2, RunningJob DEF Ongoing
    <3> QED
      BY <1>1, <2>2, <3>1 DEF SwallowedWhere
  <2> HIDE DEF auditLogs
  <2>4. CASE job.direction = "up" /\ Creates(Current, m)
    <3>1. PICK t \in TablesOf(m), n \in ProvidedNames[m] :
            /\ <<t, n>> \in Own(m) /\ Named(Current) = {<<t, n>>} /\ Current.table = t
            /\ objects' = objects \cup {<<t, n>>}
            /\ n \in SchemaTables \cup {"user_audit_logs"} => n = t
            /\ n # t /\ <<t, n>> \notin objects => <<t, t>> \in objects
            /\ IF n = t /\ t = "documents" /\ <<"documents", "documents">> \notin objects
               THEN documentEnum' = DocumentTypes /\ stored' = stored
               ELSE documentEnum' = documentEnum /\ stored' = stored
      <4>1. \E i \in DOMAIN Up[m] : Current = Up[m][i]
        BY <2>2, <2>4
      <4>2. m \in Migrations
        BY <2>2
      <4>3. Creates(Current, m) /\ ~Refused(Current) /\ Execute(Current)
        BY <2>1, <2>4
      <4> HIDE DEF m
      <4> QED
        BY <4>1, <4>2, <4>3, CreateEffect
    <3>2. CASE auditLogs = <<t, n>>
      <4>1. t = "audit_logs" /\ n = "audit_logs"
        BY <3>2 DEF auditLogs
      <4>2. m = 1
        <5>1. "audit_logs" \in ProvidedNames[1]
          BY DEF ProvidedNames, SchemaTables
        <5> QED
          BY <2>2, <3>1, <4>1, <5>1, NamesDisjoint, MigrationNumbers
      <4>3. job.next \in 1..20 /\ job.next \notin 1..12
        <5>1. Current.table = "audit_logs"
          BY <3>1, <4>1
        <5> QED
          BY <2>2, <2>4, <4>2, <5>1, AuditLogsLastUp, InitialSchemaForms
      <4>4. \A i \in 1..12 : Finished(Up[1][i], objects)
        BY <1>1, <2>2, <2>3, <2>4, <4>2, <4>3 DEF Progress
      <4>5. FirstKeys \subseteq objects
        BY <4>4, AuditLogsLastUp DEF Finished
      <4> QED
        BY <3>1, <4>5 DEF KeysFirst
    <3>3. CASE auditLogs # <<t, n>>
      BY <1>1, <3>1, <3>3 DEF KeysFirst, auditLogs
    <3> QED
      BY <3>2, <3>3
  <2>5. CASE job.direction = "down" /\ DropsTable(Current, m)
    <3>1. PICK t \in TablesOf(m) :
            Current.table = t /\ objects' = {x \in objects : x[1] # t}
      BY <2>1, <2>2, <2>5, DropTableEffect
    <3>2. CASE m = 1
      <4>1. CASE job.next \in 1..3
        <5>1. \A o \in FirstKeys : o[1] # t
          BY <2>2, <2>5, <3>1, <3>2, <4>1, AuditLogsFirstDown
        <5> QED
          BY <1>1, <3>1, <5>1 DEF KeysFirst
      <4>2. CASE job.next > 3
        <5>1. Finished(dropTable("audit_logs"), objects)
          BY <1>1, <2>2, <2>3, <2>5, <3>2, <4>2, AuditLogsFirstDown DEF Progress
        <5>2. dropTable("audit_logs").do = "drop"
              /\ auditLogs \in Named(dropTable("audit_logs"))
          BY DEF dropTable, Statement, Named, auditLogs
        <5>3. auditLogs \notin objects'
          BY <3>1, <5>1, <5>2 DEF Finished
        <5> QED
          BY <5>3 DEF KeysFirst, auditLogs
      <4>3. job.next \in 1..10
        BY <2>2, <2>5, <3>2, InitialSchemaReverts
      <4> QED
        BY <4>1, <4>2, <4>3
    <3>3. CASE m # 1
      <4>1. t = "user_audit_logs"
        BY <2>5, <3>1, <3>3 DEF DropsTable, TablesOf, InitialSchema, UserAuditLog
      <4>2. \A o \in FirstKeys : o[1] # t
        BY <4>1, FirstKeysOwned DEF SchemaTables
      <4> QED
        BY <1>1, <3>1, <4>2 DEF KeysFirst
    <3> QED
      BY <3>2, <3>3
  <2>6. CASE job.direction = "down" /\ m # InitialSchema /\ DropsObjects(Current, m)
    <3>1. PICK t \in TablesOf(m),
               ns \in SUBSET (ProvidedNames[m] \ (SchemaTables \cup {"user_audit_logs"})) :
             Named(Current) = {<<t, n>> : n \in ns} /\ objects' = objects \ Named(Current)
      BY <2>1, <2>2, <2>6, DropObjectsEffect
    <3>2. ProvidedNames[m] \cap ProvidedNames[1] = {}
      BY <2>2, <2>6, NamesDisjoint, MigrationNumbers DEF InitialSchema
    <3>3. \A o \in FirstKeys : o \notin Named(Current)
      BY <3>1, <3>2, FirstKeysOwned
    <3> QED
      BY <1>1, <3>1, <3>3 DEF KeysFirst
  <2>7. CASE Retypes(Current, m)
    BY <1>2, <2>1, <2>2, <2>7, RetypeEffect
  <2> QED
    BY <1>1, <2>1, <2>2, <2>4, <2>5, <2>6, <2>7, CurrentForms
<1>4. CASE up
  BY <1>2, <1>4 DEF up, Start, schema
<1>5. ASSUME NEW m \in Migrations, down(m) PROVE KeysFirst'
  BY <1>2, <1>5 DEF down, Start, schema
<1>6. CASE refuse
  BY <1>2, <1>6 DEF refuse, schema
<1>7. CASE statementFails
  BY <1>2, <1>7 DEF statementFails, schema
<1>8. CASE stop
  BY <1>2, <1>8 DEF stop, schema
<1>9. CASE record
  BY <1>2, <1>9 DEF record, schema
<1>10. ASSUME Stores PROVE KeysFirst'
  BY <1>2, <1>10 DEF Stores, storeDocument, storeTwice
<1>11. CASE UNCHANGED vars
  BY <1>2, <1>11 DEF vars, schema
<1> QED
  BY <1>3, <1>4, <1>5, <1>6, <1>7, <1>8, <1>9, <1>10, <1>11 DEF Next, Stores

LEMMA MigrationInvNext == MigrationInv /\ [Next]_vars => MigrationInv'
  BY TypesNext, FoundedNext, ProgressNext, SwallowedWhereNext, RecordedNext, ExtendedNext,
     DocumentsThereNext, KeysFirstNext
     DEF MigrationInv

-----------------------------------------------------------------------------

(* Whatever initial-schema and db-hardening-audit swallow, and in whatever *)
(* order "down --name" reverts what others do not build on: when every     *)
(* migration is recorded and none was torn, the unique keys on which the   *)
(* service rests under concurrent requests exist.                          *)
THEOREM KeysHold == Spec => []KeysInForce
<1>1. MigrationInv => KeysInForce
  <2> SUFFICES ASSUME MigrationInv, executed = Migrations, job = NoJob, ~undermined,
                      \A m \in Migrations : ended[m] # "torn"
               PROVE  Keys \subseteq objects
    BY DEF KeysInForce
  <2>1. /\ SchemaTypes /\ SwallowedWhere /\ Recorded /\ KeysFirst
        /\ ended \in [Migrations -> {"clean", "swallowed", "torn"}]
    BY TypeParts DEF MigrationInv, TypeOK
  <2>2. 3 \in Migrations /\ 8 \in Migrations /\ ended[3] = "clean" /\ ended[8] = "clean"
    BY <2>1, MigrationNumbers DEF SwallowedWhere, Swallowing
  <2>3. Settled(3) /\ Settled(8)
    BY <2>2 DEF Settled, NoJob
  <2>4. <<"audit_logs", "audit_logs_request_id_key">> \in objects
    <3>1. /\ 10 \in DOMAIN Up[3] /\ Up[3][10].do = "create"
          /\ <<"audit_logs", "audit_logs_request_id_key">> \in Named(Up[3][10])
      BY IndexHardeningForms DEF Up, IndexHardeningUp, addIndexIfMissing, Statement, Named
    <3>2. <<"audit_logs", "audit_logs_request_id_key">> \in Own(3)
      BY <2>2, <3>1, OwnCreated
    <3> QED
      BY <2>1, <2>2, <2>3, <3>2 DEF Recorded
  <2>5. <<"user_audit_logs", "user_audit_logs_request_id_key">> \in objects
    <3>1. /\ 3 \in DOMAIN Up[8] /\ Up[8][3].do = "create"
          /\ <<"user_audit_logs", "user_audit_logs_request_id_key">> \in Named(Up[8][3])
      BY UserAuditLogForms DEF Up, UserAuditLogUp, addIndex, Statement, Named
    <3>2. <<"user_audit_logs", "user_audit_logs_request_id_key">> \in Own(8)
      BY <2>2, <3>1, OwnCreated
    <3> QED
      BY <2>1, <2>2, <2>3, <3>2 DEF Recorded
  <2>6. FirstKeys \subseteq objects
    BY <2>1, <2>4 DEF SchemaTypes, KeysFirst
  <2> QED
    BY <2>4, <2>5, <2>6 DEF Keys, FirstKeys
<1> QED
  BY <1>1, MigrationInvInit, MigrationInvNext, PTL DEF Spec

(* SequelizeMeta tells the truth about every migration that ended without  *)
(* an error, recorded or reverted, whatever failed or was stopped in the   *)
(* others, and the enum has SUPPORTING_DOCUMENT once it says so.           *)
THEOREM RecordsTrue == Spec => []RecordsAreTrue
<1>1. MigrationInv => RecordsAreTrue
  <2> SUFFICES ASSUME MigrationInv, ~undermined
               PROVE  /\ \A m \in Migrations, o \in Objects :
                           (ended[m] = "clean" /\ job.migration # m) /\ <<m, o>> \in Provided
                             => (m \in executed <=> o \in objects)
                      /\ (ended[TypedRequests] = "clean" /\ job.migration # TypedRequests)
                           /\ TypedRequests \in executed => documentEnum = DocumentTypes
    BY DEF RecordsAreTrue
  <2>1. Recorded /\ Extended
    BY DEF MigrationInv
  <2>2. \A m : ended[m] = "clean" /\ job.migration # m => Settled(m)
    BY DEF Settled
  <2> QED
    BY <2>1, <2>2 DEF Recorded, Extended, Own
<1> QED
  BY <1>1, MigrationInvInit, MigrationInvNext, PTL DEF Spec

=============================================================================
