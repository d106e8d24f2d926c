----------------------------- MODULE MCWorkflow -----------------------------
(* Instances of Workflow for TLC.                                          *)
EXTENDS Workflow

CONSTANTS owner, rev1, appr, dual, plan, q1

(* dual holds two roles: user_roles allows it, and the separation of       *)
(* duties only bites for such a user.                                      *)
MCRolesOf ==
  [u \in Users |->
     CASE u = owner -> {"APPLICANT"}
       [] u = rev1  -> {"REVIEWER"}
       [] u = appr  -> {"APPROVER"}
       [] u = dual  -> {"REVIEWER", "APPROVER"}]

Item(ty, target) == [type |-> ty, target |-> target, required |-> TRUE]

(* No item at all (refused), a document, a column together with a question.*)
MCInfoRequests ==
  {{},
   {Item("DOCUMENT_REPLACEMENT", plan)},
   {Item("FIELD_UPDATE", "institution_name"), Item("OPEN_QUESTION", q1)}}

=============================================================================
