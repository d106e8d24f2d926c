------------------------ MODULE ApplicationLifecycle ------------------------
(***************************************************************************)
(* What the licensing portal promises about one application, without       *)
(* saying how it is stored: the stages it passes through, who examines it, *)
(* and who decides it.  Workflow.tla is shown to implement this module.    *)
(*                                                                         *)
(* The promise is the four-eyes rule in its strong form: an examination is *)
(* finished only by the user who took it up, and the application is        *)
(* decided, once and for all, by a user other than its last examiner.      *)
(***************************************************************************)

CONSTANTS
  Applications,   \* application identifiers
  Users,          \* user accounts
  NoUser          \* null in the columns reviewed_by_id and decisioned_by_id

VARIABLES
  stage,          \* stage[a]: where application a stands; "NONE" before it exists
  examiner,       \* examiner[a]: the user who took up the latest examination
  signer,         \* signer[a]: the user who closed the latest closed examination
  decider         \* decider[a]: the user who took the final decision, or NoUser

vars == <<stage, examiner, signer, decider>>

FinalStages == {"APPROVED", "REJECTED"}

Stages == {"NONE", "DRAFT", "SUBMITTED", "UNDER_REVIEW", "INFO_REQUESTED",
           "RESUBMITTED", "READY_FOR_DECISION"} \cup FinalStages

TypeOK ==
  /\ stage \in [Applications -> Stages]
  /\ examiner \in [Applications -> Users \cup {NoUser}]
  /\ signer \in [Applications -> Users \cup {NoUser}]
  /\ decider \in [Applications -> Users \cup {NoUser}]

Init ==
  /\ stage = [a \in Applications |-> "NONE"]
  /\ examiner = [a \in Applications |-> NoUser]
  /\ signer = [a \in Applications |-> NoUser]
  /\ decider = [a \in Applications |-> NoUser]

(* The applicant moves the application: creates it, hands it in, or hands  *)
(* it in again after answering.                                            *)
Hand(a, from, to) ==
  /\ stage[a] = from
  /\ stage' = [stage EXCEPT ![a] = to]
  /\ UNCHANGED <<examiner, signer, decider>>

Apply(a) ==
  \/ Hand(a, "NONE", "DRAFT")
  \/ Hand(a, "DRAFT", "SUBMITTED")
  \/ Hand(a, "INFO_REQUESTED", "RESUBMITTED")

(* A user takes up an application that waits for examination.              *)
TakeUp(a, u) ==
  /\ stage[a] \in {"SUBMITTED", "RESUBMITTED"}
  /\ stage' = [stage EXCEPT ![a] = "UNDER_REVIEW"]
  /\ examiner' = [examiner EXCEPT ![a] = u]
  /\ UNCHANGED <<signer, decider>>

(* Only the user who took the application up closes the examination.       *)
CloseExamination(a) ==
  /\ stage[a] = "UNDER_REVIEW"
  /\ \E to \in {"INFO_REQUESTED", "READY_FOR_DECISION"} :
       stage' = [stage EXCEPT ![a] = to]
  /\ signer' = [signer EXCEPT ![a] = examiner[a]]
  /\ UNCHANGED <<examiner, decider>>

(* A user other than the one who signed off the examination decides.       *)
Decide(a, u) ==
  /\ stage[a] = "READY_FOR_DECISION"
  /\ signer[a] = examiner[a]
  /\ signer[a] # u
  /\ \E to \in FinalStages : stage' = [stage EXCEPT ![a] = to]
  /\ decider' = [decider EXCEPT ![a] = u]
  /\ UNCHANGED <<examiner, signer>>

Next ==
  \E a \in Applications :
    \/ Apply(a)
    \/ CloseExamination(a)
    \/ \E u \in Users : TakeUp(a, u) \/ Decide(a, u)

Spec == Init /\ [][Next]_vars

=============================================================================
