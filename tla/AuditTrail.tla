------------------------------ MODULE AuditTrail -----------------------------
(***************************************************************************)
(* What the audit trails promise, without saying how they are written:     *)
(* the stage of a subject (an application or an account) and its trail     *)
(* change together, one recorded step after the other, and every step      *)
(* starts where the one before it ended.  AuditTransaction.tla is shown to *)
(* implement this module, which is also what Workflow.tla assumes when it  *)
(* takes a transaction as one step.                                        *)
(***************************************************************************)
EXTENDS Sequences

CONSTANTS
  Subjects,    \* what the trails are about
  Steps,       \* the recorded steps: <<stage before, stage after>>
  FirstStage   \* FirstStage[s]: the stage of s while its trail is empty

VARIABLES
  stage,       \* stage[s]: where s stands
  trail        \* trail[s]: the steps s has taken

vars == <<stage, trail>>

Init ==
  /\ stage = FirstStage
  /\ trail = [s \in Subjects |-> <<>>]

Record(s, step) ==
  /\ stage[s] = step[1]
  /\ stage' = [stage EXCEPT ![s] = step[2]]
  /\ trail' = [trail EXCEPT ![s] = Append(@, step)]

Next == \E s \in Subjects, step \in Steps : Record(s, step)

Spec == Init /\ [][Next]_vars

=============================================================================
