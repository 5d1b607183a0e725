---------------------------- MODULE ApprovalTask ----------------------------
(***************************************************************************)
(* What an approval task of the mesh gateway promises, whatever handlers   *)
(* serve it: the life cycle that "Mesh Gateway - v2 Design Specification"  *)
(* section 8 draws,                                                        *)
(*                                                                         *)
(*     PENDING -> APPROVED -> EXECUTED    or    PENDING -> REJECTED,       *)
(*                                                                         *)
(* with the one extra arrow the code has: an approved task whose backend   *)
(* call answers an error is REJECTED.  The stored request reaches the      *)
(* backend at most once, only while the task is APPROVED, and the task is  *)
(* closed only after that.                                                 *)
(***************************************************************************)
CONSTANTS
  Tasks,      \* identities of the tasks
  Senders     \* whatever may forward a task's request to the backend

VARIABLES
  status,     \* status[t]: the task's column of mesh_approval_task, or "NONE"
  forwards    \* forwards[t]: who has forwarded t's request to the backend

taskVars == <<status, forwards>>

Statuses == {"NONE", "PENDING", "APPROVED", "REJECTED", "EXECUTED"}

TaskInit ==
  /\ status = [t \in Tasks |-> "NONE"]
  /\ forwards = [t \in Tasks |-> {}]

Move(t, from, to) ==
  /\ status[t] = from
  /\ status' = [status EXCEPT ![t] = to]
  /\ UNCHANGED forwards

Create(t) == Move(t, "NONE", "PENDING")

Reject(t) == Move(t, "PENDING", "REJECTED")

Approve(t) == Move(t, "PENDING", "APPROVED")

Forward(t, s) ==
  /\ status[t] = "APPROVED"
  /\ forwards[t] = {}
  /\ forwards' = [forwards EXCEPT ![t] = {s}]
  /\ UNCHANGED status

Complete(t) == forwards[t] # {} /\ Move(t, "APPROVED", "EXECUTED")

Fail(t) == forwards[t] # {} /\ Move(t, "APPROVED", "REJECTED")

TaskNext ==
  \E t \in Tasks :
    \/ Create(t)
    \/ Reject(t)
    \/ Approve(t)
    \/ \E s \in Senders : Forward(t, s)
    \/ Complete(t)
    \/ Fail(t)

TaskSpec == TaskInit /\ [][TaskNext]_taskVars
=============================================================================
