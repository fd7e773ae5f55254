------------------------------- MODULE RunSaga -------------------------------
(***************************************************************************)
(* What a provisioning run promises, whatever its devices, steps, children *)
(* and crashes: a saga.  A run goes forward and may change devices; it is  *)
(* done, or what it changed is undone, or it says that it is stuck.  Only  *)
(* a run that goes forward changes devices, and one that is undone has     *)
(* left nothing behind.  The office may send a done or a stuck run back to *)
(* undoing, and nothing else reopens a run.  A run older than the engine   *)
(* is no saga: it may leave anything behind, whatever becomes of it.       *)
(***************************************************************************)
EXTENDS Naturals

CONSTANT Runs      \* run identifiers, in creation order

VARIABLES
  stage,           \* where each run is
  dirty            \* whether it has left something that it can undo

Stages == {"forward", "done", "undoing", "undone", "stuck"}

SagaInit ==
  /\ stage \in [Runs -> {"absent", "legacy"}]
  /\ dirty = [r \in Runs |-> FALSE]

Open(r) ==
  /\ stage[r] = "absent"
  /\ \A q \in Runs : q < r => stage[q] # "absent"
  /\ stage' = [stage EXCEPT ![r] = "forward"]
  /\ UNCHANGED dirty

(* Forward work, which may end the run or turn it round. *)
Forward(r) ==
  /\ stage[r] = "forward"
  /\ \E d \in {dirty[r], TRUE} : dirty' = [dirty EXCEPT ![r] = d]
  /\ \E t \in Stages :
       /\ stage' = [stage EXCEPT ![r] = t]
       /\ t = "undone" => ~dirty'[r]

(* Undoing may also take away what another run of the service had left. *)
Undo(r) ==
  /\ stage[r] = "undoing"
  /\ dirty' \in [Runs -> BOOLEAN]
  /\ \A q \in Runs : dirty'[q] => dirty[q]
  /\ \E t \in {"undoing", "undone", "stuck"} :
       /\ stage' = [stage EXCEPT ![r] = t]
       /\ t = "undone" => ~dirty'[r]

Reopen(r) ==
  /\ stage[r] \in {"done", "stuck"}
  /\ \E t \in {"undoing", "undone", "stuck"} :
       /\ stage' = [stage EXCEPT ![r] = t]
       /\ t = "undone" => ~dirty[r]
  /\ UNCHANGED dirty

(* A run that undoes nothing itself. *)
Unbound(r) ==
  /\ stage[r] = "legacy"
  /\ dirty' = [dirty EXCEPT ![r] = TRUE]
  /\ UNCHANGED stage

SagaNext == \E r \in Runs : Open(r) \/ Forward(r) \/ Undo(r) \/ Reopen(r) \/ Unbound(r)

SagaSpec == SagaInit /\ [][SagaNext]_<<stage, dirty>>
=============================================================================
