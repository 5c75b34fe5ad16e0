-------------------------- MODULE NormativeMachine --------------------------
(***************************************************************************)
(* The normative transition table that the engine loads                    *)
(*   docs/plans/2026-08-29-software-factory-v1-state-machine.json          *)
(*   statemachine/spec.go (Select, ResolveTarget), engine/engine.go        *)
(* as the abstract specification of one ticket: its state, and the state   *)
(* to which a paused or blocked ticket returns.                            *)
(*                                                                         *)
(* Guards are the caller's evidence; here every guard may hold, so the     *)
(* machine may take each transition of the table.  What the Store really   *)
(* does is in BuildCycle and DeliveryCycle, which implement this machine.  *)
(* A ticket enters as queued: submission creates the row.                  *)
(***************************************************************************)

VARIABLES
    state,    \* the state of the ticket
    resume    \* its resume state, or none

machine == <<state, resume>>

Working   == {"planning", "verifying", "building", "publishing", "reviewing", "reconciling"}
Published == {"publishing", "waiting_ci", "reviewing", "waiting_approval",
              "waiting_manual_merge", "merging"}
Active    == Working \union Published
Terminal  == {"done", "external_merged", "cancelled"}
Stopped   == {"paused", "blocked", "stopping", "cancelling"}
AllStates == Active \union Stopped \union Terminal \union {"queued"}

\* One row of the table: from these states, to that one ("$same" and
\* "$resume_state" are resolved), leaving this resume state.
Row(from, to, res) == [from |-> from, to |-> to, res |-> res]

ForwardRows ==
    {Row({"queued"}, "planning", "none"),
     Row({"planning"}, "verifying", "none"),
     Row({"planning"}, "paused", "planning"),
     Row({"verifying"}, "building", "none"),
     Row({"building"}, "verifying", "none"),
     Row({"building"}, "building", "none"),
     Row({"building"}, "publishing", "none"),
     Row({"building"}, "reviewing", "none"),
     Row({"publishing"}, "waiting_ci", "none"),
     Row({"waiting_ci"}, "paused", "waiting_ci"),
     Row({"waiting_ci"}, "waiting_ci", "none"),
     Row({"waiting_ci"}, "reviewing", "none"),
     Row({"waiting_ci"}, "building", "none"),
     Row({"reviewing"}, "building", "none"),
     Row({"reviewing"}, "verifying", "none"),
     Row({"reviewing"}, "waiting_approval", "none"),
     Row({"reviewing"}, "waiting_manual_merge", "none"),
     Row({"reviewing"}, "merging", "none"),
     Row({"reviewing"}, "blocked", "reviewing"),
     Row({"reviewing"}, "done", "none"),
     Row({"waiting_approval"}, "merging", "none"),
     Row({"waiting_approval", "waiting_manual_merge"}, "building", "none"),
     Row({"waiting_manual_merge"}, "reconciling", "none"),
     Row({"waiting_approval", "waiting_manual_merge"}, "external_merged", "none"),
     Row({"merging"}, "reconciling", "none"),
     Row({"reconciling"}, "done", "none"),
     Row(Published, "building", "none")}

ControlRows ==
    {Row(Working, "$same", "none"),
     Row(Working \union {"waiting_ci", "merging"}, "paused", "$from"),
     Row(Active, "stopping", "$from"),
     Row({"stopping"}, "paused", "$stored"),
     Row({"paused"}, "$resume_state", "none"),
     Row({"paused"}, "waiting_ci", "none"),
     Row({"paused"}, "verifying", "none"),
     Row({"paused"}, "blocked", "$stored"),
     Row(Active \union {"queued", "paused", "blocked", "stopping"}, "cancelling", "none"),
     Row({"cancelling"}, "cancelled", "none"),
     Row(Active \union {"queued", "stopping", "cancelling"}, "blocked", "$from"),
     Row({"blocked"}, "$resume_state", "none"),
     Row({"blocked"}, "building", "none")}

\* ResolveTarget refuses a target that is not a state.
ResolveTarget(to) ==
    CASE to = "$same"         -> state
      [] to = "$resume_state" -> resume
      [] OTHER                -> to

ResolveResume(res) ==
    CASE res = "$from"   -> state
      [] res = "$stored" -> resume
      [] OTHER           -> res

Fire(row) ==
    /\ state \in row.from
    /\ ResolveTarget(row.to) \in AllStates
    /\ state' = ResolveTarget(row.to)
    /\ resume' = ResolveResume(row.res)

Init == state = "queued" /\ resume = "none"
Next == \E row \in ForwardRows \union ControlRows : Fire(row)
Spec == Init /\ [][Next]_machine
=============================================================================
