------------------------------ MODULE MCGoverned ------------------------------
(***************************************************************************)
(* Governed actions for TLC: two clients at the same lock; a client, the   *)
(* assistant and a scene at the same lamp; and one vehicle.                *)
(***************************************************************************)
EXTENDS GovernedActions

From(d, v, e, a) == [by |-> d, via |-> v, entity |-> e, action |-> a]
Asking ==
  {From("phone", "api", "door", "turn_on"), From("panel", "api", "door", "turn_off"),
   From("phone", "api", "lamp", "turn_on"), From("panel", "assistant", "lamp", "turn_off"),
   From("phone", "api", "lamp", "activate")}

Order(r, s) == [risk |-> r, shape |-> s]
Ordering == {Order("standard", "observable"), Order("high", "button"), Order("standard", "workflow")}

\* Entities a behaviour is not about stay as they are.
GovernedInit ==
  ActionsInit /\ \A e \in Entities \ {component} : cached[e] = "off" /\ listed[e] = "usable"

\* A behaviour is about one entity; Core crashes while actions on the lock wait.
HomeNext ==
  /\ HomeMoves
  /\ \A r \in Requests : subject'[r] = NoSubject \/ subject'[r].entity = component
  /\ \A e \in Entities \ {component} :
       actual'[e] = actual[e] /\ cached'[e] = cached[e] /\ listed'[e] = listed[e]
  /\ component = "lamp" => crashes' = crashes

GovernedNext == HomeNext \/ VehicleMoves

\* Tasks run, and every call is answered or times out.
GovernedSpec ==
  /\ GovernedInit /\ [][GovernedNext]_<<component, vars, vehicle>>
  /\ \A r \in Requests : WF_vars(component \in Entities /\ TaskStep(r))
  /\ \A i \in 1..MaxRunners : WF_vehicle(component = "vehicle" /\ Vehicle!RunnerStep(i))

-----------------------------------------------------------------------------
\* Nothing that was claimed is left executing, unless Core dies.
AllResolved == EventuallyResolved /\ Vehicle!EventuallyResolved
=============================================================================
