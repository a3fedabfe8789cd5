---------------------------- MODULE GovernedActions ----------------------------
(***************************************************************************)
(* Governed actions: on the entities of the home and on the vehicle.  Home  *)
(* and vehicle have tables of their own and nothing in common but the       *)
(* contract: component says which entity, or the vehicle, a behaviour is    *)
(* about, and the others rest.  What HomeActions has is had directly.       *)
(***************************************************************************)
EXTENDS HomeActions

CONSTANTS
  Orders, OrderKinds, MaxRunners, MaxStops  \* of VehicleActions

VARIABLES
  component,  \* what the behaviour is about
  \* VehicleActions
  order, kind, late, report, told, runner, of, answer, claimer, stops

vehicle == <<order, kind, late, report, told, runner, of, answer, claimer, stops>>

Vehicle == INSTANCE VehicleActions WITH
  Requests <- Orders, Offers <- OrderKinds, MaxCrashes <- MaxStops,
  status <- order, lapsed <- late, announced <- told, task <- runner, call <- answer,
  crashes <- stops

\* The constants are what they stand for.
ASSUME GovernedConstants == SubjectsAssumption /\ Vehicle!BoundsAssumption

\* Each table keeps the types of its own variables.
TypesOK == TypeOK /\ Vehicle!TypeOK

ActionsInit == component \in Entities \cup {"vehicle"} /\ Init /\ Vehicle!Init

HomeMoves == component \in Entities /\ Next /\ UNCHANGED <<component, vehicle>>
VehicleMoves == component = "vehicle" /\ Vehicle!Next /\ UNCHANGED <<component, vars>>

ActionsNext == HomeMoves \/ VehicleMoves

ActionsSpec == ActionsInit /\ [][ActionsNext]_<<component, vars, vehicle>>

-----------------------------------------------------------------------------
\* The route decides the verdict of a destination workflow (vehicle.py
\* _destination_workflow).
RouteDecides == Vehicle!RouteDecides

\* Vehicle actions implement the contract of governed actions too: repeated
\* and late confirmations execute nothing twice, expired requests nothing at
\* all, and success is not reported of what was not done (vehicle.py, api.py
\* schedule_vehicle_action).
VehicleContract == Vehicle!ContractSpec
=============================================================================
