--------------------------- MODULE MCVehicleActions ---------------------------
(* VehicleActions for TLC, with one action that needs a confirmation.      *)
EXTENDS VehicleActions

MCRisky == {[risk |-> "high", shape |-> "button"]}
=============================================================================
