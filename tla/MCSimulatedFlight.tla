--------------------------- MODULE MCSimulatedFlight ---------------------------
(* An instance of SimulatedFlight: two flights from one launch point. *)
EXTENDS SimulatedFlight

MCLaunch == [d \in Drones |-> 0]
MCRoute == <<1, 2>>
=============================================================================
