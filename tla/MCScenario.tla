------------------------------ MODULE MCScenario ------------------------------
(***************************************************************************)
(* Two connections of the setup, one that the node opens and one that it   *)
(* accepts, and a third that the testcase may open.                        *)
(***************************************************************************)
EXTENDS Scenario

MCSetupConnections == <<"Outbound", "Inbound">>
=============================================================================
