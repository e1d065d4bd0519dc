------------------------------ MODULE MCGateway ------------------------------
(***************************************************************************)
(* Instances of the gateway for TLC.  Names that play the same part are    *)
(* interchangeable: no definition orders or chooses among them.            *)
(***************************************************************************)
EXTENDS GatewayProperties, TLC

Symmetry == Permutations(Tickets) \cup Permutations(Requests) \cup Permutations(Processes)
              \cup Permutations(Principals) \cup Permutations(Claimers)
==============================================================================
