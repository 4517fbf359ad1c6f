------------------------------ MODULE MCClients ------------------------------
(***************************************************************************)
(* Programs that are agents for others, checked side by side: the MCP and  *)
(* chat gateways, and the bridge with its users.  Each behaviour runs one  *)
(* part, chosen initially, while the other rests.                          *)
(***************************************************************************)
EXTENDS Gateways, Bridge

VARIABLE part

MCInit ==
  /\ part \in {"gateways", "bridge"}
  /\ GatewaysInit /\ BridgeInit
  /\ part # "bridge" => user = "sdk"

MCNext ==
  \/ part = "gateways" /\ GatewaysNext /\ UNCHANGED <<part, bridgeVars>>
  \/ part = "bridge" /\ BridgeNext /\ UNCHANGED <<part, gatewayVars>>

\* The fairness of Bridge, asked only of its own part.
Fairness ==
  /\ WF_bridgeVars(part = "bridge" /\ Scanner) /\ WF_bridgeVars(part = "bridge" /\ Loop)
  /\ WF_bridgeVars(part = "bridge" /\ Reader) /\ WF_bridgeVars(part = "bridge" /\ stop_process)
  /\ WF_bridgeVars(part = "bridge" /\ runAttach) /\ WF_bridgeVars(part = "bridge" /\ Exec)
  /\ WF_bridgeVars(part = "bridge" /\ interrupted /\ ChildEnds)
  /\ WF_bridgeVars(part = "bridge" /\ Wait)

MCSpec == MCInit /\ [][MCNext]_<<part, gatewayVars, bridgeVars>> /\ Fairness
=============================================================================
