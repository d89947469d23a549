---------------------------- MODULE MCDeployment ----------------------------
(* The deployer and one other party, one adapter that may be proposed, and *)
(* a registry elsewhere that may be there and have more adapters.          *)
EXTENDS Deployment

CONSTANTS p1, g1, g2, usdc

MCPubkeys == {g1, g2, DefaultPubkey}
MCTexts == {[blank |-> FALSE, bytes |-> 20]}
MCOtherConfigs ==
  {NoConfig, [initialized |-> TRUE, governance_authority |-> g2, adapter_count |-> 2]}
=============================================================================
