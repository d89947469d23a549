----------------------------- MODULE MCRegistry -----------------------------
(* The registry on one adapter program (and the default key offered as a   *)
(* program id), one mint and three versions; adapter_count goes up to two, *)
(* so the third proposal overflows.                                        *)
EXTENDS Registry

CONSTANTS p1, g1, g2, usdc

MCPubkeys == {g1, g2, DefaultPubkey}
MCPrograms == {p1, DefaultPubkey}
MCMints == {usdc}
MCVersions == {0, 1, 65535}
MCProtocolNames == {[blank |-> FALSE, bytes |-> 64], [blank |-> FALSE, bytes |-> 65]}
MCMetadataUris ==
  {[blank |-> FALSE, bytes |-> 20], [blank |-> FALSE, bytes |-> 256],
   [blank |-> FALSE, bytes |-> 257], [blank |-> TRUE, bytes |-> 1]}
=============================================================================
