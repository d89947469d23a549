SPECIFICATION DeploySpec
CONSTANTS
  DefaultPubkey = DefaultPubkey
  p1 = p1
  g1 = g1
  g2 = g2
  usdc = usdc
  Pubkeys <- MCPubkeys
  Programs = {p1}
  Mints = {usdc}
  Versions = {0}
  ProtocolNames <- MCTexts
  MetadataUris <- MCTexts
  MaxCount = 1
  MaxSlot = 0
  wallet = g1
  MaxFailures = 2
  OtherConfigs <- MCOtherConfigs
INVARIANT
  ManifestHasARegistry
PROPERTY
  DeploymentIsRecorded
