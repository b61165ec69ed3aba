SPECIFICATION Spec
CONSTANTS
  None = None
  Envs <- MCEnvs
  ClaimSets <- MCClaimSets
  KeyRows <- MCKeyRows
  Configs <- MCConfigs
  ChatRequests <- MCChatRequests
  TargetOrders <- MCTargetOrders
  Peers <- MCPeers
  MaxBoots = 2
  MaxKid = 2
INVARIANTS AccessByRight RefusalsOnRecord GrantsHold
PROPERTY RotationFollowed
CHECK_DEADLOCK FALSE
