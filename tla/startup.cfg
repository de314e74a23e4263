SPECIFICATION FairSpec
CONSTANTS
  Nil = Nil
  Configs <- AllConfigs
  RoleFiles <- AllRoles
  NodesAnswer = FALSE
INVARIANTS TypeOK StartInv ServingIsComplete RolesDecide OnlyFromEth ExitWaits ExitStatus
PROPERTIES StopEnds CommandEnds
