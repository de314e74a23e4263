SPECIFICATION FairSpec
CONSTANTS
  Nil = Nil
  Configs <- DocumentedConfigs
  RoleFiles <- DocumentedRoles
  NodesAnswer = TRUE
PROPERTIES Serves
