SPECIFICATION Spec
CONSTANTS
  NoObj = NoObj
  Refused = Refused
  Off = Off
  Specs <- BuilderSpecs
  Configs <- Flags
  RequestPaths <- Paths
  MaxEdits = 3
  NodePorts = {1, 2, 3, 4, 5, 6}
CHECK_DEADLOCK FALSE
INVARIANTS TypeOK PortsLeadHome AsIfNew NothingToPatch RoutedAsAsked
PROPERTIES StableAddresses
