CONSTANTS
  Hosts <- MCHosts
  DroneText <- MCDroneText
  NoDrone = "drone_-9999"
  DirectedTypes = {"custom/Goal"}
  Configs <- MCConfigs
  KnownTypes <- MCKnownTypes
SPECIFICATION Spec
INVARIANTS
  EveryRouteCarried
  NothingUnrouted
  ServiceReached
  SessionsSeparate
  QualityLimitsValid
  MonitorFindsRows
CHECK_DEADLOCK FALSE
