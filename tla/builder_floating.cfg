CONSTANTS
  Names = {"a", "b"}
  Ports <- OnePort
  Constraints <- NoConstraints
  MaxDevices = 1
  MaxNets = 1
  MaxConnections = 2
  MaxConstraints = 0
SPECIFICATION Spec
PROPERTY FloatingNetsWarned
