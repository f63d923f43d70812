CONSTANTS
  Names = {"a", "b"}
  Ports <- AliasedPorts
  Constraints <- MCConstraints
  MaxDevices = 2
  MaxNets = 3
  MaxConnections = 2
  MaxConstraints = 1
SPECIFICATION MCSpec
INVARIANTS TypeOK FirstBinderOwns
PROPERTIES KeepsPromise BuildAnswers ErrorsLast
