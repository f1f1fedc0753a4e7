\* README: unmanaged streams are never overwritten.
SPECIFICATION Spec
CONSTANTS
  DaemonIds = {0}
  Ns = "a"
  Namespaces = {"a", "b"}
  NmosIds = {"n1", "n2"}
  Targets = {"t1", "t2"}
  Bodies = {"t1", "t2"}
  NoTarget = NoTarget
  Unmanaged = Unmanaged
  NoStream = NoStream
  NoResource = NoResource
  Registry <- MCRegistry
  Controls <- LivenessControls
  Intruders <- LivenessIntruders
  Rejected = {}
  MaxLate = 0
PROPERTIES NeverOverwritten
