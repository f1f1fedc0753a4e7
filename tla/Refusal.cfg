\* README: a disabled receiver's sink is removed; the daemon refuses t2.
SPECIFICATION FairSpec
CONSTANTS
  DaemonIds = {0}
  Ns = "a"
  Namespaces = {"a", "b"}
  NmosIds = {"n1", "n2"}
  Targets = {"t1", "t2"}
  Bodies = {"t1", "t2"}
  NoTarget = NoTarget
  Unmanaged = Unmanaged
  NoStream = NoStream
  NoResource = NoResource
  Registry <- MCRegistry
  Controls <- RefusalControls
  Intruders <- NoIntruders
  Rejected = {"t2"}
  MaxLate = 0
PROPERTIES DisabledSinkIsRemoved
