\* What the bridge process comes to do once it is left alone.
SPECIFICATION FairSpec
CONSTANTS
  DaemonIds = {0, 1}
  Ns = "a"
  Namespaces = {"a", "b"}
  NmosIds = {"n1", "n2"}
  Targets = {"t1", "t2"}
  Bodies = {"t1", "t2"}
  NoTarget = NoTarget
  Unmanaged = Unmanaged
  NoStream = NoStream
  NoResource = NoResource
  Registry <- MCRegistry
  Controls <- LivenessControls
  Intruders <- LivenessIntruders
  Rejected = {}
  MaxLate = 1
PROPERTIES Converges ConflictsAreReported ShutdownEndsLoop
