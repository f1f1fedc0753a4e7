\* Safety of the bridge process under faults, crashes and races.
SPECIFICATION Spec
CONSTANTS
  DaemonIds = {0, 1}
  Ns = "a"
  Namespaces = {"a", "b"}
  NmosIds = {"n1", "n2"}
  Targets = {"t1", "t2"}
  Bodies = {"t1", "t2"}
  NoTarget = NoTarget
  Unmanaged = Unmanaged
  NoStream = NoStream
  NoResource = NoResource
  Registry <- MCRegistry
  Controls <- SafetyControls
  Intruders <- SafetyIntruders
  Rejected = {}
  MaxLate = 1
INVARIANTS TypeOK FailClosed PassIsConsistent SdpNamesTheStream
PROPERTIES OverwriteOnlyByRace ImplementsContract ImplementsWakeContract
