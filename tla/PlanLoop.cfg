\* Reconciler::plan, every input of the instance.
SPECIFICATION Spec
CONSTANTS
  DaemonIds = {0, 1}
  Ns = "a"
  Namespaces = {"a", "b"}
  NmosIds = {"n1", "n2", "n3"}
  Targets = {"t1"}
  Bodies = {"t1", "t2"}
  NoTarget = NoTarget
  Unmanaged = Unmanaged
  NoStream = NoStream
  Registry <- MCRegistry
  Vector <- MCVector
  Contents <- MCContents
INVARIANTS TypeOK PlanIsJustified LoopsMatchSets SecondPassIsEmpty OneStreamPerMarker
\* plan() returns.
CHECK_DEADLOCK FALSE
