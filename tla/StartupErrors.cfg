\* Configuration errors that show up when the node server is already open.
SPECIFICATION StartupSpec
CONSTANTS
  DaemonIds <- MCDaemonIds
  NmosIds = {"n1", "n2"}
  Intervals = {0, 1}
  MaxStreams = 2
  OctetBits = 2
  MaxPort = 3
  NoDiscovery = NoDiscovery
  HostInterfaces <- MCHostInterfaces
  NotANumber = NotANumber
  Unset = Unset
  Inputs <- ErrorInputs
  MaxInt = 999
INVARIANTS ErrorsComeBeforeOpen
CHECK_DEADLOCK FALSE
