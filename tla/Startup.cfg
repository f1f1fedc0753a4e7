\* From the settings file to the populated node model, every input of the instance.
SPECIFICATION StartupSpec
CONSTANTS
  DaemonIds <- MCDaemonIds
  NmosIds = {"n1", "n2"}
  Intervals = {0, 1}
  MaxStreams = 2
  OctetBits = 2
  MaxPort = 3
  NoDiscovery = NoDiscovery
  HostInterfaces <- MCHostInterfaces
  NotANumber = NotANumber
  Unset = Unset
  Inputs <- MCInputs
  MaxInt = 999
INVARIANTS
  RegistryIsUnique NoStreamIsLost RejectsTheInvalid
  AdvertisesWithinCidrs RegistrationModesAreApart BindingsAreNodeInterfaces
\* main exits or runs on, the thread ends.
CHECK_DEADLOCK FALSE
