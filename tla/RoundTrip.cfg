\* managed_name and parse_managed_name, the test title.
SPECIFICATION Spec
CONSTANTS
  Symbols = {"NMOS", "(", ")", "[", "]", "/", "space", "sender", "receiver", "a", "b"}
  Unmanaged = Unmanaged
  NsSymbols = {"a", "(", ")", "]", "/", "space", "sender"}
  LabelSymbols = {"b", "["}
  IdSymbols = {"a", "/", "space", "]"}
  NameSymbols = {"a", ")", "]", "/", "space", "sender"}
  MaxNs = 3
  MaxId = 2
  MaxName = 8
INVARIANTS EveryNameRoundTrips
\* Strings are bounded.
CHECK_DEADLOCK FALSE
