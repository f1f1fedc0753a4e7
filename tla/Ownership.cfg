\* managed_name and parse_managed_name, every small input.
SPECIFICATION Spec
CONSTANTS
  Symbols = {"NMOS", "(", ")", "[", "]", "/", "space", "sender", "receiver", "a", "b"}
  Unmanaged = Unmanaged
  NsSymbols = {"a", "(", ")", "]", "/", "space", "sender"}
  LabelSymbols = {"b", "["}
  IdSymbols = {"a", "/", "space", "]"}
  NameSymbols = {"a", ")", "]", "/", "space", "sender"}
  MaxNs = 3
  MaxId = 2
  MaxName = 8
INVARIANTS PlainNamesRoundTrip OlderNamesAreRead OwnershipIsSpelled NamesAreStoredAsWritten
\* Strings are bounded.
CHECK_DEADLOCK FALSE
