---------------------------- MODULE MCOwnership ----------------------------
(***************************************************************************)
(* The marker functions on every small input: a namespace, an id and a     *)
(* label are written symbol by symbol, or a daemon name is, after one of   *)
(* the spellings' prefixes.                                                *)
(***************************************************************************)
EXTENDS Ownership

CONSTANTS
  NsSymbols, IdSymbols, NameSymbols,   \* what each kind of string is made of
  LabelSymbols,
  MaxNs, MaxId, MaxName                \* bounds on the lengths of strings

ASSUME InputSymbolsAssumption ==
  NsSymbols \cup IdSymbols \cup NameSymbols \cup LabelSymbols \subseteq Symbols

VARIABLES ns, nmos_id, label, name

vars == <<ns, nmos_id, label, name>>

Prefixes == {<<"NMOS">>, <<"NMOS", "(">>, <<"NMOS", "[">>}

Init ==
  /\ ns = <<>> /\ nmos_id = <<>> /\ label = <<>>
  /\ name \in Prefixes \cup {<<>>}

ExtendNs(ch) ==
  /\ name = <<>> /\ Len(ns) < MaxNs
  /\ ns' = Append(ns, ch)
  /\ UNCHANGED <<nmos_id, label, name>>

ExtendId(ch) ==
  /\ name = <<>> /\ Len(nmos_id) < MaxId
  /\ nmos_id' = Append(nmos_id, ch)
  /\ UNCHANGED <<ns, label, name>>

WriteLabel(ch) ==
  /\ name = <<>> /\ label = <<>>
  /\ label' = <<ch>>
  /\ UNCHANGED <<ns, nmos_id, name>>

ExtendName(ch) ==
  /\ name # <<>> /\ Len(name) < MaxName
  /\ name' = Append(name, ch)
  /\ UNCHANGED <<ns, nmos_id, label>>

Next ==
  \/ \E ch \in NsSymbols : ExtendNs(ch)
  \/ \E ch \in IdSymbols : ExtendId(ch)
  \/ \E ch \in LabelSymbols : WriteLabel(ch)
  \/ \E ch \in NameSymbols : ExtendName(ch)

Spec == Init /\ [][Next]_vars

-----------------------------------------------------------------------------
(***************************************************************************)
(* The marker survives the round trip exactly when namespace and id are    *)
(* plain.                                                                  *)
(***************************************************************************)
PlainNamesRoundTrip ==
  \A side \in Side : RoundTrips(ns, side, nmos_id, label) <=> Plain(ns, nmos_id)

(***************************************************************************)
(* Older names, and names the daemon has stripped of brackets, are read as *)
(* the ownership they were written with.                                   *)
(***************************************************************************)
OlderNamesAreRead ==
  \A side \in Side :
    LET owner == [ns |-> ns, side |-> side, nmos_id |-> nmos_id]
        suffix == IF label = <<>> THEN <<>> ELSE <<Space>> \o label
        legacy == Marked(LegacyForm, ns, side, nmos_id) \o suffix
        unbracketed == /\ Sanitized(ns) = ns /\ Sanitized(nmos_id) = nmos_id
                       /\ ~Contains(ns, <<"/">>)
    IN Plain(ns, nmos_id) =>
         /\ ~Contains(ns, <<"]", "/">>) => parse_managed_name(legacy) = owner
         /\ unbracketed => parse_managed_name(Sanitized(legacy)) = owner

(***************************************************************************)
(* The name is one of the fields compared for drift (connection.cpp,       *)
(* make_source_payload): one the daemon stores differently is written      *)
(* again in every pass, for ever.  The marker itself gives no reason for   *)
(* that; a name is stored as written unless a configured string has a      *)
(* square bracket.                                                         *)
(***************************************************************************)
NamesAreStoredAsWritten ==
  \A side \in Side :
    LET written == managed_name(ns, side, nmos_id, label)
    IN Stored(written) = written
         <=> \A str \in {ns, nmos_id, label} : Stored(str) = str

(***************************************************************************)
(* Fail closed: the parser sees an ownership only in a name that spells    *)
(* it, with a namespace and an id.                                         *)
(***************************************************************************)
OwnershipIsSpelled ==
  parse_managed_name(name) # Unmanaged =>
    LET o == parse_managed_name(name)
    IN o.ns # <<>> /\ o.nmos_id # <<>> /\ Carries(name, o)

(***************************************************************************)
(* tests/test_ownership.cpp: managed_name round-trips through              *)
(* parse_managed_name.  parse_bridge_config rejects an empty namespace and *)
(* nothing else about either string.                                       *)
(***************************************************************************)
EveryNameRoundTrips ==
  ns # <<>> => \A side \in Side : RoundTrips(ns, side, nmos_id, label)
=============================================================================
