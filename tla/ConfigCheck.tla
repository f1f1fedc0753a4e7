---------------------------- MODULE ConfigCheck ----------------------------
(***************************************************************************)
(* The checks at the end of parse_bridge_config and the registry built     *)
(* from what they let through: where the assumptions the other modules     *)
(* make about the configured streams come from.                            *)
(***************************************************************************)
EXTENDS Integers, Sequences

CONSTANTS
  DaemonIds,    \* values of daemon_id, valid and not
  NmosIds,      \* values of nmos_id
  Intervals,    \* values of reconcile_interval_seconds
  MaxStreams    \* bound on the streams of a side

ASSUME ValuesAssumption ==
  DaemonIds \subseteq Int /\ Intervals \subseteq Int /\ MaxStreams \in Nat

Side == {"sender", "receiver"}

\* A configured stream; mapped is ~map.empty().
Stream == [daemon_id : DaemonIds, nmos_id : NmosIds, mapped : BOOLEAN]

Streams == UNION {[1..n -> Stream] : n \in 0..MaxStreams}

Config == [named : BOOLEAN, interval : Intervals, sender : Streams, receiver : Streams]

VARIABLES
  config,      \* what the settings say
  phase,       \* globals, streams, build, running or rejected (it throws)
  side,        \* the side check_unique is called for
  k,           \* the next stream of that side
  daemon_ids, nmos_ids,   \* check_unique's sets
  registry     \* ResourceRegistry: for each side, nmos_id -> stream

vars == <<config, phase, side, k, daemon_ids, nmos_ids, registry>>

Current == config[side][k]

EmptyRegistry == [sd \in Side |-> <<>>]

Init ==
  /\ config \in Config
  /\ phase = "globals"
  /\ side = "sender"
  /\ k = 1
  /\ daemon_ids = {}
  /\ nmos_ids = {}
  /\ registry = EmptyRegistry

\* The namespace and the interval are checked before the streams.
CheckGlobals ==
  /\ phase = "globals"
  /\ phase' = IF config.named /\ config.interval > 0 THEN "streams" ELSE "rejected"
  /\ UNCHANGED <<config, side, k, daemon_ids, nmos_ids, registry>>

\* Variant for validation: one id too many.
AcceptableUpTo64 ==
  /\ Current.daemon_id \in 0..64
  /\ Current.mapped
  /\ Current.daemon_id \notin daemon_ids
  /\ Current.nmos_id \notin nmos_ids

\* Variant for validation: nmos_ids is not consulted.
AcceptableWithoutNmosIds ==
  /\ Current.daemon_id \in 0..63
  /\ Current.mapped
  /\ Current.daemon_id \notin daemon_ids

\* Variant for validation: daemon_ids is not consulted.
AcceptableWithoutDaemonIds ==
  /\ Current.daemon_id \in 0..63
  /\ Current.mapped
  /\ Current.nmos_id \notin nmos_ids

\* None of the four throws.
Acceptable ==
  /\ Current.daemon_id \in 0..63
  /\ Current.mapped
  /\ Current.daemon_id \notin daemon_ids
  /\ Current.nmos_id \notin nmos_ids

CheckStream ==
  /\ phase = "streams" /\ k <= Len(config[side])
  /\ Acceptable
  /\ daemon_ids' = daemon_ids \cup {Current.daemon_id}
  /\ nmos_ids' = nmos_ids \cup {Current.nmos_id}
  /\ k' = k + 1
  /\ UNCHANGED <<config, phase, side, registry>>

RejectStream ==
  /\ phase = "streams" /\ k <= Len(config[side])
  /\ ~Acceptable
  /\ phase' = "rejected"
  /\ UNCHANGED <<config, side, k, daemon_ids, nmos_ids, registry>>

\* check_unique returns; its sets are its own.
SideChecked ==
  /\ phase = "streams" /\ k > Len(config[side])
  /\ IF side = "sender" THEN side' = "receiver" /\ UNCHANGED phase
                        ELSE side' = "sender" /\ phase' = "build"
  /\ k' = 1
  /\ daemon_ids' = {} /\ nmos_ids' = {}
  /\ UNCHANGED <<config, registry>>

\* registry.senders[sender_resource_id(seed_id, nmos_id)] = sender: a stream
\* of the same nmos_id is replaced.
Register(streams, stream) ==
  [id \in DOMAIN streams \cup {stream.nmos_id} |->
     IF id = stream.nmos_id THEN stream ELSE streams[id]]

BuildEntry ==
  /\ phase = "build" /\ k <= Len(config[side])
  /\ registry' = [registry EXCEPT ![side] = Register(@, Current)]
  /\ k' = k + 1
  /\ UNCHANGED <<config, phase, side, daemon_ids, nmos_ids>>

BuildSideEnd ==
  /\ phase = "build" /\ k > Len(config[side])
  /\ IF side = "sender" THEN side' = "receiver" /\ UNCHANGED phase
                        ELSE phase' = "running" /\ UNCHANGED side
  /\ k' = 1
  /\ UNCHANGED <<config, daemon_ids, nmos_ids, registry>>

Next ==
  \/ CheckGlobals \/ CheckStream \/ RejectStream \/ SideChecked
  \/ BuildEntry \/ BuildSideEnd

Spec == Init /\ [][Next]_vars

-----------------------------------------------------------------------------
(***************************************************************************)
(* What RegistryAssumption says of the registry: no two streams of a side  *)
(* share a slot or an nmos_id, and every slot is one the daemon has.       *)
(***************************************************************************)
RegistryIsUnique ==
  phase = "running" =>
    \A sd \in Side :
      /\ \A id \in DOMAIN registry[sd] :
           registry[sd][id].nmos_id = id /\ registry[sd][id].daemon_id \in 0..63
      /\ \A id, other \in DOMAIN registry[sd] :
           registry[sd][id].daemon_id = registry[sd][other].daemon_id => id = other

(***************************************************************************)
(* The registry is a map: a stream whose nmos_id occurred before would     *)
(* silently replace it.  No configured stream is lost that way.            *)
(***************************************************************************)
NoStreamIsLost ==
  phase = "running" =>
    \A sd \in Side : \A j \in 1..Len(config[sd]) :
      /\ config[sd][j].nmos_id \in DOMAIN registry[sd]
      /\ registry[sd][config[sd][j].nmos_id] = config[sd][j]

(***************************************************************************)
(* The loop with its two sets rejects exactly the configurations that are  *)
(* invalid as a whole.                                                     *)
(***************************************************************************)
ValidSide(streams) ==
  /\ \A j \in 1..Len(streams) : streams[j].daemon_id \in 0..63 /\ streams[j].mapped
  /\ \A i, j \in 1..Len(streams) :
       streams[i].daemon_id = streams[j].daemon_id \/ streams[i].nmos_id = streams[j].nmos_id
         => i = j

Valid == /\ config.named /\ config.interval > 0
         /\ \A sd \in Side : ValidSide(config[sd])

RejectsTheInvalid ==
  /\ phase = "rejected" => ~Valid
  /\ phase \in {"build", "running"} => Valid
=============================================================================
