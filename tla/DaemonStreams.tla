--------------------------- MODULE DaemonStreams ---------------------------
(***************************************************************************)
(* The data the bridge and the AES67 daemon exchange: daemon slots, the    *)
(* streams that occupy them, the ownership that is read from a stream's    *)
(* name, and the configured streams (the registry) of one bridge process.  *)
(*                                                                         *)
(* A stream is kept as what the reconciler tells apart: the ownership      *)
(* parse_managed_name returns for its name, and one value for everything   *)
(* else in its JSON representation (address or SDP, channel map, ...).     *)
(***************************************************************************)
EXTENDS Integers

CONSTANTS
  DaemonIds,   \* the daemon ids in use, some of 0..63
  Ns,          \* namespace of this bridge (config.ns)
  Namespaces,  \* every namespace a marker may carry, Ns among them
  NmosIds,     \* nmos_id values
  Targets,     \* multicast destinations and SDPs: what an activation selects
  Bodies,      \* a stream's JSON apart from the marker; every target makes one
  NoTarget,    \* "" or "auto": no destination, no SDP
  Unmanaged,   \* parse_managed_name returned std::nullopt
  NoStream,    \* the slot is absent from the daemon's map
  Registry     \* ResourceRegistry: the configured senders and receivers

Side == {"sender", "receiver"}

\* std::map<int, DaemonStream> sources and sinks: one key space per side.
Slot == [side : Side, id : DaemonIds]

Ownership == [ns : Namespaces, side : Side, nmos_id : NmosIds]

DaemonStream == [owner : Ownership \cup {Unmanaged}, body : Bodies]

\* DaemonState: what each slot of the daemon holds.
DaemonState == [Slot -> DaemonStream \cup {NoStream}]

(***************************************************************************)
(* One entry of ResourceRegistry.senders / .receivers.  uuid stands for    *)
(* the std::map key (the derived resource id): only its order matters.     *)
(* marker is what parse_managed_name reads back from the name the bridge   *)
(* builds for this entry.                                                  *)
(***************************************************************************)
StreamConfig ==
  [side : Side, daemon_id : DaemonIds, nmos_id : NmosIds, uuid : Nat,
   address : Targets \cup {NoTarget}, marker : Ownership \cup {Unmanaged}]

SlotOf(c) == [side |-> c.side, id |-> c.daemon_id]

\* check_unique: no two streams of a side share a daemon_id or an nmos_id;
\* resource ids derived from distinct nmos_ids are distinct.
UniqueConfig ==
  \A c, d \in Registry :
    /\ c.side = d.side
    /\ \/ c.daemon_id = d.daemon_id
       \/ c.nmos_id = d.nmos_id
       \/ c.uuid = d.uuid
    => c = d

ASSUME ConstantsAssumption ==
  /\ DaemonIds \subseteq 0..63
  /\ Ns \in Namespaces
  /\ Targets \subseteq Bodies
  /\ NoTarget \notin Bodies
  /\ Unmanaged \notin Ownership
  /\ NoStream \notin DaemonStream

ASSUME RegistryAssumption ==
  /\ Registry \subseteq StreamConfig
  /\ UniqueConfig

\* ownership && ownership->ns == ns_ : the bridge may overwrite this stream.
Mine(st) == /\ st # NoStream
            /\ st.owner # Unmanaged
            /\ st.owner.ns = Ns

\* A manual stream, or one of another namespace: it must be left alone.
Foreign(st) == st # NoStream /\ ~Mine(st)

\* make_source_payload / make_sink_payload with everything that is fixed by
\* the configuration left out.
MakePayload(c, target) == [owner |-> c.marker, body |-> target]
=============================================================================
