------------------------------ MODULE Startup ------------------------------
(***************************************************************************)
(* The process from its settings file to a populated node model: main      *)
(* checks the configuration, edits the nmos-cpp settings, builds the       *)
(* registry and opens the node server; insert_node_resources then fills    *)
(* the model on a thread of the server.  An exception in main ends the     *)
(* process before the server is open; one in the thread ends the thread,   *)
(* or with it the process (see BridgeThreads, Terminate).                  *)
(***************************************************************************)
EXTENDS ConfigCheck, NmosSettings

CONSTANTS
  Inputs,        \* [config, options] a settings file may hold
  MaxInt         \* bound of std::stoi

\* options: the bridge's settings ConfigCheck leaves out (interface, cidrs,
\* registration; codec for each nmos_id) and those of nmos-cpp's own keys that
\* the bridge reads or writes (nmos).  A registration address that is given has
\* a host or a port.

ASSUME InputsAssumption ==
  \A input \in Inputs :
    /\ DOMAIN input.options.nmos = NmosKeys
    /\ LET address == input.options.registration.address
       IN address # Unset => address.host # Unset \/ address.port # Unset

VARIABLES
  options,     \* the settings file beside what is in config
  settings,    \* node_model.settings
  step,        \* the next thing main does
  inserting,   \* where insert_node_resources is
  bound,       \* names and addresses of the RTP interface
  resources    \* what has been inserted: node interfaces, senders, receivers

startup == <<options, settings, step, inserting, bound, resources>>
svars == <<vars, startup>>

StartupInit ==
  /\ \E input \in Inputs :
       config = input.config /\ options = input.options /\ settings = input.options.nmos
  /\ Init
  /\ step = "check"
  /\ inserting = "new"
  /\ bound = [names |-> <<>>, addresses |-> <<>>]
  /\ resources = [interfaces |-> {}, sender |-> <<>>, receiver |-> <<>>]

Main(from, to) == step = from /\ step' = to
MainOnly == UNCHANGED <<vars, options, inserting, bound, resources>>

Throws(from) == Main(from, "exit") /\ MainOnly /\ UNCHANGED settings

\* The settings file cannot be opened, is not JSON, or lacks what the parser reads
\* before its checks.
ReadFails == phase = "globals" /\ Throws("check")

\* parse_bridge_config
Check ==
  /\ step = "check"
  /\ CheckGlobals \/ CheckStream \/ RejectStream \/ SideChecked
  /\ step' = CASE phase' = "rejected" -> "exit"
               [] phase' = "build" -> "seed"
               [] OTHER -> step
  /\ UNCHANGED <<options, settings, inserting, bound, resources>>

\* make_repeatable_id is a digest of its arguments.
DerivedSeed == <<"seed of", "namespace">>

EnsureSeed ==
  /\ Main("seed", "filters")
  /\ settings' = [settings EXCEPT !.seed_id = Or(@, DerivedSeed)]
  /\ MainOnly

FilterAddresses ==
  /\ Main("filters", "registration")
  /\ ~FiltersThrow(options.cidrs)
  /\ settings' = apply_api_address_filters(settings, options.cidrs)
  /\ MainOnly

FilterFails == FiltersThrow(options.cidrs) /\ Throws("filters")

SetRegistration ==
  /\ Main("registration", "build")
  /\ ~RegistrationThrows(options.registration)
  /\ settings' = apply_registration_settings(settings, options.registration)
  /\ MainOnly

RegistrationFails == RegistrationThrows(options.registration) /\ Throws("registration")

\* build_registry
Build ==
  /\ step = "build"
  /\ BuildEntry \/ BuildSideEnd
  /\ step' = IF phase' = "running" THEN "open" ELSE step
  /\ UNCHANGED <<options, settings, inserting, bound, resources>>

\* All addresses of the host, if none are given.
insert_node_default_settings == [settings EXCEPT !.host_addresses = Or(@, AllAddresses)]

\* The server guard starts the threads.
Open ==
  /\ Main("open", "running")
  /\ settings' = insert_node_default_settings
  /\ inserting' = "lookup"
  /\ UNCHANGED <<vars, options, bound, resources>>

\* The server guard throws: a port is in use, or the node server is not made.
OpenFails ==
  /\ Main("open", "exit")
  /\ settings' = insert_node_default_settings
  /\ MainOnly

(***************************************************************************)
(* insert_node_resources                                                   *)
(***************************************************************************)

\* nmos::get_host_interfaces: the interfaces of the host with one of the
\* host_addresses, by their positions.
NodeInterfaces ==
  {i \in DOMAIN HostInterfaces :
     ToSet(HostInterfaces[i].addresses) \cap settings.host_addresses # {}}

InterfacesNamed(name) == {i \in DOMAIN HostInterfaces : HostInterfaces[i].name = name}

\* daemon_interface_name does not match a local interface.
LookupThrows == options.interface # Unset /\ InterfacesNamed(options.interface) = {}

\* The interface for RTP, one without name or addresses if there is none.
rtp_host_interface ==
  LET candidates == IF options.interface # Unset THEN InterfacesNamed(options.interface)
                                                 ELSE NodeInterfaces
  IN IF candidates = {} THEN [name |-> Unset, addresses |-> <<>>]
                        ELSE HostInterfaces[Min(candidates)]

listed_interfaces == {HostInterfaces[i] : i \in NodeInterfaces}

\* Variant for validation: the daemon's interface is not added.
ListedInterfacesOnly == listed_interfaces

node_host_interfaces ==
  IF \/ options.interface = Unset
     \/ \E listed \in listed_interfaces : listed.name = rtp_host_interface.name
  THEN listed_interfaces
  ELSE listed_interfaces \cup {rtp_host_interface}

\* codec_bit_depth: the digits of the codec, read as one number.  A codec is the
\* sequence of its characters, NotANumber standing for one that is no digit.
Depth(codec) ==
  LET digits == SelectSeq(codec, LAMBDA ch : ch \in 0..9)
  IN IF digits = <<>> THEN 24 ELSE FoldLeft(LAMBDA n, d : 10 * n + d, 0, digits)

CodecThrows(codec) == Depth(codec) > MaxInt

Insertion(from, to) == inserting = from /\ inserting' = to
InsertionOnly == UNCHANGED <<vars, options, settings, step>>

\* interface_names and interface_addresses
Lookup ==
  /\ Insertion("lookup", "node")
  /\ ~LookupThrows
  /\ bound' = [names |-> IF rtp_host_interface.name = Unset
                         THEN <<>> ELSE <<rtp_host_interface.name>>,
               addresses |-> rtp_host_interface.addresses]
  /\ InsertionOnly /\ UNCHANGED resources

LookupFails ==
  /\ Insertion("lookup", "failed")
  /\ LookupThrows
  /\ InsertionOnly /\ UNCHANGED <<bound, resources>>

InsertNode ==
  /\ Insertion("node", "sender")
  /\ resources' = [resources EXCEPT !.interfaces = node_host_interfaces]
  /\ InsertionOnly /\ UNCHANGED bound

\* A sender or receiver with its connection resource, disabled.
Resource(sd, id) ==
  [stream |-> registry[sd][id],
   bindings |-> bound.names,
   constraint |-> IF bound.addresses = <<>> THEN Unset ELSE Head(bound.addresses),
   master_enable |-> FALSE]

Left(sd) == DOMAIN registry[sd] \ DOMAIN resources[sd]

\* One iteration of the loops over the registry, in the order of the ids.
InsertStream(sd, id) ==
  /\ inserting = sd /\ id \in Left(sd)
  /\ sd = "sender" => ~CodecThrows(options.codec[id])
  /\ resources' = [resources EXCEPT ![sd] =
                     [i \in DOMAIN @ \cup {id} |-> IF i = id THEN Resource(sd, id) ELSE @[i]]]
  /\ InsertionOnly /\ UNCHANGED <<bound, inserting>>

\* std::out_of_range; what has been inserted stays.
InsertStreamFails(id) ==
  /\ Insertion("sender", "failed")
  /\ id \in Left("sender") /\ CodecThrows(options.codec[id])
  /\ InsertionOnly /\ UNCHANGED <<bound, resources>>

SideInserted(sd) ==
  /\ Insertion(sd, IF sd = "sender" THEN "receiver" ELSE "done")
  /\ Left(sd) = {}
  /\ InsertionOnly /\ UNCHANGED <<bound, resources>>

-----------------------------------------------------------------------------
MainNext ==
  \/ ReadFails \/ Check \/ EnsureSeed \/ FilterAddresses \/ FilterFails
  \/ SetRegistration \/ RegistrationFails \/ Build \/ Open \/ OpenFails

InsertionNext ==
  \/ Lookup \/ LookupFails \/ InsertNode
  \/ \E sd \in Side : SideInserted(sd) \/ \E id \in NmosIds : InsertStream(sd, id)
  \/ \E id \in NmosIds : InsertStreamFails(id)

StartupNext == MainNext \/ InsertionNext

StartupSpec == StartupInit /\ [][StartupNext]_svars

-----------------------------------------------------------------------------
(***************************************************************************)
(* README, nmos_api_address_cidrs: "limiting advertised Node API           *)
(* endpoints".  With an allow-list, the addresses advertised are those of  *)
(* the host that agree with an entry in all bits of its prefix, for every  *)
(* prefix length down to 0; there is at least one.                         *)
(***************************************************************************)
Bit(address, n) ==
  (address[1 + (n \div OctetBits)] \div 2^(OctetBits - 1 - (n % OctetBits))) % 2 = 1

InCidr(address, cidr) ==
  IsIpv4(address) /\ \A n \in 0..(cidr.prefix - 1) : Bit(address, n) = Bit(cidr.address, n)

AdvertisesWithinCidrs ==
  step = "running" /\ options.cidrs # <<>> =>
    /\ settings.host_addresses =
         {a \in AllAddresses : \E c \in ToSet(options.cidrs) : InCidr(a, c)}
    /\ settings.host_address \in settings.host_addresses

(***************************************************************************)
(* One registration mode does not leak into another: discovery is ended    *)
(* exactly in the static and registryless modes, a registry is named       *)
(* exactly in the static one (either also by nmos-cpp's own keys), and a   *)
(* port taken from its address is a port.                                  *)
(***************************************************************************)
RegistrationModesAreApart ==
  LET mode == options.registration.mode
      Before(key) == settings[key] = options.nmos[key]
  IN step = "running" =>
       /\ settings.highest_pri = NoDiscovery <=>
            mode \in {"static"} \cup Registryless \/ options.nmos.highest_pri = NoDiscovery
       /\ mode # "static" => Before("registry_address") /\ Before("registration_port")
       /\ mode = "static" => settings.registry_address # Unset
       /\ mode \notin Browsing => Before("dns_sd_browse_mode") /\ Before("domain")
       /\ mode = "static" /\ options.registration.port = Unset =>
            \/ Before("registration_port")
            \/ settings.registration_port \in 1..MaxPort

(***************************************************************************)
(* IS-04 requires that the interface_bindings of a sender or receiver name *)
(* interfaces of its node.  They do, also when the daemon's interface is   *)
(* not one of the node's API interfaces, and the address senders and       *)
(* receivers are constrained to belongs to the interface they are bound to.*)
(***************************************************************************)
BindingsAreNodeInterfaces ==
  \A sd \in Side : \A id \in DOMAIN resources[sd] :
    LET r == resources[sd][id] IN
      /\ \A i \in DOMAIN r.bindings :
           \E interface \in resources.interfaces : interface.name = r.bindings[i]
      /\ r.constraint # Unset =>
           \E interface \in resources.interfaces :
             <<interface.name>> = r.bindings /\ Contains(interface.addresses, r.constraint)

(***************************************************************************)
(* main.cpp: "Parse and validate the bridge-specific configuration first,  *)
(* so errors are reported clearly before any NMOS machinery starts."  Once *)
(* the node server is open, no configuration error shows up any more.      *)
(***************************************************************************)
ErrorsComeBeforeOpen == inserting # "failed"
=============================================================================
