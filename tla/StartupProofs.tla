--------------------------- MODULE StartupProofs ---------------------------
(***************************************************************************)
(* What holds of the process from its settings file on, for every settings *)
(* file and every set of host interfaces.                                  *)
(***************************************************************************)
EXTENDS Startup, ConfigCheckProofs, OrderLemmas

-----------------------------------------------------------------------------
(***************************************************************************)
(* main carries out ConfigCheck, and nothing else touches its variables.   *)
(***************************************************************************)
THEOREM StartupImplementsConfigCheck == StartupSpec => Spec
<1>1. StartupInit => Init
  BY DEF StartupInit
<1>2. ASSUME [StartupNext]_svars
      PROVE  [Next]_vars
  <2>1. CASE Check
    BY <2>1 DEF Check, Next
  <2>2. CASE Build
    BY <2>2 DEF Build, Next
  <2>3. CASE StartupNext /\ ~Check /\ ~Build
    <3>1. UNCHANGED vars
      BY <2>3
      DEF StartupNext, MainNext, EnsureSeed, FilterAddresses, FilterFails, SetRegistration,
          RegistrationFails, Open, OpenFails, ReadFails, Throws, MainOnly, InsertionNext,
          Lookup, LookupFails, InsertNode, SideInserted, InsertStream, InsertStreamFails, InsertionOnly
    <3> QED
      BY <3>1
  <2>4. CASE UNCHANGED svars
    BY <2>4 DEF svars
  <2> QED
    BY <1>2, <2>1, <2>2, <2>3, <2>4
<1> QED
  BY <1>1, <1>2, PTL DEF StartupSpec, Spec

(***************************************************************************)
(* The registry of a process that got past its checks is what the other    *)
(* modules assume of Registry.                                             *)
(***************************************************************************)
THEOREM RegistryOfStartupIsUnique == StartupSpec => []RegistryIsUnique
BY StartupImplementsConfigCheck, CheckInvariant, UniqueRegistry, PTL

(***************************************************************************)
(* Every configured stream is in the registry: none replaces another.      *)
(***************************************************************************)
THEOREM RegistryOfStartupIsComplete == StartupSpec => []NoStreamIsLost
BY StartupImplementsConfigCheck, CheckInvariant, CompleteRegistry, PTL

(***************************************************************************)
(* parse_bridge_config throws for an invalid configuration, and only then. *)
(***************************************************************************)
THEOREM StartupRejectsTheInvalid == StartupSpec => []RejectsTheInvalid
BY StartupImplementsConfigCheck, CheckInvariant, ExactChecks, PTL

-----------------------------------------------------------------------------
(***************************************************************************)
(* apply_registration_settings, mode by mode: what it sets, and what it    *)
(* leaves as it was.                                                       *)
(***************************************************************************)
EndsDiscovery == {"static"} \cup Registryless

LEMMA RegistrationApplied ==
  ASSUME NEW s, DOMAIN s = NmosKeys, NEW reg, ~RegistrationThrows(reg),
         reg.address # Unset => reg.address.host # Unset \/ reg.address.port # Unset
  PROVE  LET t == apply_registration_settings(s, reg)
         IN /\ DOMAIN t = NmosKeys
            /\ t.host_addresses = s.host_addresses /\ t.host_address = s.host_address
            /\ reg.mode \in EndsDiscovery => t.highest_pri = NoDiscovery
            /\ reg.mode \notin EndsDiscovery => t.highest_pri = s.highest_pri
            /\ reg.mode # "static" => /\ t.registry_address = s.registry_address
                                      /\ t.registration_port = s.registration_port
            /\ reg.mode = "static" => t.registry_address # Unset
            /\ reg.mode \notin Browsing => /\ t.dns_sd_browse_mode = s.dns_sd_browse_mode
                                           /\ t.domain = s.domain
            /\ reg.mode = "static" /\ reg.port = Unset =>
                 t.registration_port = s.registration_port \/ t.registration_port \in 1..MaxPort
<1> DEFINE t == apply_registration_settings(s, reg)
<1> USE DEF EndsDiscovery, Registryless, Browsing, NmosKeys
<1>1. CASE reg.mode = "static"
  <2>1. reg.address # Unset /\ IsHostPort(reg.address)
    BY <1>1 DEF RegistrationThrows
  <2> DEFINE port == IF reg.port # Unset /\ reg.port > 0 THEN reg.port ELSE reg.address.port
             u == [s EXCEPT !.registry_address = reg.address.host,
                            !.registration_port = Or(port, @),
                            !.registry_version = Or(reg.version, @)]
  <2>2. t = [u EXCEPT !.highest_pri = NoDiscovery]
    BY <1>1 DEF apply_registration_settings, disable_registry_discovery, StaticRegistry
  <2>3. /\ DOMAIN u = NmosKeys
        /\ u.registry_address = reg.address.host
        /\ u.registration_port = Or(port, s.registration_port)
        /\ u.dns_sd_browse_mode = s.dns_sd_browse_mode
        /\ u.domain = s.domain
        /\ u.host_addresses = s.host_addresses /\ u.host_address = s.host_address
    OBVIOUS
  <2>4. reg.address.host # Unset
    BY <2>1 DEF IsHostPort
  <2>5. reg.port = Unset => \/ port = Unset /\ u.registration_port = s.registration_port
                            \/ u.registration_port \in 1..MaxPort
    BY <2>1, <2>3 DEF IsHostPort, Or
  <2> HIDE DEF t, u, port
  <2>6. /\ DOMAIN t = NmosKeys
        /\ t.highest_pri = NoDiscovery
        /\ t.registry_address = u.registry_address
        /\ t.registration_port = u.registration_port
        /\ t.dns_sd_browse_mode = u.dns_sd_browse_mode
        /\ t.domain = u.domain
        /\ t.host_addresses = u.host_addresses /\ t.host_address = u.host_address
    BY <2>2, <2>3
  <2> QED
    BY <1>1, <2>3, <2>4, <2>5, <2>6 DEF t
<1>2. CASE reg.mode = "dns-sd"
  <2>1. t = [s EXCEPT !.dns_sd_browse_mode = 1, !.domain = Or(reg.domain, @)]
    BY <1>2 DEF apply_registration_settings
  <2> HIDE DEF t
  <2> QED
    BY <1>2, <2>1 DEF t
<1>3. CASE reg.mode \in {"mdns", "bonjour"}
  <2>1. t = [s EXCEPT !.dns_sd_browse_mode = 2, !.domain = "local."]
    BY <1>3 DEF apply_registration_settings
  <2> HIDE DEF t
  <2> QED
    BY <1>3, <2>1 DEF t
<1>4. CASE reg.mode \in {"registryless", "peer-to-peer"}
  <2>1. t = [s EXCEPT !.highest_pri = NoDiscovery]
    BY <1>4 DEF apply_registration_settings, disable_registry_discovery
  <2> HIDE DEF t
  <2> QED
    BY <1>4, <2>1 DEF t
<1>5. CASE reg.mode \notin EndsDiscovery \cup Browsing
  <2>1. t = s
    BY <1>5 DEF apply_registration_settings
  <2> QED
    BY <1>5, <2>1
<1> QED
  BY <1>1, <1>2, <1>3, <1>4, <1>5
-----------------------------------------------------------------------------
(***************************************************************************)
(* The registration settings are nmos-cpp's own until main applies the     *)
(* bridge's, and what they are applied to is not touched afterwards.       *)
(***************************************************************************)
OptionsChecked ==
  /\ DOMAIN options.nmos = NmosKeys
  /\ LET address == options.registration.address
     IN address # Unset => address.host # Unset \/ address.port # Unset

RegistrationKeys ==
  {"registry_address", "registration_port", "dns_sd_browse_mode", "domain", "highest_pri"}

NotYetApplied == \A key \in RegistrationKeys : settings[key] = options.nmos[key]

ModesAreApart ==
  LET mode == options.registration.mode
      Before(key) == settings[key] = options.nmos[key]
  IN /\ settings.highest_pri = NoDiscovery <=>
          mode \in EndsDiscovery \/ options.nmos.highest_pri = NoDiscovery
     /\ mode # "static" => Before("registry_address") /\ Before("registration_port")
     /\ mode = "static" => settings.registry_address # Unset
     /\ mode \notin Browsing => Before("dns_sd_browse_mode") /\ Before("domain")
     /\ mode = "static" /\ options.registration.port = Unset =>
          \/ Before("registration_port")
          \/ settings.registration_port \in 1..MaxPort

SettingsInv ==
  /\ OptionsChecked
  /\ DOMAIN settings = NmosKeys
  /\ step \in {"check", "seed", "filters", "registration"} => NotYetApplied
  /\ step \in {"build", "open", "running"} => ModesAreApart

LEMMA SettingsInit == StartupInit => SettingsInv
<1> SUFFICES ASSUME StartupInit PROVE SettingsInv
  OBVIOUS
<1>1. PICK input \in Inputs : options = input.options /\ settings = input.options.nmos
  BY DEF StartupInit
<1>2. OptionsChecked /\ DOMAIN settings = NmosKeys
  BY <1>1, InputsAssumption DEF OptionsChecked
<1>3. NotYetApplied
  BY <1>1 DEF NotYetApplied
<1>4. step = "check"
  BY DEF StartupInit
<1> QED
  BY <1>2, <1>3, <1>4 DEF SettingsInv

\* A step that leaves the registration settings alone, and stays on its side.
LEMMA SettingsKept ==
  ASSUME SettingsInv, options' = options, DOMAIN settings' = NmosKeys,
         \A key \in RegistrationKeys : settings'[key] = settings[key],
         step' \in {"check", "seed", "filters", "registration"} =>
           step \in {"check", "seed", "filters", "registration"},
         step' \in {"build", "open", "running"} => step \in {"build", "open", "running"}
  PROVE  SettingsInv'
<1>1. OptionsChecked'
  BY DEF SettingsInv, OptionsChecked
<1>2. NotYetApplied => NotYetApplied'
  BY DEF NotYetApplied
<1>3. ModesAreApart => ModesAreApart'
  <2>1. /\ settings'.registry_address = settings.registry_address
        /\ settings'.registration_port = settings.registration_port
        /\ settings'.dns_sd_browse_mode = settings.dns_sd_browse_mode
        /\ settings'.domain = settings.domain
        /\ settings'.highest_pri = settings.highest_pri
    BY DEF RegistrationKeys
  <2> QED
    BY <2>1 DEF ModesAreApart
<1> QED
  BY <1>1, <1>2, <1>3 DEF SettingsInv

LEMMA SettingsStep == SettingsInv /\ [StartupNext]_svars => SettingsInv'
<1> SUFFICES ASSUME SettingsInv, [StartupNext]_svars
             PROVE  SettingsInv'
  OBVIOUS
<1>1. OptionsChecked /\ DOMAIN settings = NmosKeys
  BY DEF SettingsInv
<1>2. CASE UNCHANGED <<options, settings>> /\ (step' = step \/ step' = "exit")
  BY <1>1, <1>2, SettingsKept
<1>3. CASE Check
  <2>1. step = "check" /\ step' \in {"exit", "seed", "check"}
    BY <1>3 DEF Check
  <2>2. UNCHANGED <<options, settings>>
    BY <1>3 DEF Check
  <2> QED
    BY <1>1, <2>1, <2>2, SettingsKept
<1>4. CASE EnsureSeed
  <2>1. DOMAIN settings' = NmosKeys
    BY <1>1, <1>4 DEF EnsureSeed
  <2>2. \A key \in RegistrationKeys : settings'[key] = settings[key]
    BY <1>1, <1>4 DEF EnsureSeed, RegistrationKeys, NmosKeys
  <2>3. step = "seed" /\ step' = "filters" /\ options' = options
    BY <1>4 DEF EnsureSeed, Main, MainOnly
  <2> QED
    BY <2>1, <2>2, <2>3, SettingsKept
<1>5. CASE FilterAddresses
  <2>1. \/ settings' = settings
        \/ settings' = [settings EXCEPT !.host_addresses = MatchingAddresses(options.cidrs),
                                        !.host_address = FirstOf(MatchingAddresses(options.cidrs))]
    BY <1>5 DEF FilterAddresses, apply_api_address_filters
  <2>2. DOMAIN settings' = NmosKeys
    BY <1>1, <2>1
  <2>3. \A key \in RegistrationKeys : settings'[key] = settings[key]
    BY <1>1, <2>1 DEF RegistrationKeys, NmosKeys
  <2>4. step = "filters" /\ step' = "registration" /\ options' = options
    BY <1>5 DEF FilterAddresses, Main, MainOnly
  <2> QED
    BY <2>2, <2>3, <2>4, SettingsKept
<1>6. CASE SetRegistration
  <2>1. /\ step = "registration" /\ step' = "build" /\ options' = options
        /\ ~RegistrationThrows(options.registration)
        /\ settings' = apply_registration_settings(settings, options.registration)
    BY <1>6 DEF SetRegistration, Main, MainOnly
  <2>2. \A key \in RegistrationKeys : settings[key] = options.nmos[key]
    BY <2>1 DEF SettingsInv, NotYetApplied
  <2>3. /\ settings.registry_address = options.nmos.registry_address
        /\ settings.registration_port = options.nmos.registration_port
        /\ settings.dns_sd_browse_mode = options.nmos.dns_sd_browse_mode
        /\ settings.domain = options.nmos.domain
        /\ settings.highest_pri = options.nmos.highest_pri
    BY <2>2 DEF RegistrationKeys
  <2>4. DOMAIN settings' = NmosKeys /\ ModesAreApart'
    <3> DEFINE reg == options.registration
    <3>1. reg.address # Unset => reg.address.host # Unset \/ reg.address.port # Unset
      BY <1>1 DEF OptionsChecked
    <3>2. /\ DOMAIN settings' = NmosKeys
          /\ reg.mode \in EndsDiscovery => settings'.highest_pri = NoDiscovery
          /\ reg.mode \notin EndsDiscovery => settings'.highest_pri = settings.highest_pri
          /\ reg.mode # "static" =>
               /\ settings'.registry_address = settings.registry_address
               /\ settings'.registration_port = settings.registration_port
          /\ reg.mode = "static" => settings'.registry_address # Unset
          /\ reg.mode \notin Browsing =>
               /\ settings'.dns_sd_browse_mode = settings.dns_sd_browse_mode
               /\ settings'.domain = settings.domain
          /\ reg.mode = "static" /\ reg.port = Unset =>
               \/ settings'.registration_port = settings.registration_port
               \/ settings'.registration_port \in 1..MaxPort
      BY <1>1, <2>1, <3>1, RegistrationApplied
    <3> QED
      BY <2>1, <2>3, <3>2 DEF ModesAreApart
  <2>5. OptionsChecked'
    BY <1>1, <2>1 DEF OptionsChecked
  <2> QED
    BY <2>1, <2>4, <2>5 DEF SettingsInv
<1>7. CASE Build
  <2>1. step = "build" /\ step' \in {"open", "build"} /\ UNCHANGED <<options, settings>>
    BY <1>7 DEF Build
  <2> QED
    BY <1>1, <2>1, SettingsKept
<1>8. CASE Open \/ OpenFails
  <2>1. DOMAIN settings' = NmosKeys
    BY <1>1, <1>8 DEF Open, OpenFails, insert_node_default_settings
  <2>2. \A key \in RegistrationKeys : settings'[key] = settings[key]
    BY <1>1, <1>8 DEF Open, OpenFails, insert_node_default_settings, RegistrationKeys, NmosKeys
  <2>3. step = "open" /\ step' \in {"running", "exit"} /\ options' = options
    BY <1>8 DEF Open, OpenFails, Main, MainOnly
  <2> QED
    BY <2>1, <2>2, <2>3, SettingsKept
<1>9. CASE FilterFails \/ RegistrationFails \/ ReadFails \/ InsertionNext \/ UNCHANGED svars
  <2>1. UNCHANGED <<options, settings>> /\ (step' = step \/ step' = "exit")
    BY <1>9
    DEF FilterFails, RegistrationFails, ReadFails, Throws, Main, MainOnly, InsertionNext, Lookup,
        LookupFails, InsertNode, SideInserted, InsertStream, InsertStreamFails, InsertionOnly,
        svars, startup
  <2> QED
    BY <1>2, <2>1
<1> QED
  BY <1>3, <1>4, <1>5, <1>6, <1>7, <1>8, <1>9 DEF StartupNext, MainNext

(***************************************************************************)
(* Whatever the settings file holds, one registration mode does not leak   *)
(* into another (apply_registration_settings, and every later step of      *)
(* main, which leaves its result alone).                                   *)
(***************************************************************************)
THEOREM ModesOfStartupAreApart == StartupSpec => []RegistrationModesAreApart
<1>1. SettingsInv => RegistrationModesAreApart
  BY DEF SettingsInv, ModesAreApart, RegistrationModesAreApart, EndsDiscovery
<1> QED
  BY <1>1, SettingsInit, SettingsStep, PTL DEF StartupSpec

-----------------------------------------------------------------------------
(***************************************************************************)
(* What is bound, and listed for the node, once a stream is inserted.      *)
(***************************************************************************)
NoInterface == [name |-> Unset, addresses |-> <<>>]

BoundTo(interface) ==
  [names |-> IF interface.name = Unset THEN <<>> ELSE <<interface.name>>,
   addresses |-> interface.addresses]

LookedUp == ~LookupThrows /\ bound = BoundTo(rtp_host_interface)

Inserted(sd) == DOMAIN resources[sd]

BindingInv ==
  /\ DOMAIN resources = {"interfaces", "sender", "receiver"}
  /\ inserting # "new" => step = "running"
  /\ inserting \in {"node", "sender", "receiver", "done"} => LookedUp
  /\ inserting \in {"sender", "receiver", "done"} => resources.interfaces = node_host_interfaces
  /\ \A sd \in Side :
       /\ inserting \in {"new", "lookup", "node"} => Inserted(sd) = {}
       /\ \A id \in Inserted(sd) :
            /\ LookedUp /\ resources.interfaces = node_host_interfaces
            /\ resources[sd][id].bindings = bound.names
            /\ resources[sd][id].constraint =
                 IF bound.addresses = << >> THEN Unset ELSE Head(bound.addresses)

\* The interface for RTP is one of the host's, or there is none.
LEMMA RtpInterface ==
  ASSUME ~LookupThrows
  PROVE  \/ options.interface = Unset /\ rtp_host_interface = NoInterface
         \/ \E i \in DOMAIN HostInterfaces :
              /\ rtp_host_interface = HostInterfaces[i]
              /\ options.interface = Unset => i \in NodeInterfaces
<1> DEFINE candidates == IF options.interface # Unset THEN InterfacesNamed(options.interface)
                                                      ELSE NodeInterfaces
<1>1. rtp_host_interface = IF candidates = {} THEN NoInterface
                                              ELSE HostInterfaces[Min(candidates)]
  BY DEF rtp_host_interface, NoInterface
<1>2. options.interface # Unset => candidates # {}
  BY DEF LookupThrows
<1>3. candidates \subseteq DOMAIN HostInterfaces /\ DOMAIN HostInterfaces \subseteq Nat
  <2>1. DOMAIN HostInterfaces = 1..Len(HostInterfaces) /\ Len(HostInterfaces) \in Nat
    BY InterfacesAssumption
  <2> QED
    BY <2>1 DEF InterfacesNamed, NodeInterfaces
<1>4. options.interface = Unset => candidates = NodeInterfaces
  OBVIOUS
<1> HIDE DEF candidates
<1>5. candidates # {} => Min(candidates) \in candidates
  BY <1>3, MinIsLeast
<1> QED
  BY <1>1, <1>2, <1>3, <1>4, <1>5

\* It is among the interfaces of the node.
LEMMA RtpInterfaceIsListed ==
  ASSUME ~LookupThrows, rtp_host_interface.name # Unset
  PROVE  rtp_host_interface \in node_host_interfaces
<1>1. rtp_host_interface # NoInterface
  BY DEF NoInterface
<1>2. PICK i \in DOMAIN HostInterfaces :
        /\ rtp_host_interface = HostInterfaces[i]
        /\ options.interface = Unset => i \in NodeInterfaces
  BY <1>1, RtpInterface
<1>3. CASE options.interface = Unset
  BY <1>2, <1>3 DEF node_host_interfaces, listed_interfaces
<1>4. CASE \E listed \in listed_interfaces : listed.name = rtp_host_interface.name
  <2>1. PICK j \in NodeInterfaces : HostInterfaces[j].name = HostInterfaces[i].name
    BY <1>2, <1>4 DEF listed_interfaces
  <2>2. j \in DOMAIN HostInterfaces
    BY DEF NodeInterfaces
  <2>3. j = i
    BY <2>1, <2>2, InterfacesAssumption
  <2> QED
    BY <1>2, <1>4, <2>3 DEF node_host_interfaces, listed_interfaces
<1>5. CASE /\ options.interface # Unset
           /\ ~\E listed \in listed_interfaces : listed.name = rtp_host_interface.name
  BY <1>5 DEF node_host_interfaces
<1> QED
  BY <1>3, <1>4, <1>5

LEMMA BindingsListed == BindingInv => BindingsAreNodeInterfaces
<1> SUFFICES ASSUME BindingInv, NEW sd \in Side, NEW id \in DOMAIN resources[sd]
             PROVE  LET r == resources[sd][id] IN
                      /\ \A i \in DOMAIN r.bindings :
                           \E interface \in resources.interfaces :
                             interface.name = r.bindings[i]
                      /\ r.constraint # Unset =>
                           \E interface \in resources.interfaces :
                             /\ <<interface.name>> = r.bindings
                             /\ Contains(interface.addresses, r.constraint)
  BY DEF BindingsAreNodeInterfaces
<1> DEFINE rtp == rtp_host_interface
           r == resources[sd][id]
<1>1. /\ ~LookupThrows /\ resources.interfaces = node_host_interfaces
      /\ r.bindings = IF rtp.name = Unset THEN << >> ELSE <<rtp.name>>
      /\ r.constraint = IF rtp.addresses = << >> THEN Unset ELSE Head(rtp.addresses)
  BY DEF BindingInv, LookedUp, BoundTo, Inserted
<1>2. CASE rtp = NoInterface
  <2>1. r.bindings = << >> /\ r.constraint = Unset
    BY <1>1, <1>2 DEF NoInterface
  <2> QED
    BY <2>1
<1>3. CASE rtp # NoInterface
  <2>1. PICK i \in DOMAIN HostInterfaces : rtp = HostInterfaces[i]
    BY <1>1, <1>3, RtpInterface
  <2>2. rtp.name # Unset /\ rtp.addresses \in Seq(ToSet(rtp.addresses))
    BY <2>1, InterfacesAssumption
  <2>3. rtp \in resources.interfaces
    BY <1>1, <2>2, RtpInterfaceIsListed
  <2>4. r.bindings = <<rtp.name>>
    BY <1>1, <2>2
  <2>5. r.constraint # Unset => Contains(rtp.addresses, r.constraint)
    <3> SUFFICES ASSUME r.constraint # Unset
                 PROVE  Contains(rtp.addresses, r.constraint)
      OBVIOUS
    <3> HIDE DEF rtp, r
    <3>1. rtp.addresses # << >> /\ r.constraint = Head(rtp.addresses)
      BY <1>1
    <3>2. Len(rtp.addresses) \in Nat \ {0} /\ Head(rtp.addresses) = rtp.addresses[1]
      BY <2>2, <3>1
    <3>3. 1 \in 1..Len(rtp.addresses)
      BY <3>2
    <3> QED
      BY <3>1, <3>2, <3>3 DEF Contains
  <2> HIDE DEF rtp, r
  <2>6. \A n \in DOMAIN r.bindings : rtp.name = r.bindings[n]
    BY <2>4
  <2> QED
    BY <2>3, <2>4, <2>5, <2>6 DEF rtp, r
<1> QED
  BY <1>2, <1>3

LEMMA BindingInit == StartupInit => BindingInv
BY DEF StartupInit, BindingInv, Inserted, Side

\* A step that inserts nothing, once the node server is open or before.
LEMMA BindingKept ==
  ASSUME BindingInv, UNCHANGED <<inserting, bound, resources>>,
         inserting = "new" \/ UNCHANGED <<options, settings, step>>
  PROVE  BindingInv'
<1>1. CASE inserting = "new"
  BY <1>1 DEF BindingInv, Inserted
<1>2. CASE inserting # "new" /\ UNCHANGED <<options, settings, step>>
  <2>1. UNCHANGED <<NodeInterfaces, rtp_host_interface, node_host_interfaces, LookedUp>>
    BY <1>2 DEF NodeInterfaces, rtp_host_interface, listed_interfaces, node_host_interfaces,
                LookedUp, LookupThrows
  <2> QED
    BY <1>2, <2>1 DEF BindingInv, Inserted
<1> QED
  BY <1>1, <1>2

LEMMA BindingMainStep ==
  ASSUME BindingInv, MainNext
  PROVE  BindingInv'
<1>1. CASE Open
  BY <1>1 DEF Open, Main, BindingInv, Inserted
<1>2. CASE MainNext /\ ~Open
  <2>1. step # "running" /\ UNCHANGED <<inserting, bound, resources>>
    BY <1>2 DEF MainNext, Check, EnsureSeed, FilterAddresses, FilterFails, SetRegistration,
                RegistrationFails, Build, OpenFails, ReadFails, Throws, Main, MainOnly
  <2>2. inserting = "new"
    BY <2>1 DEF BindingInv
  <2> QED
    BY <2>1, <2>2, BindingKept
<1> QED
  BY <1>1, <1>2

\* While streams are inserted, the settings rest: the interfaces stay.
LEMMA InterfacesRest ==
  ASSUME InsertionOnly
  PROVE  /\ UNCHANGED <<rtp_host_interface, node_host_interfaces, registry>>
         /\ LookupThrows' <=> LookupThrows
BY DEF InsertionOnly, vars, NodeInterfaces, rtp_host_interface, listed_interfaces,
       node_host_interfaces, LookupThrows

LEMMA BindingInsertStep ==
  ASSUME BindingInv, NEW sd \in Side, NEW id \in NmosIds, InsertStream(sd, id)
  PROVE  BindingInv'
<1> DEFINE longer ==
             [i \in DOMAIN resources[sd] \cup {id} |->
                IF i = id THEN Resource(sd, id) ELSE resources[sd][i]]
<1>1. /\ inserting = sd /\ inserting' = inserting /\ bound' = bound /\ step' = step
      /\ resources' = [resources EXCEPT ![sd] = longer]
      /\ id \notin DOMAIN resources[sd]
  BY DEF InsertStream, InsertionOnly, Left
<1>2. LookedUp /\ resources.interfaces = node_host_interfaces
  BY <1>1 DEF BindingInv, Side
<1>3. LookedUp' /\ UNCHANGED node_host_interfaces
  BY <1>1, <1>2, InterfacesRest DEF InsertStream, LookedUp
<1>4. /\ DOMAIN resources' = {"interfaces", "sender", "receiver"}
      /\ resources'.interfaces = resources.interfaces
  BY <1>1 DEF BindingInv, Side
<1>5. ASSUME NEW s \in Side, NEW i \in DOMAIN resources'[s]
      PROVE  /\ resources'[s][i].bindings = bound.names
             /\ resources'[s][i].constraint =
                  IF bound.addresses = << >> THEN Unset ELSE Head(bound.addresses)
  <2>1. CASE s = sd /\ i = id
    <3>1. resources'[sd] = longer
      BY <1>1 DEF BindingInv, Side
    <3>2. resources'[sd][id] = Resource(sd, id)
      BY <1>1, <3>1
    <3> QED
      BY <2>1, <3>2 DEF Resource
  <2>2. CASE s = sd /\ i # id
    <3>1. resources'[sd] = longer
      BY <1>1 DEF BindingInv, Side
    <3>2. i \in DOMAIN resources[sd] /\ resources'[sd][i] = resources[sd][i]
      BY <2>2, <3>1
    <3> QED
      BY <2>2, <3>2 DEF BindingInv, Inserted
  <2>3. CASE s # sd
    <3>1. resources'[s] = resources[s]
      BY <1>1, <2>3 DEF BindingInv, Side
    <3> QED
      BY <3>1 DEF BindingInv, Inserted
  <2> QED
    BY <2>1, <2>2, <2>3
<1>6. inserting' \in {"sender", "receiver"} /\ step' = "running"
  BY <1>1 DEF BindingInv, Side
<1>7. resources'.interfaces = node_host_interfaces'
  BY <1>2, <1>3, <1>4
<1>8. \A s \in Side :
        /\ inserting' \in {"new", "lookup", "node"} => Inserted(s)' = {}
        /\ \A i \in Inserted(s)' :
             /\ resources'[s][i].bindings = bound'.names
             /\ resources'[s][i].constraint =
                  IF bound'.addresses = << >> THEN Unset ELSE Head(bound'.addresses)
  <2> HIDE DEF longer
  <2> QED
    BY <1>1, <1>5, <1>6 DEF Inserted
<1> HIDE DEF longer
<1> QED
  BY <1>3, <1>4, <1>6, <1>7, <1>8 DEF BindingInv

LEMMA BindingInsertionStep ==
  ASSUME BindingInv, InsertionNext
  PROVE  BindingInv'
<1>1. CASE Lookup
  <2>1. /\ inserting = "lookup" /\ inserting' = "node" /\ ~LookupThrows
        /\ bound' = BoundTo(rtp_host_interface)
        /\ InsertionOnly /\ UNCHANGED resources
    BY <1>1 DEF Lookup, Insertion, BoundTo
  <2>2. LookedUp'
    BY <2>1, InterfacesRest DEF LookedUp
  <2> QED
    BY <2>1, <2>2 DEF BindingInv, Inserted, InsertionOnly
<1>2. CASE LookupFails
  BY <1>2 DEF LookupFails, Insertion, InsertionOnly, BindingInv, Inserted
<1>3. CASE InsertNode
  <2>1. /\ inserting = "node" /\ inserting' = "sender"
        /\ resources' = [resources EXCEPT !.interfaces = node_host_interfaces]
        /\ InsertionOnly /\ UNCHANGED bound
    BY <1>3 DEF InsertNode, Insertion
  <2>2. LookedUp' /\ UNCHANGED node_host_interfaces
    BY <2>1, InterfacesRest DEF LookedUp, BindingInv
  <2>3. /\ DOMAIN resources' = {"interfaces", "sender", "receiver"}
        /\ resources'.interfaces = node_host_interfaces
        /\ \A sd \in Side : DOMAIN resources'[sd] = {}
    BY <2>1 DEF BindingInv, Inserted, Side
  <2> QED
    BY <2>1, <2>2, <2>3 DEF BindingInv, Inserted, InsertionOnly
<1>4. ASSUME NEW sd \in Side, SideInserted(sd)
      PROVE  BindingInv'
  <2>1. /\ inserting = sd /\ inserting' \in {"receiver", "done"}
        /\ InsertionOnly /\ UNCHANGED <<bound, resources>>
    BY <1>4 DEF SideInserted, Insertion
  <2>2. UNCHANGED <<LookedUp, node_host_interfaces>>
    BY <2>1, InterfacesRest DEF LookedUp
  <2> QED
    BY <2>1, <2>2 DEF BindingInv, Inserted, Side, InsertionOnly
<1>5. ASSUME NEW id \in NmosIds, InsertStreamFails(id)
      PROVE  BindingInv'
  <2>1. /\ inserting = "sender" /\ inserting' = "failed"
        /\ InsertionOnly /\ UNCHANGED <<bound, resources>>
    BY <1>5 DEF InsertStreamFails, Insertion
  <2>2. UNCHANGED <<LookedUp, node_host_interfaces>>
    BY <2>1, InterfacesRest DEF LookedUp
  <2> QED
    BY <2>1, <2>2 DEF BindingInv, Inserted, InsertionOnly
<1> QED
  BY <1>1, <1>2, <1>3, <1>4, <1>5, BindingInsertStep DEF InsertionNext

(***************************************************************************)
(* For every set of host interfaces and every settings file, each sender   *)
(* and receiver inserted by insert_node_resources is bound to interfaces   *)
(* of its node, and constrained to an address of the one it is bound to.   *)
(***************************************************************************)
THEOREM BindingsOfStartupAreListed == StartupSpec => []BindingsAreNodeInterfaces
<1>1. BindingInv /\ [StartupNext]_svars => BindingInv'
  <2> SUFFICES ASSUME BindingInv, [StartupNext]_svars
               PROVE  BindingInv'
    OBVIOUS
  <2>1. CASE UNCHANGED svars
    BY <2>1, BindingKept DEF svars, startup
  <2> QED
    BY <2>1, BindingMainStep, BindingInsertionStep DEF StartupNext
<1> QED
  BY <1>1, BindingInit, BindingsListed, PTL DEF StartupSpec

-----------------------------------------------------------------------------
(***************************************************************************)
(* The comparison of masked words against the comparison bit by bit.  Bit  *)
(* b of a word, from the right, is bit Width - 1 - b of the text, from the *)
(* left.                                                                   *)
(***************************************************************************)
LEMMA Mirror ==
  ASSUME NEW b \in Bits
  PROVE  LET n == Width - 1 - b
         IN /\ 4 - (b \div OctetBits) = 1 + (n \div OctetBits)
            /\ b % OctetBits = OctetBits - 1 - (n % OctetBits)
<1> DEFINE n == Width - 1 - b
           q == b \div OctetBits
           r == b % OctetBits
<1>1. OctetBits \in Nat \ {0} /\ b \in Nat
  BY SettingsAssumption DEF Bits, Width
<1>2. q \in Nat /\ r \in 0..(OctetBits - 1) /\ b = OctetBits * q + r
  BY <1>1, DivisionWithRemainder
<1>3. n = OctetBits * (3 - q) + (OctetBits - 1 - r)
  BY <1>1, <1>2 DEF Width
<1>4. 3 - q \in Int /\ OctetBits - 1 - r \in 0..(OctetBits - 1)
  BY <1>1, <1>2
<1> HIDE DEF n, q, r
<1>5. n \div OctetBits = 3 - q /\ n % OctetBits = OctetBits - 1 - r
  BY <1>1, <1>3, <1>4, QuotientAndRemainder
<1> QED
  BY <1>1, <1>2, <1>5 DEF n, q, r

LEMMA BitOfWord ==
  ASSUME NEW text, NEW b \in Bits
  PROVE  b \in parse_ipv4_address(text) <=> Bit(text, Width - 1 - b)
BY Mirror DEF parse_ipv4_address, Bit

LEMMA MaskOfPrefix ==
  ASSUME NEW prefix \in 0..Width
  PROVE  Mask(prefix) = {b \in Bits : Width - prefix <= b}
<1>1. OctetBits \in Nat \ {0} /\ Width \in Nat
  BY SettingsAssumption DEF Width
<1>2. CASE prefix = 0
  BY <1>1, <1>2 DEF Mask, Bits
<1>3. CASE prefix # 0
  <2> DEFINE n == Width - prefix
  <2>1. Mask(prefix) = {b + n : b \in Bits} \cap Bits /\ n \in Nat
    BY <1>1, <1>3 DEF Mask, ShiftLeft
  <2>2. ASSUME NEW b \in Bits
        PROVE  n <= b <=> \E c \in Bits : b = c + n
    <3>1. n <= b => b - n \in Bits /\ b = (b - n) + n
      BY <1>1, <2>1 DEF Bits
    <3>2. ASSUME NEW c \in Bits, b = c + n
          PROVE  n <= b
      BY <1>1, <2>1, <3>2 DEF Bits
    <3> HIDE DEF n
    <3> QED
      BY <3>1, <3>2
  <2> HIDE DEF n
  <2>3. Mask(prefix) = {b \in Bits : n <= b}
    BY <2>1, <2>2
  <2> QED
    BY <2>3 DEF n
<1> QED
  BY <1>2, <1>3

(***************************************************************************)
(* matches_cidr, which masks 32-bit words, holds exactly of the addresses  *)
(* that agree with the CIDR in each bit of its prefix, whatever the prefix *)
(* (a shift by the width, for a prefix of 0, included).                    *)
(***************************************************************************)
THEOREM MaskingComparesPrefixes ==
  ASSUME NEW address, NEW cidr, IsCidr(cidr)
  PROVE  matches_cidr(address, cidr) <=> InCidr(address, cidr)
<1> DEFINE prefix == cidr.prefix
           a == parse_ipv4_address(address)
           c == parse_ipv4_address(cidr.address)
<1>1. prefix \in 0..Width /\ Width \in Nat
  BY SettingsAssumption DEF IsCidr, Width
<1>2. \A n \in 0..(prefix - 1) :
        Width - 1 - n \in Bits /\ Width - prefix <= Width - 1 - n
          /\ Width - 1 - (Width - 1 - n) = n
  BY <1>1 DEF Bits
<1>3. \A b \in Bits : Width - prefix <= b =>
        Width - 1 - b \in 0..(prefix - 1)
  BY <1>1 DEF Bits
<1>4. a \cap Mask(prefix) = c \cap Mask(prefix)
        <=> \A b \in Bits : Width - prefix <= b => (b \in a <=> b \in c)
  BY <1>1, MaskOfPrefix
<1> HIDE DEF prefix
<1>5. (\A b \in Bits : Width - prefix <= b => (b \in a <=> b \in c))
        <=> \A n \in 0..(prefix - 1) : Bit(address, n) = Bit(cidr.address, n)
  <2>1. \A b \in Bits : /\ b \in a <=> Bit(address, Width - 1 - b)
                        /\ b \in c <=> Bit(cidr.address, Width - 1 - b)
    BY BitOfWord
  <2>2. \A text, n : Bit(text, n) \in BOOLEAN
    BY DEF Bit
  <2> HIDE DEF a, c
  <2>3. ASSUME \A b \in Bits : Width - prefix <= b => (b \in a <=> b \in c),
               NEW n \in 0..(prefix - 1)
        PROVE  Bit(address, n) = Bit(cidr.address, n)
    <3> DEFINE b == Width - 1 - n
    <3>1. b \in Bits /\ Width - prefix <= b /\ Width - 1 - b = n
      BY <1>2
    <3> HIDE DEF b
    <3>2. (b \in a <=> Bit(address, n)) /\ (b \in c <=> Bit(cidr.address, n))
      BY <2>1, <3>1
    <3>3. Bit(address, n) <=> Bit(cidr.address, n)
      BY <2>3, <3>1, <3>2
    <3> QED
      BY <2>2, <3>3
  <2>4. ASSUME \A n \in 0..(prefix - 1) : Bit(address, n) = Bit(cidr.address, n),
               NEW b \in Bits, Width - prefix <= b
        PROVE  b \in a <=> b \in c
    BY <1>3, <2>1, <2>4
  <2> QED
    BY <2>3, <2>4
<1> QED
  BY <1>4, <1>5 DEF matches_cidr, InCidr, prefix

LEMMA FirstIsThere ==
  ASSUME NEW A \in SUBSET AllAddresses, A # {}
  PROVE  FirstOf(A) \in A
<1> DEFINE Has(i) == ToSet(HostInterfaces[i].addresses) \cap A # {}
           having == {i \in DOMAIN HostInterfaces : Has(i)}
           first == HostInterfaces[Min(having)].addresses
           positions == {j \in DOMAIN first : first[j] \in A}
<1>1. having \in SUBSET Nat
  BY InterfacesAssumption
<1>2. having # {}
  <2>1. PICK address \in A : address \in AllAddresses
    OBVIOUS
  <2>2. PICK i \in DOMAIN HostInterfaces : address \in ToSet(HostInterfaces[i].addresses)
    BY <2>1 DEF AllAddresses, ToSet
  <2> QED
    BY <2>2
<1>3. Min(having) \in having
  BY <1>1, <1>2, MinIsLeast
<1>4. Min(having) \in DOMAIN HostInterfaces /\ ToSet(first) \cap A # {}
  BY <1>3
<1> HIDE DEF having
<1>5. first \in Seq(ToSet(first))
  BY <1>4, InterfacesAssumption
<1> HIDE DEF first
<1>6. positions # {} /\ positions \in SUBSET Nat
  BY <1>4, <1>5 DEF ToSet
<1>7. Min(positions) \in positions
  BY <1>6, MinIsLeast
<1> QED
  BY <1>7 DEF FirstOf, first, having

\* Once main is past the allow-list, what it filtered stays.
Filtered ==
  LET matching == MatchingAddresses(options.cidrs)
  IN /\ \A i \in DOMAIN options.cidrs : IsCidr(options.cidrs[i])
     /\ matching # {}
     /\ settings.host_addresses = matching
     /\ settings.host_address = FirstOf(matching)

PastFilters == {"registration", "build", "open", "running"}

FilterInv == step \in PastFilters /\ options.cidrs # << >> => Filtered

LEMMA FilterKept ==
  ASSUME FilterInv, options' = options, step' \in PastFilters => step \in PastFilters,
         settings'.host_addresses = settings.host_addresses,
         settings'.host_address = settings.host_address
  PROVE  FilterInv'
BY DEF FilterInv, Filtered

LEMMA FilterStep == SettingsInv /\ FilterInv /\ [StartupNext]_svars => FilterInv'
<1> SUFFICES ASSUME SettingsInv, FilterInv, [StartupNext]_svars
             PROVE  FilterInv'
  OBVIOUS
<1>1. OptionsChecked /\ DOMAIN settings = NmosKeys
  BY DEF SettingsInv
<1>2. CASE FilterAddresses
  <2>1. /\ options' = options
        /\ ~FiltersThrow(options.cidrs)
        /\ settings' = apply_api_address_filters(settings, options.cidrs)
    BY <1>2 DEF FilterAddresses, MainOnly
  <2> SUFFICES ASSUME options.cidrs # << >> PROVE Filtered'
    BY <2>1 DEF FilterInv
  <2> DEFINE matching == MatchingAddresses(options.cidrs)
  <2>2. (\A i \in DOMAIN options.cidrs : IsCidr(options.cidrs[i])) /\ matching # {}
    BY <2>1 DEF FiltersThrow
  <2>3. settings' = [settings EXCEPT !.host_addresses = matching,
                                    !.host_address = FirstOf(matching)]
    BY <2>1 DEF apply_api_address_filters
  <2>4. settings'.host_addresses = matching /\ settings'.host_address = FirstOf(matching)
    BY <1>1, <2>3 DEF NmosKeys
  <2> QED
    BY <2>1, <2>2, <2>4 DEF Filtered
<1>3. CASE SetRegistration
  <2>1. /\ step = "registration" /\ options' = options
        /\ ~RegistrationThrows(options.registration)
        /\ settings' = apply_registration_settings(settings, options.registration)
    BY <1>3 DEF SetRegistration, Main, MainOnly
  <2>2. LET address == options.registration.address
        IN address # Unset => address.host # Unset \/ address.port # Unset
    BY <1>1 DEF OptionsChecked
  <2>3. /\ settings'.host_addresses = settings.host_addresses
        /\ settings'.host_address = settings.host_address
    BY <1>1, <2>1, <2>2, RegistrationApplied
  <2> QED
    BY <2>1, <2>3, FilterKept DEF PastFilters
<1>4. CASE Open \/ OpenFails
  <2>1. /\ step = "open" /\ step' \in {"running", "exit"} /\ options' = options
        /\ settings' = [settings EXCEPT !.host_addresses = Or(@, AllAddresses)]
    BY <1>4 DEF Open, OpenFails, insert_node_default_settings, Main, MainOnly
  <2>2. /\ settings'.host_addresses = Or(settings.host_addresses, AllAddresses)
        /\ settings'.host_address = settings.host_address
    BY <1>1, <2>1 DEF NmosKeys
  <2> SUFFICES ASSUME options.cidrs # << >> PROVE Filtered'
    BY <2>1 DEF FilterInv
  <2>3. Filtered
    BY <2>1 DEF FilterInv, PastFilters
  <2>4. settings.host_addresses # Unset
    BY <2>3, AddressesAssumption DEF Filtered, MatchingAddresses
  <2> QED
    BY <2>1, <2>2, <2>3, <2>4 DEF Filtered, Or
<1>5. CASE EnsureSeed
  <2>1. step = "seed" /\ step' = "filters"
    BY <1>5 DEF EnsureSeed, Main
  <2> QED
    BY <2>1 DEF FilterInv, PastFilters
<1>6. CASE Check \/ Build
  <2>1. UNCHANGED <<options, settings>>
    BY <1>6 DEF Check, Build
  <2>2. step' \in PastFilters => step \in PastFilters
    BY <1>6 DEF Check, Build, PastFilters
  <2> QED
    BY <2>1, <2>2, FilterKept
<1>7. CASE FilterFails \/ RegistrationFails \/ ReadFails \/ InsertionNext \/ UNCHANGED svars
  <2>1. UNCHANGED <<options, settings>> /\ (step' = step \/ step' = "exit")
    BY <1>7
    DEF FilterFails, RegistrationFails, ReadFails, Throws, Main, MainOnly, InsertionNext, Lookup,
        LookupFails, InsertNode, SideInserted, InsertStream, InsertStreamFails, InsertionOnly,
        svars, startup
  <2> QED
    BY <2>1, FilterKept DEF PastFilters
<1> QED
  BY <1>2, <1>3, <1>4, <1>5, <1>6, <1>7 DEF StartupNext, MainNext

(***************************************************************************)
(* With an allow-list, the Node API is advertised at exactly the host's    *)
(* addresses in one of its prefixes, and there is one                      *)
(* (apply_api_address_filters).                                            *)
(***************************************************************************)
THEOREM StartupAdvertisesWithinCidrs == StartupSpec => []AdvertisesWithinCidrs
<1>1. FilterInv => AdvertisesWithinCidrs
  <2> SUFFICES ASSUME FilterInv, step = "running", options.cidrs # << >>
               PROVE  /\ settings.host_addresses =
                           {a \in AllAddresses : \E c \in ToSet(options.cidrs) : InCidr(a, c)}
                      /\ settings.host_address \in settings.host_addresses
    BY DEF AdvertisesWithinCidrs
  <2> DEFINE matching == MatchingAddresses(options.cidrs)
  <2>1. /\ \A i \in DOMAIN options.cidrs : IsCidr(options.cidrs[i])
        /\ matching # {}
        /\ settings.host_addresses = matching
        /\ settings.host_address = FirstOf(matching)
    BY DEF FilterInv, PastFilters, Filtered
  <2>2. \A a : (\E i \in DOMAIN options.cidrs : matches_cidr(a, options.cidrs[i]))
               <=> \E c \in ToSet(options.cidrs) : InCidr(a, c)
    BY <2>1, MaskingComparesPrefixes DEF ToSet
  <2>3. matching = {a \in AllAddresses : \E c \in ToSet(options.cidrs) : InCidr(a, c)}
    BY <2>2 DEF MatchingAddresses
  <2>4. FirstOf(matching) \in matching
    BY <2>1, <2>3, FirstIsThere
  <2> QED
    BY <2>1, <2>3, <2>4
<1>2. StartupInit => FilterInv
  BY DEF StartupInit, FilterInv, PastFilters
<1> QED
  BY <1>1, <1>2, SettingsInit, SettingsStep, FilterStep, PTL DEF StartupSpec
=============================================================================
