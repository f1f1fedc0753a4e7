----------------------------- MODULE MCStartup -----------------------------
(***************************************************************************)
(* Settings files for Startup, in three families: every small set of       *)
(* streams with plain settings; every allow-list and interface; every      *)
(* registration mode, with and without nmos-cpp's own registry settings.   *)
(***************************************************************************)
EXTENDS Startup

\* Both ends of the range of daemon ids and their neighbours outside.
MCDaemonIds == {-1, 0, 63, 64}

Iface(name, addresses) == [name |-> name, addresses |-> addresses]

\* Two octets of the control network, two of the media network, a link-local
\* address that is not IPv4, and a bridge without addresses.
MCHostInterfaces ==
  <<Iface("lo", << <<3, 3, 0, 1>> >>),
    Iface("eth0", << <<"fe80">>, <<1, 0, 2, 1>>, <<1, 1, 0, 0>> >>),
    Iface("eth1", << <<2, 0, 0, 3>> >>),
    Iface("br0", <<>>)>>

L24 == <<NotANumber, 2, 4>>
Analog == <<NotANumber, NotANumber>>
Overlong == <<NotANumber, 2, 4, 0, 0>>

Nmos(seed, address) ==
  [seed_id |-> seed, host_addresses |-> Unset, host_address |-> Unset,
   registry_address |-> address, registration_port |-> Unset,
   registry_version |-> Unset, dns_sd_browse_mode |-> Unset, domain |-> Unset,
   highest_pri |-> Unset]

NoRegistration ==
  [mode |-> Unset, address |-> Unset, port |-> Unset, version |-> Unset, domain |-> Unset]

Options(interface, cidrs, registration, codec, nmos) ==
  [interface |-> interface, cidrs |-> cidrs, registration |-> registration,
   codec |-> [id \in NmosIds |-> codec], nmos |-> nmos]

Plain == Options(Unset, <<>>, NoRegistration, L24, Nmos(Unset, Unset))

OneEach ==
  [named |-> TRUE, interval |-> 1,
   sender |-> <<[daemon_id |-> 0, nmos_id |-> "n1", mapped |-> TRUE],
                [daemon_id |-> 63, nmos_id |-> "n2", mapped |-> TRUE]>>,
   receiver |-> <<[daemon_id |-> 0, nmos_id |-> "n1", mapped |-> TRUE]>>]

StreamInputs == [config : Config, options : {Plain}]

Octet == 0..(2^OctetBits - 1)
Texts == [1..4 -> Octet] \cup {<<1, 0, 2>>, <<1, 0, 2, 2^OctetBits>>}
Cidrs == [address : Texts, prefix : (-1)..(Width + 1) \cup {NotANumber}]
MediaCidr == [address |-> <<2, 0, 0, 0>>, prefix |-> 4]
ControlCidr == [address |-> <<1, 0, 3, 3>>, prefix |-> 5]

FilterInputs ==
  [config : {OneEach},
   options : {Options(Unset, <<c>>, NoRegistration, L24, Nmos(Unset, Unset)) : c \in Cidrs}]

InterfaceInputs ==
  [config : {OneEach},
   options : {Options(i, cs, NoRegistration, codec, Nmos(Unset, Unset)) :
                i \in {Unset, "lo", "eth0", "eth1", "br0", "eth9"},
                cs \in {<<>>, <<MediaCidr>>, <<ControlCidr>>, <<ControlCidr, MediaCidr>>},
                codec \in {L24, Analog, Overlong}}]

\* A text before or after a colon may be empty, an empty address is Unset.
Addresses ==
  [host : {Unset, "registry"}, port : {Unset, NotANumber} \cup (-1)..(MaxPort + 1)]
    \ {[host |-> Unset, port |-> Unset]}

Registrations ==
  [mode : {Unset, "static", "dns-sd", "mdns", "bonjour", "registryless", "peer-to-peer",
           "multicast"},
   address : {Unset} \cup Addresses,
   port : {Unset, -1, 1, MaxPort + 1}, version : {Unset, "v1.2"}, domain : {Unset, "media"}]

RegistrationInputs ==
  [config : {OneEach},
   options : {Options(Unset, <<>>, r, L24, [Nmos(s, a) EXCEPT !.highest_pri = priority]) :
                r \in Registrations, s \in {Unset, "given"}, a \in {Unset, "other"},
                priority \in {Unset, NoDiscovery}}]

MCInputs == StreamInputs \cup FilterInputs \cup InterfaceInputs \cup RegistrationInputs

\* One settings file for each thing that can go wrong, and the plain one.
ErrorInputs == InterfaceInputs
=============================================================================
