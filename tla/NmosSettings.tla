---------------------------- MODULE NmosSettings ----------------------------
(***************************************************************************)
(* What the bridge does to the nmos-cpp settings, as functions: the CIDR   *)
(* allow-list for API addresses, the registration modes, and the choice of *)
(* the interface for RTP.  A 32-bit word is the set of its one bits, of a  *)
(* width scaled down by OctetBits.                                         *)
(***************************************************************************)
EXTENDS Integers, Sequences, SequencesExt

CONSTANTS
  OctetBits,        \* bits of an octet (8 in the code)
  MaxPort,          \* 65535 in the code
  NoDiscovery,      \* INT_MAX, the priority that disables discovery
  HostInterfaces,   \* host_interfaces(): a sequence of [name, addresses]
  NotANumber,       \* the text of a prefix or port that stoi rejects
  Unset             \* an absent key, an empty string, a port of 0

ASSUME SettingsAssumption == OctetBits \in Nat \ {0} /\ MaxPort \in Nat

\* The host lists an interface once, with all its addresses.
ASSUME InterfacesAssumption ==
  /\ HostInterfaces \in Seq(ToSet(HostInterfaces))
  /\ \A i \in DOMAIN HostInterfaces :
       /\ HostInterfaces[i].addresses \in Seq(ToSet(HostInterfaces[i].addresses))
       /\ HostInterfaces[i].name # Unset
       /\ \A j \in DOMAIN HostInterfaces :
            HostInterfaces[j].name = HostInterfaces[i].name => j = i

-----------------------------------------------------------------------------
\* IPv4 addresses and CIDRs.  A dotted text is the sequence of its numbers.

Width == 4 * OctetBits
Bits == 0..(Width - 1)

IsIpv4(text) == Len(text) = 4 /\ \A k \in 1..4 : text[k] \in 0..(2^OctetBits - 1)

\* result = (result << 8) | octet, from the left.
parse_ipv4_address(text) ==
  {b \in Bits : (text[4 - (b \div OctetBits)] \div 2^(b % OctetBits)) % 2 = 1}

ShiftLeft(word, n) == {b + n : b \in word} \cap Bits

\* A cidr is [address, prefix].
IsCidr(cidr) ==
  /\ cidr.prefix # NotANumber
  /\ cidr.prefix \in 0..Width
  /\ IsIpv4(cidr.address)

\* Variant for validation: a shift by the width of the word, which the
\* processor takes modulo the width.
MaskByShift(prefix) == ShiftLeft(Bits, (Width - prefix) % Width)

Mask(prefix) == IF prefix = 0 THEN {} ELSE ShiftLeft(Bits, Width - prefix)

matches_cidr(address, cidr) ==
  /\ IsIpv4(address)
  /\ parse_ipv4_address(address) \cap Mask(cidr.prefix)
       = parse_ipv4_address(cidr.address) \cap Mask(cidr.prefix)

AllAddresses == UNION {ToSet(i.addresses) : i \in ToSet(HostInterfaces)}

\* A set of addresses is not an absent key.
ASSUME AddressesAssumption == \A addresses \in SUBSET AllAddresses : addresses # Unset

MatchingAddresses(cidrs) ==
  {address \in AllAddresses : \E i \in DOMAIN cidrs : matches_cidr(address, cidrs[i])}

\* The first of them, interface by interface.
FirstOf(addresses) ==
  LET Has(i) == ToSet(HostInterfaces[i].addresses) \cap addresses # {}
      first == HostInterfaces[Min({i \in DOMAIN HostInterfaces : Has(i)})].addresses
  IN first[Min({j \in DOMAIN first : first[j] \in addresses})]

\* An unreadable CIDR, or no local address matches.
FiltersThrow(cidrs) ==
  /\ cidrs # <<>>
  /\ (\A i \in DOMAIN cidrs : IsCidr(cidrs[i])) => MatchingAddresses(cidrs) = {}

apply_api_address_filters(settings, cidrs) ==
  IF cidrs = <<>> THEN settings
  ELSE [settings EXCEPT !.host_addresses = MatchingAddresses(cidrs),
                        !.host_address = FirstOf(MatchingAddresses(cidrs))]

-----------------------------------------------------------------------------
\* The nmos-cpp settings that the bridge reads or writes.
NmosKeys ==
  {"seed_id", "host_addresses", "host_address", "registry_address", "registration_port",
   "registry_version", "dns_sd_browse_mode", "domain", "highest_pri"}

\* Registration.  An address is [host, port]; port is Unset without a colon.

IsHostPort(address) ==
  address.port # Unset =>
    address.host # Unset /\ address.port # NotANumber /\ address.port \in 1..MaxPort

Browsing == {"dns-sd", "mdns", "bonjour"}
Registryless == {"registryless", "peer-to-peer"}

RegistrationThrows(reg) ==
  \/ reg.mode \notin {Unset, "static"} \cup Browsing \cup Registryless
  \/ reg.mode = "static" /\ ~(reg.address # Unset /\ IsHostPort(reg.address))

disable_registry_discovery(settings) == [settings EXCEPT !.highest_pri = NoDiscovery]

Or(value, fallback) == IF value = Unset THEN fallback ELSE value

StaticRegistry(settings, reg) ==
  LET port == IF reg.port # Unset /\ reg.port > 0 THEN reg.port ELSE reg.address.port
  IN [settings EXCEPT !.registry_address = reg.address.host,
                      !.registration_port = Or(port, @),
                      !.registry_version = Or(reg.version, @)]

\* Variant for validation: a static registry does not end discovery.
ApplyStaticWithDiscovery(settings, reg) ==
  CASE reg.mode = "static" -> StaticRegistry(settings, reg)
    [] reg.mode = "dns-sd" ->
         [settings EXCEPT !.dns_sd_browse_mode = 1, !.domain = Or(reg.domain, @)]
    [] reg.mode \in {"mdns", "bonjour"} ->
         [settings EXCEPT !.dns_sd_browse_mode = 2, !.domain = "local."]
    [] reg.mode \in Registryless -> disable_registry_discovery(settings)
    [] OTHER -> settings

apply_registration_settings(settings, reg) ==
  CASE reg.mode = "static" -> disable_registry_discovery(StaticRegistry(settings, reg))
    [] reg.mode = "dns-sd" ->
         [settings EXCEPT !.dns_sd_browse_mode = 1, !.domain = Or(reg.domain, @)]
    [] reg.mode \in {"mdns", "bonjour"} ->
         [settings EXCEPT !.dns_sd_browse_mode = 2, !.domain = "local."]
    [] reg.mode \in Registryless -> disable_registry_discovery(settings)
    [] OTHER -> settings
=============================================================================
