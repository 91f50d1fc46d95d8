----------------------------- MODULE TunBuilder -----------------------------
(***************************************************************************)
(* From the options the server pushes to the interface of the tunnel.      *)
(*                                                                         *)
(* In every (re)connection the core runs a round: tun_builder_new, then a  *)
(* call per option, then tun_builder_establish.  ManagementHandler collects *)
(* the options in one VpnConnectionConfig for all rounds of a session;     *)
(* tun_builder_new leaves it alone, and PolarVpnService.getVpnBuilder,     *)
(* which turns it into an interface, resets it at the end.                 *)
(*                                                                         *)
(* The core (a git submodule) is modelled from how it uses these methods:  *)
(* it names the remote and the addresses before it reroutes, gives one     *)
(* address per family, and ends the session when a method returns false or *)
(* throws.  Every route that reaches the configuration is an included one, *)
(* so a set of routes stands for the NetworkSpace; routes that overlap,    *)
(* other than with the default route, are the subject of NetworkSpace.tla. *)
(* Two failures are caught and logged and leave a route out, with nothing  *)
(* said to the core: an IPv6 route that has no address (Unknown), and a    *)
(* route that the system's builder refuses (Given is "rejected").          *)
(***************************************************************************)
EXTENDS Integers, Sequences, FiniteSets

CONSTANTS
  LocalIPs,       \* the addresses a server may give, of either family
  DnsServers,
  Routes,         \* the routes it may push, of either family
  Unknown,        \* those whose host InetAddress does not find (IPv6)
  Given,          \* the route the system reads in the text of a route, of a
                  \* family; "rejected" when its builder throws
  Apps,           \* packages that may be named in the white list
  SDK_INT,        \* the Android of the device
  MaxRounds       \* bound on the rounds of a session

Families == {"ipv4", "ipv6"}
AnyRoute == Routes \cup {"default"}

KITKAT == 19
LOLLIPOP == 21

ASSUME RoutesAssumption ==
  /\ {"default", "rejected", "remote_host"} \cap Routes = {}
  /\ "null" \notin LocalIPs
  /\ Unknown \subseteq Routes
ASSUME GivenAssumption == Given \in [Families -> [AnyRoute -> AnyRoute \cup {"rejected"}]]
ASSUME DeviceAssumption == SDK_INT \in Nat
ASSUME RoundsAssumption == MaxRounds \in Nat

VARIABLES
  mCurrentConfig, \* the VpnConnectionConfig of the handler
  whitelistPackageNames, \* the field of the service, <<>> for null
  phase,          \* "idle", "building", "up", "over"
  tun,            \* the interface that was established last, NoTun before
  pushed,         \* history: the options of the round
  rounds          \* the rounds so far (bounded)

vars == <<mCurrentConfig, whitelistPackageNames, phase, tun, pushed, rounds>>

(* What can be said of an interface: mLocalIP and mLocalIPv6, mRoutes and  *)
(* mRoutesv6, mDnslist, mMTU.                                              *)
Nothing == [localIP |-> [f \in Families |-> "null"],
            routes  |-> [f \in Families |-> {}],
            dnslist |-> {},
            mtu     |-> 0]

NoTun == [config |-> Nothing, disallowed |-> {}, missed |-> {}]

(* Lists of at most two packages. *)
Whitelists ==
  {<<>>} \cup {<<a>> : a \in Apps} \cup {l \in Apps \X Apps : l[1] # l[2]}

Init ==
  /\ mCurrentConfig = Nothing
  /\ whitelistPackageNames \in Whitelists
  /\ phase = "idle"
  /\ tun = NoTun
  /\ pushed = Nothing
  /\ rounds = 0

-----------------------------------------------------------------------------
(* A round.                                                                *)

(* tun_builder_new returns true and does nothing more. *)
TunBuilderNew ==
  /\ phase \in {"idle", "up"}
  /\ rounds < MaxRounds
  /\ rounds' = rounds + 1
  /\ phase' = "building"
  /\ pushed' = Nothing
  /\ UNCHANGED <<mCurrentConfig, whitelistPackageNames, tun>>

(* A call that changes the configuration in a round. *)
Collect ==
  /\ phase = "building"
  /\ UNCHANGED <<whitelistPackageNames, phase, tun, rounds>>

(* tun_builder_set_remote_address: the MTU is set here, and a value that   *)
(* tun_builder_set_mtu is given is dropped.                                *)
SetRemoteAddress ==
  /\ Collect
  /\ mCurrentConfig' = [mCurrentConfig EXCEPT !.mtu = 1500]
  /\ pushed' = [pushed EXCEPT !.mtu = 1500]

(* tun_builder_add_address.  The core calls it once for a family, after    *)
(* it named the remote and before it reroutes.                             *)
AddAddress(family, address) ==
  /\ Collect
  /\ pushed.mtu # 0
  /\ pushed.localIP[family] = "null"
  /\ \A f \in Families : "default" \notin pushed.routes[f]
  /\ mCurrentConfig' = [mCurrentConfig EXCEPT !.localIP[family] = address]
  /\ pushed' = [pushed EXCEPT !.localIP[family] = address]

(* tun_builder_add_dns_server. *)
AddDns(dns) ==
  /\ Collect
  /\ mCurrentConfig' = [mCurrentConfig EXCEPT !.dnslist = @ \cup {dns}]
  /\ pushed' = [pushed EXCEPT !.dnslist = @ \cup {dns}]

WithRoute(config, family, route) ==
  [config EXCEPT !.routes[family] = @ \cup {route}]

(* addRoutev6 catches the UnknownHostException of a route it cannot read. *)
Readable(family) == IF family = "ipv6" THEN Routes \ Unknown ELSE Routes

(* tun_builder_add_route: true whether or not the route was kept. *)
AddRoute(family, route) ==
  /\ Collect
  /\ mCurrentConfig' = IF route \in Readable(family)
                       THEN WithRoute(mCurrentConfig, family, route)
                       ELSE mCurrentConfig
  /\ pushed' = WithRoute(pushed, family, route)

(* VpnConnectionConfig.addRoute by mask drops the route when there is no   *)
(* local address, addRoutev6 does not.                                     *)
Rerouted(config, families) ==
  [config EXCEPT !.routes =
     [f \in Families |->
        IF f \in families /\ (f = "ipv4" => config.localIP["ipv4"] # "null")
        THEN config.routes[f] \cup {"default"} ELSE config.routes[f]]]

(* tun_builder_reroute_gw. *)
RerouteGw(families) ==
  /\ Collect
  /\ mCurrentConfig' = Rerouted(mCurrentConfig, families)
  /\ pushed' = [pushed EXCEPT !.routes =
                  [f \in Families |->
                     IF f \in families THEN @[f] \cup {"default"} ELSE @[f]]]

(* tun_builder_add_route returns false for the address remote_host, and    *)
(* what is no number or no IPv6 address makes a method throw, which nothing *)
(* here catches: the session is over.                                      *)
Abort ==
  /\ phase = "building"
  /\ phase' = "over"
  /\ UNCHANGED <<mCurrentConfig, whitelistPackageNames, tun, pushed, rounds>>

-----------------------------------------------------------------------------
(* tun_builder_establish, onOpenTun and getVpnBuilder.                     *)

(* A mutant: the IPv6 address stays. *)
ResetForgetsV6(config) ==
  [Nothing EXCEPT !.mtu = config.mtu, !.localIP["ipv6"] = config.localIP["ipv6"]]

(* VpnConnectionConfig.reset: everything but the MTU. *)
Reset(config) == [Nothing EXCEPT !.mtu = config.mtu]

(* The packages of the white list up to the first that is not installed,   *)
(* for which addDisallowedApplication throws; none before Lollipop.        *)
Disallowed(list, installed) ==
  {list[i] : i \in {j \in DOMAIN list :
                     /\ SDK_INT >= LOLLIPOP
                     /\ \A k \in 1..j : list[k] \in installed}}

(* positiveIPList: what lies inside the default route is left out, except  *)
(* before KitKat.                                                          *)
Positive(routes) ==
  IF "default" \in routes /\ SDK_INT >= KITKAT THEN {"default"} ELSE routes

(* The routes the system's builder ends up with: the loops of getVpnBuilder *)
(* catch the exception of a route it refuses and go on to the next.        *)
Accepted(family, routes) == {Given[family][r] : r \in routes} \ {"rejected"}

(* What getVpnBuilder makes of a configuration. *)
Interface(config) ==
  [config EXCEPT !.routes = [f \in Families |-> Accepted(f, Positive(@[f]))]]

HasAddress(config) == \E f \in Families : config.localIP[f] # "null"

(* getVpnBuilder returns null without an address, setMtu throws on 0. *)
Buildable(config) == HasAddress(config) /\ config.mtu > 0

(* The system gives the interface. *)
Establish ==
  /\ phase = "building"
  /\ Buildable(mCurrentConfig)
  /\ \E installed \in SUBSET Apps :
       tun' = [config     |-> Interface(mCurrentConfig),
               disallowed |-> Disallowed(whitelistPackageNames, installed),
               missed     |-> {a \in installed : \E i \in DOMAIN whitelistPackageNames :
                                                   whitelistPackageNames[i] = a}
                                \ Disallowed(whitelistPackageNames, installed)]
  /\ mCurrentConfig' = Reset(mCurrentConfig)
  /\ phase' = "up"
  /\ UNCHANGED <<whitelistPackageNames, pushed, rounds>>

(* There is nothing to build, or establish returns null because another    *)
(* application has the VPN: either way an exception reaches the core,      *)
(* which gives up.                                                         *)
EstablishFails ==
  /\ phase = "building"
  /\ mCurrentConfig' = IF Buildable(mCurrentConfig) THEN Reset(mCurrentConfig)
                       ELSE mCurrentConfig
  /\ phase' = "over"
  /\ UNCHANGED <<whitelistPackageNames, tun, pushed, rounds>>

(* prepareConnection, for a later request, assigns the field of the        *)
(* service that the rounds of this session read.                           *)
PrepareConnection ==
  /\ phase # "over"
  /\ whitelistPackageNames' \in Whitelists \ {whitelistPackageNames}
  /\ UNCHANGED <<mCurrentConfig, phase, tun, pushed, rounds>>

Next ==
  \/ TunBuilderNew \/ SetRemoteAddress
  \/ \E f \in Families, a \in LocalIPs : AddAddress(f, a)
  \/ \E d \in DnsServers : AddDns(d)
  \/ \E f \in Families, r \in Routes : AddRoute(f, r)
  \/ \E fs \in SUBSET Families : RerouteGw(fs)
  \/ Abort \/ Establish \/ EstablishFails \/ PrepareConnection

Spec == Init /\ [][Next]_vars

-----------------------------------------------------------------------------
(* Properties.                                                             *)

Configs ==
  [localIP : [Families -> LocalIPs \cup {"null"}],
   routes  : [Families -> SUBSET AnyRoute],
   dnslist : SUBSET DnsServers,
   mtu     : {0, 1500}]

(* Every variable has its type, and a configuration with an address has an *)
(* MTU.                                                                    *)
TypeOK ==
  /\ mCurrentConfig \in Configs
  /\ whitelistPackageNames \in Whitelists
  /\ phase \in {"idle", "building", "up", "over"}
  /\ tun \in [config : Configs, disallowed : SUBSET Apps, missed : SUBSET Apps]
  /\ pushed \in Configs
  /\ rounds \in 0..MaxRounds
  /\ HasAddress(mCurrentConfig) => mCurrentConfig.mtu # 0

(* What the options of a round come to, whatever their order: all of them, *)
(* but for the IPv6 routes without an address, and for the default route   *)
(* for IPv4 when there is no IPv4 address.                                 *)
Wanted(options) ==
  [options EXCEPT !.routes =
     [f \in Families |->
        IF f = "ipv6" THEN @[f] \ Unknown
        ELSE IF options.localIP["ipv4"] = "null" THEN @[f] \ {"default"}
        ELSE @[f]]]

(* The interface is the one of its own round: what an earlier round of the *)
(* session collected does not come back in a later one, although the core's *)
(* tun_builder_new leaves the configuration alone (ManagementHandler       *)
(* 177-180, PolarVpnService 601), and nothing of its round is missing but  *)
(* the routes that cannot be read and those the system refuses, each of    *)
(* which leaves the others in place (VpnConnectionConfig 111-113,          *)
(* PolarVpnService 584-598).                                               *)
InterfaceIsRound == phase = "up" => tun.config = Interface(Wanted(pushed))

(* "If we have the ability to exclude traffic on a per-app basis, exclude  *)
(* on our own from being tunneled, as well as the whitelisted app names    *)
(* provided by the client" (PolarVpnService 614-616): every package of the *)
(* white list that is installed stays out of the tunnel.                   *)
WhitelistHonoured == SDK_INT >= LOLLIPOP => tun.missed = {}
=============================================================================
