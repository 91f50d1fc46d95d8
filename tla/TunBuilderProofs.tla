-------------------------- MODULE TunBuilderProofs --------------------------
(***************************************************************************)
(* The interface of a round has what was pushed in that round and can be   *)
(* routed, for all sets of addresses, servers, routes and packages, and    *)
(* whatever the system refuses or reads as something else.                 *)
(***************************************************************************)
EXTENDS TunBuilder, TLAPS

(* What the configuration is, given what the round pushed.  Between rounds *)
(* it is empty but for the MTU, which the next round sets before anything  *)
(* that an interface can be built from.                                    *)
Mirror ==
  phase = "building" =>
    /\ mCurrentConfig.localIP = pushed.localIP
    /\ mCurrentConfig.routes = Wanted(pushed).routes
    /\ mCurrentConfig.dnslist = pushed.dnslist
    /\ pushed.mtu # 0 => mCurrentConfig.mtu = 1500
    /\ HasAddress(pushed) => pushed.mtu = 1500

Between == phase \in {"idle", "up"} => mCurrentConfig = Reset(mCurrentConfig)

IInv == TypeOK /\ Mirror /\ Between /\ InterfaceIsRound

LEMMA NothingTyped == Nothing \in Configs
  BY DEF Nothing, Configs, Families

(* reset() gives a configuration that has nothing but its MTU. *)
LEMMA ResetEmpties ==
  ASSUME NEW config \in Configs
  PROVE  /\ Reset(config) \in Configs
         /\ Reset(config) = Reset(Reset(config))
         /\ Reset(config).localIP = Nothing.localIP
         /\ Reset(config).routes = Nothing.routes
         /\ Reset(config).dnslist = Nothing.dnslist
         /\ Reset(config).mtu = config.mtu
         /\ ~HasAddress(Reset(config))
  BY DEF Reset, Nothing, Configs, Families, HasAddress

(* Two configurations are the same when their fields are. *)
LEMMA SameConfig ==
  ASSUME NEW a \in Configs, NEW b \in Configs,
         a.localIP = b.localIP, a.routes = b.routes, a.dnslist = b.dnslist,
         a.mtu = b.mtu
  PROVE  a = b
  BY DEF Configs

LEMMA InitIInv == Init => IInv
<1> SUFFICES ASSUME Init PROVE IInv
  OBVIOUS
<1>1. TypeOK
  BY NothingTyped, RoundsAssumption DEF Init, TypeOK, NoTun, Nothing, HasAddress, Families
<1>2. Mirror /\ InterfaceIsRound
  BY DEF Init, Mirror, InterfaceIsRound
<1>3. Between
  BY NothingTyped, SameConfig, ResetEmpties DEF Init, Between
<1> QED BY <1>1, <1>2, <1>3 DEF IInv
(* The default route for IPv4 is there exactly when it was pushed and the  *)
(* tunnel has an IPv4 address.                                             *)
LEMMA WantedFields ==
  ASSUME NEW o \in Configs
  PROVE  /\ Wanted(o) \in Configs
         /\ Wanted(o).localIP = o.localIP
         /\ Wanted(o).dnslist = o.dnslist
         /\ Wanted(o).mtu = o.mtu
         /\ Wanted(o).routes["ipv6"] = o.routes["ipv6"] \ Unknown
         /\ Wanted(o).routes["ipv4"] = IF o.localIP["ipv4"] = "null"
                                       THEN o.routes["ipv4"] \ {"default"}
                                       ELSE o.routes["ipv4"]
  BY DEF Wanted, Configs, Families, AnyRoute

(* What is built of a configuration is a configuration. *)
LEMMA InterfaceTyped ==
  ASSUME NEW config \in Configs
  PROVE  Interface(config) \in Configs
<1>1. ASSUME NEW f \in Families, NEW routes \in SUBSET AnyRoute
      PROVE  Accepted(f, Positive(routes)) \in SUBSET AnyRoute
  <2>1. Positive(routes) \in SUBSET AnyRoute
    BY DEF Positive, AnyRoute
  <2>2. \A r \in Positive(routes) : Given[f][r] \in AnyRoute \cup {"rejected"}
    BY <2>1, GivenAssumption
  <2> QED BY <2>2 DEF Accepted
<1>2. \A f \in Families : config.routes[f] \in SUBSET AnyRoute
  BY DEF Configs
<1>3. [f \in Families |-> Accepted(f, Positive(config.routes[f]))]
        \in [Families -> SUBSET AnyRoute]
  BY <1>1, <1>2
<1> QED BY <1>3 DEF Interface, Configs

(* The routes of two configurations are the same when those of each family *)
(* are.                                                                    *)
LEMMA SameRoutes ==
  ASSUME NEW a \in Configs, NEW b \in Configs,
         a.routes["ipv4"] = b.routes["ipv4"], a.routes["ipv6"] = b.routes["ipv6"]
  PROVE  a.routes = b.routes
  BY DEF Configs, Families

(* One more route for a family. *)
LEMMA WithRouteFields ==
  ASSUME NEW o \in Configs, NEW f \in Families, NEW r \in Routes
  PROVE  /\ WithRoute(o, f, r) \in Configs
         /\ WithRoute(o, f, r).localIP = o.localIP
         /\ WithRoute(o, f, r).dnslist = o.dnslist
         /\ WithRoute(o, f, r).mtu = o.mtu
         /\ \A g \in Families :
              WithRoute(o, f, r).routes[g] = o.routes[g] \cup (IF g = f THEN {r} ELSE {})
  BY DEF WithRoute, Configs, Families, AnyRoute

(* A route that is pushed and can be read is a route that is wanted. *)
LEMMA RouteWanted ==
  ASSUME NEW o \in Configs, NEW c \in Configs, NEW f \in Families, NEW r \in Routes,
         c.routes = Wanted(o).routes
  PROVE  (IF r \in Readable(f) THEN WithRoute(c, f, r) ELSE c).routes
           = Wanted(WithRoute(o, f, r)).routes
<1> DEFINE p == WithRoute(o, f, r)
           d == IF r \in Readable(f) THEN WithRoute(c, f, r) ELSE c
<1>0. /\ r \notin Readable(f) <=> f = "ipv6" /\ r \in Unknown
      /\ \A g \in Families :
           d.routes[g] = c.routes[g] \cup (IF g = f /\ r \in Readable(f) THEN {r} ELSE {})
  BY WithRouteFields DEF Readable
<1>1. /\ p \in Configs /\ d \in Configs /\ p.localIP = o.localIP
      /\ Wanted(p) \in Configs
  <2>1. p \in Configs /\ p.localIP = o.localIP
    BY WithRouteFields
  <2>2. d \in Configs
    BY WithRouteFields
  <2>3. Wanted(p) \in Configs
    BY <2>1, WantedFields
  <2> QED BY <2>1, <2>2, <2>3
<1>2. d.routes["ipv6"] = Wanted(p).routes["ipv6"]
  <2>1. d.routes["ipv6"] =
          c.routes["ipv6"] \cup (IF "ipv6" = f /\ r \in Readable(f) THEN {r} ELSE {})
    BY <1>0 DEF Families
  <2>2. p.routes["ipv6"] = o.routes["ipv6"] \cup (IF "ipv6" = f THEN {r} ELSE {})
    BY WithRouteFields DEF Families
  <2>3. /\ Wanted(p).routes["ipv6"] = p.routes["ipv6"] \ Unknown
        /\ Wanted(o).routes["ipv6"] = o.routes["ipv6"] \ Unknown
    BY <1>1, WantedFields
  <2> QED BY <1>0, <2>1, <2>2, <2>3
<1>3. d.routes["ipv4"] = Wanted(p).routes["ipv4"]
  <2>1. d.routes["ipv4"] = c.routes["ipv4"] \cup (IF "ipv4" = f THEN {r} ELSE {})
    BY <1>0 DEF Families
  <2>2. p.routes["ipv4"] = o.routes["ipv4"] \cup (IF "ipv4" = f THEN {r} ELSE {})
    BY WithRouteFields DEF Families
  <2>3. CASE o.localIP["ipv4"] = "null"
    <3>1. /\ Wanted(p).routes["ipv4"] = p.routes["ipv4"] \ {"default"}
          /\ Wanted(o).routes["ipv4"] = o.routes["ipv4"] \ {"default"}
      BY <1>1, <2>3, WantedFields
    <3>2. r # "default"
      BY RoutesAssumption
    <3> QED BY <2>1, <2>2, <3>1, <3>2
  <2>4. CASE o.localIP["ipv4"] # "null"
    <3>1. /\ Wanted(p).routes["ipv4"] = p.routes["ipv4"]
          /\ Wanted(o).routes["ipv4"] = o.routes["ipv4"]
      BY <1>1, <2>4, WantedFields
    <3> QED BY <2>1, <2>2, <3>1
  <2> QED BY <2>3, <2>4
<1> QED BY <1>1, <1>2, <1>3, SameRoutes

LEMMA NextIInv == IInv /\ [Next]_vars => IInv'
<1> SUFFICES ASSUME IInv, [Next]_vars PROVE IInv'
  OBVIOUS
<1> USE DEF IInv
<1>1. CASE TunBuilderNew
  <2>1. TypeOK'
    BY <1>1, NothingTyped, RoundsAssumption DEF TypeOK, TunBuilderNew, HasAddress
  <2>2. mCurrentConfig = Reset(mCurrentConfig)
    BY <1>1 DEF TunBuilderNew, Between
  <2>3. /\ mCurrentConfig.localIP = Nothing.localIP
        /\ mCurrentConfig.routes = Nothing.routes
        /\ mCurrentConfig.dnslist = Nothing.dnslist
    BY <2>2, ResetEmpties DEF TypeOK
  <2>4. Wanted(pushed').routes = Nothing.routes
    <3>1. /\ pushed' = Nothing
          /\ \A f \in Families : Nothing.routes[f] = {}
      BY <1>1 DEF TunBuilderNew, Nothing
    <3>2. Wanted(Nothing) \in Configs
      BY NothingTyped, WantedFields
    <3> QED BY <3>1, <3>2, NothingTyped, WantedFields, SameRoutes DEF Families
  <2>5. Mirror'
    BY <1>1, <2>3, <2>4 DEF TunBuilderNew, Mirror, HasAddress, Nothing, Families
  <2> QED BY <1>1, <2>1, <2>5 DEF TunBuilderNew, Between, InterfaceIsRound
<1>2. CASE SetRemoteAddress
  <2>1. TypeOK'
    BY <1>2 DEF TypeOK, SetRemoteAddress, Collect, Configs, HasAddress
  <2>2. Wanted(pushed').routes = Wanted(pushed).routes
    BY <1>2 DEF SetRemoteAddress, Wanted, TypeOK, Configs, Families
  <2>3. Mirror'
    BY <1>2, <2>2 DEF SetRemoteAddress, Collect, Mirror, HasAddress, TypeOK, Configs
  <2> QED BY <1>2, <2>1, <2>3 DEF SetRemoteAddress, Collect, Between, InterfaceIsRound
<1>3. ASSUME NEW f \in Families, NEW a \in LocalIPs, AddAddress(f, a)
      PROVE IInv'
  <2>1. TypeOK'
    BY <1>3 DEF TypeOK, Mirror, AddAddress, Collect, Configs, HasAddress
  <2>2. Wanted(pushed').routes = Wanted(pushed).routes
    <3>1. pushed \in Configs /\ pushed' \in Configs
      BY <2>1 DEF TypeOK
    <3>2. /\ pushed'.routes = pushed.routes
          /\ pushed.routes["ipv4"] \ {"default"} = pushed.routes["ipv4"]
      BY <1>3, <3>1 DEF AddAddress, Configs, Families
    <3> QED BY <3>1, <3>2, WantedFields, SameRoutes
  <2>3. Mirror'
    BY <1>3, <2>2 DEF AddAddress, Collect, Mirror, HasAddress, TypeOK, Configs
  <2> QED BY <1>3, <2>1, <2>3 DEF AddAddress, Collect, Between, InterfaceIsRound
<1>4. ASSUME NEW d \in DnsServers, AddDns(d)
      PROVE IInv'
  <2>1. TypeOK'
    BY <1>4 DEF TypeOK, AddDns, Collect, Configs, HasAddress
  <2>2. Wanted(pushed').routes = Wanted(pushed).routes
    BY <1>4 DEF AddDns, Wanted, TypeOK, Configs, Families
  <2>3. Mirror'
    BY <1>4, <2>2 DEF AddDns, Collect, Mirror, HasAddress, TypeOK, Configs
  <2> QED BY <1>4, <2>1, <2>3 DEF AddDns, Collect, Between, InterfaceIsRound
<1>5. ASSUME NEW f \in Families, NEW r \in Routes, AddRoute(f, r)
      PROVE IInv'
  <2>1. TypeOK'
    <3>1. /\ mCurrentConfig' \in Configs /\ pushed' \in Configs
          /\ mCurrentConfig'.localIP = mCurrentConfig.localIP
          /\ mCurrentConfig'.mtu = mCurrentConfig.mtu
      BY <1>5, WithRouteFields DEF TypeOK, AddRoute
    <3> QED BY <1>5, <3>1 DEF TypeOK, AddRoute, Collect, HasAddress
  <2>2. /\ pushed \in Configs /\ pushed' \in Configs
        /\ mCurrentConfig.routes = Wanted(pushed).routes
    BY <1>5, <2>1 DEF TypeOK, AddRoute, Collect, Mirror
  <2>3. Wanted(pushed').routes = mCurrentConfig'.routes
    BY <1>5, <2>2, RouteWanted DEF AddRoute, TypeOK
  <2>4. Mirror'
    <3>1. /\ mCurrentConfig'.localIP = mCurrentConfig.localIP
          /\ mCurrentConfig'.dnslist = mCurrentConfig.dnslist
          /\ mCurrentConfig'.mtu = mCurrentConfig.mtu
          /\ pushed'.localIP = pushed.localIP
          /\ pushed'.dnslist = pushed.dnslist
          /\ pushed'.mtu = pushed.mtu
      BY <1>5, <2>2, WithRouteFields DEF AddRoute, TypeOK
    <3> QED BY <1>5, <2>3, <3>1 DEF AddRoute, Collect, Mirror, HasAddress
  <2> QED BY <1>5, <2>1, <2>4 DEF AddRoute, Collect, Between, InterfaceIsRound
<1>6. ASSUME NEW fs \in SUBSET Families, RerouteGw(fs)
      PROVE IInv'
  <2>1. TypeOK'
    BY <1>6 DEF TypeOK, RerouteGw, Rerouted, Collect, Configs, HasAddress, AnyRoute
  <2>2. mCurrentConfig.routes = Wanted(pushed).routes /\ mCurrentConfig.localIP = pushed.localIP
    BY <1>6 DEF RerouteGw, Collect, Mirror
  <2>3. Wanted(pushed').routes = mCurrentConfig'.routes
    <3>1. /\ pushed \in Configs /\ pushed' \in Configs
          /\ mCurrentConfig \in Configs /\ mCurrentConfig' \in Configs
          /\ Wanted(pushed') \in Configs
      BY <2>1, WantedFields DEF TypeOK
    <3>2. /\ pushed'.localIP = pushed.localIP
          /\ \A f \in Families :
               pushed'.routes[f] =
                 pushed.routes[f] \cup (IF f \in fs THEN {"default"} ELSE {})
      BY <1>6, <3>1 DEF RerouteGw, Configs
    <3>3. \A f \in Families :
            mCurrentConfig'.routes[f] =
              mCurrentConfig.routes[f] \cup
                (IF f \in fs /\ (f = "ipv4" => mCurrentConfig.localIP["ipv4"] # "null")
                 THEN {"default"} ELSE {})
      BY <1>6, <3>1 DEF RerouteGw, Rerouted, Configs
    <3>4. Wanted(pushed').routes["ipv6"] = mCurrentConfig'.routes["ipv6"]
      <4>1. /\ Wanted(pushed').routes["ipv6"] = pushed'.routes["ipv6"] \ Unknown
            /\ Wanted(pushed).routes["ipv6"] = pushed.routes["ipv6"] \ Unknown
            /\ "default" \notin Unknown
        BY <3>1, WantedFields, RoutesAssumption
      <4>2. pushed'.routes["ipv6"] =
              pushed.routes["ipv6"] \cup (IF "ipv6" \in fs THEN {"default"} ELSE {})
        BY <3>2 DEF Families
      <4>3. mCurrentConfig'.routes["ipv6"] =
              mCurrentConfig.routes["ipv6"]
                \cup (IF "ipv6" \in fs THEN {"default"} ELSE {})
        BY <3>3 DEF Families
      <4> QED BY <2>2, <4>1, <4>2, <4>3
    <3>5. Wanted(pushed').routes["ipv4"] = mCurrentConfig'.routes["ipv4"]
      <4>1. CASE pushed.localIP["ipv4"] = "null"
        <5>1. /\ Wanted(pushed').routes["ipv4"] = pushed'.routes["ipv4"] \ {"default"}
              /\ Wanted(pushed).routes["ipv4"] = pushed.routes["ipv4"] \ {"default"}
          BY <3>1, <3>2, <4>1, WantedFields
        <5>2. pushed'.routes["ipv4"] =
                pushed.routes["ipv4"] \cup (IF "ipv4" \in fs THEN {"default"} ELSE {})
          BY <3>2 DEF Families
        <5>3. mCurrentConfig'.routes["ipv4"] = mCurrentConfig.routes["ipv4"]
          BY <2>2, <3>3, <4>1 DEF Families
        <5> QED BY <2>2, <5>1, <5>2, <5>3
      <4>2. CASE pushed.localIP["ipv4"] # "null"
        <5>1. /\ Wanted(pushed').routes["ipv4"] = pushed'.routes["ipv4"]
              /\ Wanted(pushed).routes["ipv4"] = pushed.routes["ipv4"]
          BY <3>1, <3>2, <4>2, WantedFields
        <5>2. pushed'.routes["ipv4"] =
                pushed.routes["ipv4"] \cup (IF "ipv4" \in fs THEN {"default"} ELSE {})
          BY <3>2 DEF Families
        <5>3. mCurrentConfig'.routes["ipv4"] = mCurrentConfig.routes["ipv4"]
                \cup (IF "ipv4" \in fs THEN {"default"} ELSE {})
          BY <2>2, <3>3, <4>2 DEF Families
        <5> QED BY <2>2, <5>1, <5>2, <5>3
      <4> QED BY <4>1, <4>2
    <3> QED BY <3>1, <3>4, <3>5, SameRoutes
  <2>4. Mirror'
    BY <1>6, <2>3 DEF RerouteGw, Rerouted, Collect, Mirror, HasAddress, TypeOK, Configs
  <2> QED BY <1>6, <2>1, <2>4 DEF RerouteGw, Collect, Between, InterfaceIsRound
<1>7. CASE Abort
  BY <1>7 DEF Abort, TypeOK, Mirror, Between, InterfaceIsRound
<1>8. CASE Establish
  <2>1. mCurrentConfig \in Configs /\ HasAddress(mCurrentConfig)
    BY <1>8 DEF Establish, Buildable, TypeOK
  <2>2. mCurrentConfig = Wanted(pushed)
    <3>1. pushed \in Configs /\ Wanted(pushed) \in Configs
      BY WantedFields DEF TypeOK
    <3>2. /\ mCurrentConfig.localIP = pushed.localIP
          /\ mCurrentConfig.routes = Wanted(pushed).routes
          /\ mCurrentConfig.dnslist = pushed.dnslist
          /\ pushed.mtu # 0 => mCurrentConfig.mtu = 1500
          /\ HasAddress(pushed) => pushed.mtu = 1500
      BY <1>8 DEF Establish, Mirror
    <3>3. HasAddress(pushed)
      BY <2>1, <3>2 DEF HasAddress
    <3>4. mCurrentConfig.mtu = pushed.mtu
      BY <3>2, <3>3
    <3>5. /\ Wanted(pushed).localIP = pushed.localIP
          /\ Wanted(pushed).dnslist = pushed.dnslist
          /\ Wanted(pushed).mtu = pushed.mtu
      BY <3>1, WantedFields
    <3> QED BY <2>1, <3>1, <3>2, <3>4, <3>5, SameConfig
  <2>3. TypeOK'
    BY <1>8, <2>1, ResetEmpties, InterfaceTyped
       DEF Establish, TypeOK, Disallowed, Whitelists
  <2>4. Between'
    BY <1>8, <2>1, ResetEmpties DEF Establish, Between
  <2>5. InterfaceIsRound'
    BY <1>8, <2>2 DEF Establish, InterfaceIsRound, Wanted, Interface, Accepted, Positive
  <2> QED BY <1>8, <2>3, <2>4, <2>5 DEF Establish, Mirror
<1>9. CASE EstablishFails
  BY <1>9, ResetEmpties
     DEF EstablishFails, TypeOK, Mirror, Between, InterfaceIsRound
<1>10. CASE PrepareConnection
  <2>1. Wanted(pushed') = Wanted(pushed)
    BY <1>10 DEF PrepareConnection, Wanted
  <2> QED BY <1>10, <2>1
     DEF PrepareConnection, TypeOK, Mirror, Between, InterfaceIsRound
<1>11. CASE UNCHANGED vars
  <2>1. Wanted(pushed') = Wanted(pushed)
    BY <1>11 DEF vars, Wanted
  <2> QED BY <1>11, <2>1 DEF vars, TypeOK, Mirror, Between, InterfaceIsRound
<1> QED
  BY <1>1, <1>2, <1>3, <1>4, <1>5, <1>6, <1>7, <1>8, <1>9, <1>10, <1>11 DEF Next

(* The types, for any sets the server and the client draw from. *)
THEOREM TunTypes == Spec => []TypeOK
  BY InitIInv, NextIInv, PTL DEF Spec, IInv

(* Whatever the server pushes in however many rounds, the interface of the *)
(* tunnel is made of the options of its own round, all of them but the     *)
(* routes that are not read or refused, and reset() is what makes it so.   *)
THEOREM OwnRound == Spec => []InterfaceIsRound
  BY InitIInv, NextIInv, PTL DEF Spec, IInv
=============================================================================
