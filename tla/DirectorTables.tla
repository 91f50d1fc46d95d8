--------------------------- MODULE DirectorTables ---------------------------
(***************************************************************************)
(* What is generated for each method of openvpn::ClientAPI::OpenVPNClient  *)
(* and its base TunBuilderBase, in the order of the file: the director     *)
(* methods, by which C++ calls Java, and the JNI functions, by which Java  *)
(* calls C++, with the kinds of their arguments and results.  Two more     *)
(* tables name the same methods for the Java VM, by position.              *)
(***************************************************************************)
EXTENDS Naturals, Sequences, Records

-----------------------------------------------------------------------------
(* Director methods: the slot of the method in swig_override and           *)
(* director_method_ids, and what is called if the slot is not overridden.  *)

Virtual(slot, args, result) ==
  [slot |-> slot, args |-> args, result |-> result, pure |-> FALSE]

PureVirtual(slot, args, result) ==
  [slot |-> slot, args |-> args, result |-> result, pure |-> TRUE]

AddressUpcalls ==
  [tun_builder_new |-> Virtual(0, <<>>, "bool"),
   tun_builder_set_layer |-> Virtual(1, <<"int">>, "bool"),
   tun_builder_set_remote_address |-> Virtual(2, <<"string", "bool">>, "bool"),
   tun_builder_add_address |-> Virtual(3, <<"string", "int", "string", "bool", "bool">>, "bool")]

(* A mutant: two slots with the same arguments are swapped. *)
SwappedUpcalls ==
  [tun_builder_set_route_metric_default |-> Virtual(4, <<"int">>, "bool"),
   tun_builder_reroute_gw |-> Virtual(5, <<"bool", "bool", "unsigned">>, "bool"),
   tun_builder_add_route |-> Virtual(7, <<"string", "int", "int", "bool">>, "bool"),
   tun_builder_exclude_route |-> Virtual(6, <<"string", "int", "int", "bool">>, "bool")]

RouteUpcalls ==
  [tun_builder_set_route_metric_default |-> Virtual(4, <<"int">>, "bool"),
   tun_builder_reroute_gw |-> Virtual(5, <<"bool", "bool", "unsigned">>, "bool"),
   tun_builder_add_route |-> Virtual(6, <<"string", "int", "int", "bool">>, "bool"),
   tun_builder_exclude_route |-> Virtual(7, <<"string", "int", "int", "bool">>, "bool")]

NameUpcalls ==
  [tun_builder_add_dns_server |-> Virtual(8, <<"string", "bool">>, "bool"),
   tun_builder_add_search_domain |-> Virtual(9, <<"string">>, "bool"),
   tun_builder_set_mtu |-> Virtual(10, <<"int">>, "bool"),
   tun_builder_set_session_name |-> Virtual(11, <<"string">>, "bool")]

ProxyUpcalls ==
  [tun_builder_add_proxy_bypass |-> Virtual(12, <<"string">>, "bool"),
   tun_builder_set_proxy_auto_config_url |-> Virtual(13, <<"string">>, "bool"),
   tun_builder_set_proxy_http |-> Virtual(14, <<"string", "int">>, "bool"),
   tun_builder_set_proxy_https |-> Virtual(15, <<"string", "int">>, "bool")]

SuffixUpcalls ==
  [tun_builder_add_wins_server |-> Virtual(16, <<"string">>, "bool"),
   tun_builder_set_block_ipv6 |-> Virtual(17, <<"bool">>, "bool"),
   tun_builder_set_adapter_domain_suffix |-> Virtual(18, <<"string">>, "bool")]

EstablishUpcalls ==
  [tun_builder_establish |-> Virtual(19, <<>>, "int"),
   tun_builder_persist |-> Virtual(20, <<>>, "bool"),
   tun_builder_get_local_networks |-> Virtual(21, <<"bool">>, "vector")]

TeardownUpcalls ==
  [tun_builder_establish_lite |-> Virtual(22, <<>>, "void"),
   tun_builder_teardown |-> Virtual(23, <<"bool">>, "void")]

(* A mutant: the slot of the next method. *)
ShiftedUpcalls ==
  [socket_protect |-> PureVirtual(25, <<"int", "string", "bool">>, "bool"),
   pause_on_connection_timeout |-> PureVirtual(25, <<>>, "bool")]

ClientUpcalls ==
  [socket_protect |-> PureVirtual(24, <<"int", "string", "bool">>, "bool"),
   pause_on_connection_timeout |-> PureVirtual(25, <<>>, "bool")]

EventUpcalls ==
  [event |-> PureVirtual(26, <<"reference">>, "void"),
   log |-> PureVirtual(27, <<"reference">>, "void"),
   external_pki_cert_request |-> PureVirtual(28, <<"reference">>, "void"),
   external_pki_sign_request |-> PureVirtual(29, <<"reference">>, "void")]

OverrideUpcalls ==
  [remote_override_enabled |-> Virtual(30, <<>>, "bool"),
   remote_override |-> Virtual(31, <<"reference">>, "void"),
   clock_tick |-> Virtual(32, <<>>, "void")]

Upcalls ==
  AddressUpcalls ++ RouteUpcalls ++ NameUpcalls ++ ProxyUpcalls
    ++ SuffixUpcalls ++ EstablishUpcalls ++ TeardownUpcalls
    ++ ClientUpcalls ++ EventUpcalls ++ OverrideUpcalls

(* The local references of an upcall: the one to the proxy, and a Java     *)
(* string for each string.                                                 *)
Strings(args) == Len(SelectSeq(args, LAMBDA a : a = "string"))

(* How a C++ value is handed to Java: a string is copied, a reference is   *)
(* passed as an address, and so is a vector that is returned.              *)
JniType(kind) ==
  CASE kind = "bool"                            -> "Z"
    [] kind = "int"                             -> "I"
    [] kind = "string"                          -> "String"
    [] kind = "void"                            -> "V"
    [] kind \in {"unsigned", "reference", "vector"} -> "J"

-----------------------------------------------------------------------------
(* swig_connect_director: the Java methods that may be overridden.         *)

OverrideMethods == <<
  <<"tun_builder_new", <<>>, "Z">>, <<"tun_builder_set_layer", <<"I">>, "Z">>,
  <<"tun_builder_set_remote_address", <<"String", "Z">>, "Z">>,
  <<"tun_builder_add_address", <<"String", "I", "String", "Z", "Z">>, "Z">>,
  <<"tun_builder_set_route_metric_default", <<"I">>, "Z">>,
  <<"tun_builder_reroute_gw", <<"Z", "Z", "J">>, "Z">>,
  <<"tun_builder_add_route", <<"String", "I", "I", "Z">>, "Z">>,
  <<"tun_builder_exclude_route", <<"String", "I", "I", "Z">>, "Z">>,
  <<"tun_builder_add_dns_server", <<"String", "Z">>, "Z">>,
  <<"tun_builder_add_search_domain", <<"String">>, "Z">>,
  <<"tun_builder_set_mtu", <<"I">>, "Z">>,
  <<"tun_builder_set_session_name", <<"String">>, "Z">>,
  <<"tun_builder_add_proxy_bypass", <<"String">>, "Z">>,
  <<"tun_builder_set_proxy_auto_config_url", <<"String">>, "Z">>,
  <<"tun_builder_set_proxy_http", <<"String", "I">>, "Z">>,
  <<"tun_builder_set_proxy_https", <<"String", "I">>, "Z">>,
  <<"tun_builder_add_wins_server", <<"String">>, "Z">>,
  <<"tun_builder_set_block_ipv6", <<"Z">>, "Z">>,
  <<"tun_builder_set_adapter_domain_suffix", <<"String">>, "Z">>,
  <<"tun_builder_establish", <<>>, "I">>, <<"tun_builder_persist", <<>>, "Z">>,
  <<"tun_builder_get_local_networks", <<"Z">>, "StringVec">>,
  <<"tun_builder_establish_lite", <<>>, "V">>,
  <<"tun_builder_teardown", <<"Z">>, "V">>,
  <<"socket_protect", <<"I", "String", "Z">>, "Z">>,
  <<"pause_on_connection_timeout", <<>>, "Z">>, <<"event", <<"Event">>, "V">>,
  <<"log", <<"LogInfo">>, "V">>,
  <<"external_pki_cert_request", <<"ExternalPKICertRequest">>, "V">>,
  <<"external_pki_sign_request", <<"ExternalPKISignRequest">>, "V">>,
  <<"remote_override_enabled", <<>>, "Z">>,
  <<"remote_override", <<"RemoteOverride">>, "V">>,
  <<"clock_tick", <<>>, "V">>>>

(* swig_module_init: the static Java methods an upcall goes through; each  *)
(* calls the method it is named after on the proxy.                        *)
DirectorMethods == <<
  <<"tun_builder_new", <<>>, "Z">>, <<"tun_builder_set_layer", <<"I">>, "Z">>,
  <<"tun_builder_set_remote_address", <<"String", "Z">>, "Z">>,
  <<"tun_builder_add_address", <<"String", "I", "String", "Z", "Z">>, "Z">>,
  <<"tun_builder_set_route_metric_default", <<"I">>, "Z">>,
  <<"tun_builder_reroute_gw", <<"Z", "Z", "J">>, "Z">>,
  <<"tun_builder_add_route", <<"String", "I", "I", "Z">>, "Z">>,
  <<"tun_builder_exclude_route", <<"String", "I", "I", "Z">>, "Z">>,
  <<"tun_builder_add_dns_server", <<"String", "Z">>, "Z">>,
  <<"tun_builder_add_search_domain", <<"String">>, "Z">>,
  <<"tun_builder_set_mtu", <<"I">>, "Z">>,
  <<"tun_builder_set_session_name", <<"String">>, "Z">>,
  <<"tun_builder_add_proxy_bypass", <<"String">>, "Z">>,
  <<"tun_builder_set_proxy_auto_config_url", <<"String">>, "Z">>,
  <<"tun_builder_set_proxy_http", <<"String", "I">>, "Z">>,
  <<"tun_builder_set_proxy_https", <<"String", "I">>, "Z">>,
  <<"tun_builder_add_wins_server", <<"String">>, "Z">>,
  <<"tun_builder_set_block_ipv6", <<"Z">>, "Z">>,
  <<"tun_builder_set_adapter_domain_suffix", <<"String">>, "Z">>,
  <<"tun_builder_establish", <<>>, "I">>, <<"tun_builder_persist", <<>>, "Z">>,
  <<"tun_builder_get_local_networks", <<"Z">>, "J">>,
  <<"tun_builder_establish_lite", <<>>, "V">>,
  <<"tun_builder_teardown", <<"Z">>, "V">>,
  <<"socket_protect", <<"I", "String", "Z">>, "Z">>,
  <<"pause_on_connection_timeout", <<>>, "Z">>, <<"event", <<"J">>, "V">>,
  <<"log", <<"J">>, "V">>, <<"external_pki_cert_request", <<"J">>, "V">>,
  <<"external_pki_sign_request", <<"J">>, "V">>,
  <<"remote_override_enabled", <<>>, "Z">>,
  <<"remote_override", <<"J">>, "V">>, <<"clock_tick", <<>>, "V">>>>

-----------------------------------------------------------------------------
(* JNI functions: Function for a static method of the class.               *)

Method(args, result) == [args |-> args, result |-> result, static |-> FALSE]

Function(args, result) == [args |-> args, result |-> result, static |-> TRUE]

AddressWrappers ==
  [tun_builder_new |-> Method(<<>>, "bool"),
   tun_builder_set_layer |-> Method(<<"int">>, "bool"),
   tun_builder_set_remote_address |-> Method(<<"string", "bool">>, "bool"),
   tun_builder_add_address |-> Method(<<"string", "int", "string", "bool", "bool">>, "bool"),
   tun_builder_set_route_metric_default |-> Method(<<"int">>, "bool")]

RouteWrappers ==
  [tun_builder_reroute_gw |-> Method(<<"bool", "bool", "unsigned">>, "bool"),
   tun_builder_add_route |-> Method(<<"string", "int", "int", "bool">>, "bool"),
   tun_builder_exclude_route |-> Method(<<"string", "int", "int", "bool">>, "bool"),
   tun_builder_add_dns_server |-> Method(<<"string", "bool">>, "bool"),
   tun_builder_add_search_domain |-> Method(<<"string">>, "bool"),
   tun_builder_set_mtu |-> Method(<<"int">>, "bool")]

ProxyWrappers ==
  [tun_builder_set_session_name |-> Method(<<"string">>, "bool"),
   tun_builder_add_proxy_bypass |-> Method(<<"string">>, "bool"),
   tun_builder_set_proxy_auto_config_url |-> Method(<<"string">>, "bool"),
   tun_builder_set_proxy_http |-> Method(<<"string", "int">>, "bool"),
   tun_builder_set_proxy_https |-> Method(<<"string", "int">>, "bool")]

EstablishWrappers ==
  [tun_builder_add_wins_server |-> Method(<<"string">>, "bool"),
   tun_builder_set_block_ipv6 |-> Method(<<"bool">>, "bool"),
   tun_builder_set_adapter_domain_suffix |-> Method(<<"string">>, "bool"),
   tun_builder_establish |-> Method(<<>>, "int"),
   tun_builder_persist |-> Method(<<>>, "bool"),
   tun_builder_get_local_networks |-> Method(<<"bool">>, "object"),
   tun_builder_establish_lite |-> Method(<<>>, "void"),
   tun_builder_teardown |-> Method(<<"bool">>, "void")]

ProcessWrappers ==
  [init_process |-> Function(<<>>, "void"),
   uninit_process |-> Function(<<>>, "void"),
   merge_config_static |-> Function(<<"string", "bool">>, "object"),
   merge_config_string_static |-> Function(<<"string">>, "object"),
   eval_config_static |-> Function(<<"reference">>, "object"),
   max_profile_size |-> Function(<<>>, "int"),
   parse_dynamic_challenge |-> Function(<<"string", "reference">>, "bool")]

SessionWrappers ==
  [eval_config |-> Method(<<"reference">>, "object"),
   provide_creds |-> Method(<<"reference">>, "object"),
   socket_protect |-> Method(<<"int", "string", "bool">>, "bool"),
   connect |-> Method(<<>>, "object"),
   connection_info |-> Method(<<>>, "object"),
   session_token |-> Method(<<"reference">>, "bool"),
   stop |-> Method(<<>>, "void")]

StatisticsWrappers ==
  [pause |-> Method(<<"string">>, "void"),
   resume |-> Method(<<>>, "void"),
   reconnect |-> Method(<<"int">>, "void"),
   pause_on_connection_timeout |-> Method(<<>>, "bool"),
   stats_n |-> Function(<<>>, "int"),
   stats_name |-> Function(<<"int">>, "string"),
   stats_value |-> Method(<<"int">>, "long"),
   stats_bundle |-> Method(<<>>, "object"),
   tun_stats |-> Method(<<>>, "object"),
   transport_stats |-> Method(<<>>, "object")]

EventWrappers ==
  [post_cc_msg |-> Method(<<"string">>, "void"),
   event |-> Method(<<"reference">>, "void"),
   log |-> Method(<<"reference">>, "void"),
   external_pki_cert_request |-> Method(<<"reference">>, "void"),
   external_pki_sign_request |-> Method(<<"reference">>, "void")]

OverrideWrappers ==
  [remote_override_enabled |-> Method(<<>>, "bool"),
   remote_override_enabled_explicit |-> Method(<<>>, "bool"),
   remote_override |-> Method(<<"reference">>, "void"),
   remote_override_explicit |-> Method(<<"reference">>, "void"),
   clock_tick |-> Method(<<>>, "void"),
   clock_tick_explicit |-> Method(<<>>, "void"),
   crypto_self_test |-> Function(<<>>, "string"),
   app_expire |-> Function(<<>>, "int"),
   platform |-> Function(<<>>, "string"),
   copyright |-> Function(<<>>, "string")]

Wrappers ==
  AddressWrappers ++ RouteWrappers ++ ProxyWrappers ++ EstablishWrappers
    ++ ProcessWrappers ++ SessionWrappers ++ StatisticsWrappers
    ++ EventWrappers ++ OverrideWrappers

(* A mutant: a string is converted without a test. *)
CheckedReferences == {"reference"}

(* The kinds of arguments a JNI function tests for null.                   *)
Checked == {"string", "reference"}

(* Those Java can pass null for.                                           *)
Nullable == {"string", "reference"}

Takes(w, kinds) ==
  \E i \in DOMAIN Wrappers[w].args : Wrappers[w].args[i] \in kinds

(* Protected methods have a second function that calls the C++ method of   *)
(* the class itself instead of the most derived one.                       *)
Explicit ==
  [remote_override_enabled |-> "remote_override_enabled_explicit",
   remote_override         |-> "remote_override_explicit",
   clock_tick              |-> "clock_tick_explicit"]

=============================================================================
