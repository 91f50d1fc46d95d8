----------------------------- MODULE MCDirector -----------------------------
(***************************************************************************)
(* Values of the constants of Director for this program: the proxy is a    *)
(* ManagementHandler.                                                      *)
(***************************************************************************)
EXTENDS DirectorProperties

MCOverridden ==
  {"tun_builder_new", "tun_builder_set_layer", "tun_builder_set_remote_address",
     "tun_builder_add_address", "tun_builder_reroute_gw", "tun_builder_add_route",
     "tun_builder_exclude_route", "tun_builder_add_dns_server",
     "tun_builder_add_search_domain", "tun_builder_set_mtu",
     "tun_builder_set_session_name", "tun_builder_establish",
     "tun_builder_get_local_networks", "socket_protect", "event", "log",
     "external_pki_cert_request", "external_pki_sign_request"}

(* The configuration has no connection timeout, so the core does not ask   *)
(* what to do after one.                                                   *)
MCCoreMethods == DOMAIN Upcalls \ {"pause_on_connection_timeout"}

(* The native methods a ManagementHandler inherits.                        *)
MCJavaMethods ==
  DOMAIN Wrappers \ (MCOverridden \cup {Explicit[m] : m \in DOMAIN Explicit})

(* The hypotheses of the theorems about Director. *)
ASSUME HandlerAssumption == Callbacks /\ NoWayBack

=============================================================================
