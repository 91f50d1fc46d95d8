--------------------------- MODULE StatusReporter ---------------------------
(***************************************************************************)
(* How the VPN process tells its client about the state of the tunnel.     *)
(*                                                                         *)
(* PolarVpnService keeps the last status in the static field               *)
(* sCurrentConnectionStatus.  Two kinds of thread report a status: a       *)
(* runner, from ManagementHandler.event, through onNotifyConnectionStatus, *)
(* and a disconnectThread, with the same lines written out again.  Both    *)
(* compare the field, assign it and send an intent to VpnRemoteService,    *)
(* and nothing makes the three steps one: here each is an action.          *)
(***************************************************************************)
EXTENDS Integers, Sequences, FiniteSets

CONSTANT Threads        \* the threads that may report a status

VARIABLES
  sCurrentConnectionStatus,   \* the static field
  reported,                   \* the status of the last intent sent
  pending,                    \* per thread: the statuses it has yet to report
  notify                      \* per thread: where it is inside the report

reporterVars == <<sCurrentConnectionStatus, reported, pending, notify>>

(* The members of the enum VpnConnectionStatus. *)
Status ==
  {"INITIALIZING", "CONNECTING", "RECONNECTING", "CONNECTED", "ERROR",
   "DISCONNECTED", "NEEDS_VPN_PERMISSION", "PRE_CONNECTING",
   "PERMISSION_REVOKED", "AUTHENTICATION_FAILURE", "DEVICE_RESTART_REQUIRED"}

(* The statuses that say no tunnel is up or being set up. *)
OfflineStatus ==
  {"DISCONNECTED", "PERMISSION_REVOKED", "AUTHENTICATION_FAILURE"}

-----------------------------------------------------------------------------

ReporterInit ==
  /\ sCurrentConnectionStatus = "DISCONNECTED"
  /\ reported = "DISCONNECTED"
  /\ pending = [t \in Threads |-> <<>>]
  /\ notify = [t \in Threads |-> "idle"]

Reporting(t) == pending[t] # <<>>

(* The comparison: a status equal to the field is not reported again,      *)
(* except ERROR.                                                           *)
Differs(status) ==
  status # sCurrentConnectionStatus \/ status = "ERROR"

NotifySkip(t) ==
  /\ Reporting(t)
  /\ notify[t] = "idle"
  /\ ~Differs(Head(pending[t]))
  /\ pending' = [pending EXCEPT ![t] = Tail(@)]
  /\ UNCHANGED <<sCurrentConnectionStatus, reported, notify>>

NotifyPass(t) ==
  /\ Reporting(t)
  /\ notify[t] = "idle"
  /\ Differs(Head(pending[t]))
  /\ notify' = [notify EXCEPT ![t] = "set"]
  /\ UNCHANGED <<sCurrentConnectionStatus, reported, pending>>

NotifySet(t) ==
  /\ notify[t] = "set"
  /\ sCurrentConnectionStatus' = Head(pending[t])
  /\ notify' = [notify EXCEPT ![t] = "send"]
  /\ UNCHANGED <<reported, pending>>

NotifySend(t) ==
  /\ notify[t] = "send"
  /\ reported' = Head(pending[t])
  /\ pending' = [pending EXCEPT ![t] = Tail(@)]
  /\ notify' = [notify EXCEPT ![t] = "idle"]
  /\ UNCHANGED sCurrentConnectionStatus

Notify(t) == NotifySkip(t) \/ NotifyPass(t) \/ NotifySet(t) \/ NotifySend(t)

(* The process dies: the static starts again from its initial value, the   *)
(* threads are gone, and what the client was told last stays as it was.    *)
ReporterDies ==
  /\ sCurrentConnectionStatus' = "DISCONNECTED"
  /\ pending' = [t \in Threads |-> <<>>]
  /\ notify' = [t \in Threads |-> "idle"]
  /\ UNCHANGED reported

-----------------------------------------------------------------------------

ReporterTypeOK ==
  /\ sCurrentConnectionStatus \in Status
  /\ reported \in Status
  /\ pending \in [Threads -> Seq(Status)]
  /\ notify \in [Threads -> {"idle", "set", "send"}]
  /\ \A t \in Threads : notify[t] # "idle" => Reporting(t)
=============================================================================
