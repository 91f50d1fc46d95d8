---------------------- MODULE PolarVpnServiceProperties ----------------------
(***************************************************************************)
(* What PolarVpnService is supposed to do with its sessions, its field     *)
(* management and the status it reports.                                   *)
(***************************************************************************)
EXTENDS PolarVpnService

(* Every variable has its type; a report in progress has a status to       *)
(* report, and only a live instance is being stopped.                      *)
TypeOK == ReporterTypeOK /\ HandlerTypeOK /\ ServiceTypeOK

-----------------------------------------------------------------------------
(* Safety.                                                                 *)

(* The un-named thread that runs a session dereferences the field          *)
(* management without a test (PolarVpnService 261).  Whatever the threads  *)
(* of other commands do meanwhile, it finds a handler there, and one with  *)
(* a native client behind it.                                              *)
RunnerHasHandler ==
  \A c \in Connects :
    /\ runner[c] = "born" =>
         management[svc[c]] # 0 /\ core[management[svc[c]]] # "absent"
    /\ runner[c] \in {"config", "connect", "loop"} =>
         target[c] # 0 /\ core[target[c]] # "absent"

(* Handler h has a session, or a runner that is about to give it one. *)
CanRun(h) ==
  \/ Live(h)
  \/ /\ core[h] = "new"
     /\ \E c \in Connects :
          \/ runner[c] = "born" /\ management[svc[c]] = h
          \/ runner[c] \in {"config", "connect"} /\ target[c] = h

(* No session escapes: one that nobody has told to stop is in the field    *)
(* management of the live instance, where a disconnect, a revocation, the  *)
(* next connect and onDestroy will find it (PolarVpnService 126, 250, 285). *)
NoOrphan ==
  \A h \in Handlers :
    CanRun(h) /\ ~stopRequested[h] => alive # 0 /\ management[alive] = h

(* A session runs on the handler that its own connect request made, with   *)
(* the configuration of that request: the runner reads both from shared    *)
(* fields, long after the connectThread wrote them (PolarVpnService 261,   *)
(* ManagementHandler 68).                                                  *)
OwnRequest ==
  \A c \in Connects :
    runner[c] \in {"connect", "loop"} => target[c] = c /\ usedConfig[c] = c

(* The status for each state of a session that has been announced. *)
StatusOf(state) ==
  CASE state = "connecting"   -> "CONNECTING"
    [] state = "connected"    -> "CONNECTED"
    [] state = "reconnecting" -> "RECONNECTING"

(* Once things have settled the recorded status is that of the session,    *)
(* and an offline one when there is no session (PolarVpnService 292-294    *)
(* and 378-380, two writers of one static).                                *)
StatusTruth ==
  Settled =>
    /\ \A h \in Handlers :
         core[h] \in {"connecting", "connected", "reconnecting"} =>
           sCurrentConnectionStatus = StatusOf(core[h])
    /\ (\A h \in Handlers : ~Live(h)) => sCurrentConnectionStatus \in OfflineStatus

(* However the threads race, the recorded status does not stay on          *)
(* CONNECTED or the like once the last session is over: with no session    *)
(* and no report under way it says that the VPN is off.                    *)
OfflineAtRest ==
  (\A h \in Handlers : ~Live(h)) /\ (\A t \in Threads : ~Reporting(t))
    => sCurrentConnectionStatus \in OfflineStatus

-----------------------------------------------------------------------------
(* What the service is to a client that waits.                             *)

TheSession ==
  IF \E h \in Handlers : Live(h) THEN core[CHOOSE h \in Handlers : Live(h)] ELSE "off"

Asked == \E h \in Handlers : Live(h) /\ stopRequested[h]

Switch == INSTANCE VpnSwitch WITH
            session <- TheSession, asked <- Asked, status <- sCurrentConnectionStatus

(* The threads of PolarVpnService (250-305), the runners and their two     *)
(* copies of the status report (292-294, 378-380) are one switch: sessions *)
(* one at a time, whose states are all recorded and in their order, with   *)
(* an offline status only from a command that has asked for the end or     *)
(* from the end itself, which no late report of the session undoes.        *)
ImplementsVpnSwitch == Switch!Spec

-----------------------------------------------------------------------------
(* Liveness.                                                               *)

Offline == \A h \in Handlers : ~Live(h)

(* A session that has been asked to stop ends, and so does the thread that *)
(* polls its statistics (ManagementHandler 78-80, 289).                    *)
StoppedSessionsEnd ==
  \A c \in Connects :
    (runner[c] = "loop" /\ stopRequested[target[c]]) ~> (poller[c] = "gone")

(* When the last command is a disconnect or a revocation, the VPN goes     *)
(* down and stays down ("disconnect should shut down file descriptors and  *)
(* stop the process", PolarVpnService 278-279).                            *)
DisconnectEndsSessions == <>[](lastCommand = "disconnect") => <>[]Offline

(* And the service goes with it (PolarVpnService 304), unless the process  *)
(* dies: the system then restarts a service that had not got so far.       *)
DisconnectEndsService ==
  <>[](lastCommand = "disconnect" /\ deaths = 0) => <>[](alive = 0)

(* "This error is triggered if the thread responsible for setting up       *)
(* OpenVpn encounters an error" (PolarVpnService 322): a connect whose     *)
(* session cannot be set up is reported as an error.                       *)
SetupErrorReported ==
  \A c \in Connects : runner[c] = "rejected" ~> (c \in errors \/ runner[c] = "dead")
=============================================================================
