---------------------------- MODULE RemoteInstall ----------------------------
(***************************************************************************)
(* VpnRemoteService with the files it installs.                            *)
(*                                                                         *)
(* Where VpnRemoteService says that a startVpn installs something, or that *)
(* an error comes of it, here checkOrMoveBinaries runs step by step, while *)
(* the constructor of VpnConfig, on a connectThread of the process that an *)
(* earlier startVpn has sent a command to, copies the same assets.         *)
(***************************************************************************)
EXTENDS VpnRemoteService, CacheInstall

installVars == <<vars, cacheVars>>

InstallInit == Init /\ CacheInit

(* No checkOrMoveBinaries is under way, and none has come to an end for    *)
(* the call that is served.                                                *)
InstallBegins ==
  /\ serving.at = "install"
  /\ at["remote"] = "idle"
  /\ CheckBinaries
  /\ UNCHANGED vars

(* One of its steps that is not the last. *)
InstallGoesOn ==
  /\ BinaryStep \/ AssetStep("remote")
  /\ at'["remote"] # "idle"
  /\ UNCHANGED vars

(* The last step: startVpn goes on, or tells its callback of the error.    *)
InstallReturns ==
  /\ BinaryStep \/ AssetStep("remote")
  /\ at'["remote"] = "idle"
  /\ \E n \in Calls : Install(n)
  /\ (result' = "ok") <=> (serving'.at = "build")

InstallStep == InstallBegins \/ InstallGoesOn \/ InstallReturns

(* The other steps of startVpn, stopVpn and updateLoggingEnabled. *)
ServeStep ==
  /\ BinderStep
  /\ serving.at # "install"
  /\ UNCHANGED cacheVars

(* The constructor of VpnConfig, for a connect that PolarVpnService got.   *)
ConfigStep ==
  /\ \/ ConfigMoves /\ Contains(commands, "connect")
     \/ AssetStep("config")
     \/ Interrupt("config")
  /\ UNCHANGED vars

(* The process dies with all that runs in it. *)
RemoteDeath == Death /\ Interrupt("remote")

(* The client, PolarVpnService, the main thread, and the end of an instance. *)
OtherStep ==
  /\ \/ \E operation \in Operations : MakeCall(operation)
     \/ \E t \in Threads : ReportStep(t)
     \/ \E t \in Threads, status \in {"CONNECTING", "CONNECTED", "DISCONNECTED"} :
          Report(t, status)
     \/ OtherIntent
     \/ Handle
     \/ Unbind
  /\ UNCHANGED cacheVars

(* Android deletes a file of the cache directory. *)
FileGoes == (\E f \in Files : Evict(f)) /\ UNCHANGED vars

InstallNext ==
  InstallStep \/ ServeStep \/ ConfigStep \/ RemoteDeath \/ OtherStep \/ FileGoes

(* The binder thread runs, inside checkOrMoveBinaries and outside. *)
InstallSpec ==
  /\ InstallInit /\ [][InstallNext]_installVars
  /\ WF_installVars(InstallStep \/ ServeStep)

-----------------------------------------------------------------------------

(* A client that is told of a copy error gets past it by calling again,    *)
(* unless an asset cannot be opened at all or Android has deleted a file   *)
(* since: although moveAssetsToCacheDir returns false whenever it has      *)
(* copied something (IOHelper 59), both processes look for the files and   *)
(* copy them (VpnConfig 160-168), and the executable is looked for twice   *)
(* (VpnHelper 41-45, VpnRemoteService 230).                                *)
OneError ==
  unopened \/ Cardinality({n \in Calls : answer[n] = "error"}) <= 1 + evictions
=============================================================================
