--------------------------- MODULE PolarVpnService ---------------------------
(***************************************************************************)
(* PolarVpnService: the Android service that owns the VPN.                 *)
(*                                                                         *)
(* Its main thread takes commands and does nothing but start a thread for  *)
(* each: a connectThread for ACTION_CONNECT, a disconnectThread for        *)
(* ACTION_DISCONNECT and for onRevoke.  Those threads, the runners of the  *)
(* sessions and the main thread's onDestroy share the field management of  *)
(* the service instance, and the statics of the process, without a lock;   *)
(* every step of every thread that touches one of them is an action.       *)
(***************************************************************************)
EXTENDS ManagementHandler

CONSTANTS
  Disconnects,      \* the disconnect threads
  Environment,      \* how the commands are spaced: see MayCommand
  MaxInstances,     \* bound on the instances of the service
  MaxDeaths         \* bound on the deaths of the process

ASSUME ThreadsAssumption ==
  /\ Threads = Connects \cup Disconnects
  /\ Disconnects \subseteq Nat \ {0}
  /\ Connects \cap Disconnects = {}
ASSUME EnvironmentAssumption == Environment \in {"hasty", "orderly", "polite"}
ASSUME BoundsAssumption == MaxInstances \in Nat \ {0} /\ MaxDeaths \in Nat

VARIABLES
  connector,        \* per connect: where its connectThread is
  disconnector,     \* per disconnect: where its disconnectThread is
  svc,              \* per thread: the instance (PolarVpnService.this) it belongs to
  alive,            \* the instance the system has created and not destroyed, 0 = none
  lastInstance,     \* the instances created so far
  stopping,         \* stopSelf has been called on the live instance
  management,       \* per instance: the field management, 0 = null
  sticky,           \* what onStartCommand returned last: restart after a death?
  errors,           \* the connects whose failure was sent by reportError
  lastCommand,      \* history: the last command taken, for the properties
  deaths            \* the process deaths so far (bounded)

serviceVars ==
  <<connector, disconnector, svc, alive, lastInstance, stopping, management,
    sticky, errors, lastCommand, deaths>>

vars == <<reporterVars, handlerVars, serviceVars>>

Instances == 1..MaxInstances

ServiceInit ==
  /\ connector = [c \in Connects |-> "none"]
  /\ disconnector = [d \in Disconnects |-> "none"]
  /\ svc = [t \in Threads |-> 0]
  /\ alive = 0
  /\ lastInstance = 0
  /\ stopping = FALSE
  /\ management = [i \in Instances |-> 0]
  /\ sticky = FALSE
  /\ errors = {}
  /\ lastCommand = "none"
  /\ deaths = 0

Init == ReporterInit /\ HandlerInit /\ ServiceInit

Preparing(c) == connector[c] \in {"prepare", "init", "assign", "replace", "install",
                               "failed"}
Disconnecting(d) == disconnector[d] \in {"stop", "notify"}

(* A thread that was started for a command and is not through with it.  A  *)
(* connect is through when its session is in the core's hands.             *)
Busy(t) ==
  \/ t \in Connects /\ (Preparing(t) \/ SettingUp(t))
  \/ t \in Disconnects /\ Disconnecting(t)

(* Nothing moves until a command, the network or the system makes it.      *)
Settled ==
  /\ ~stopping
  /\ \A t \in Threads : ~Busy(t) /\ ~Reporting(t)
  /\ \A c \in Connects :
       runner[c] = "loop" => Running(target[c]) /\ ~stopRequested[target[c]]

(***************************************************************************)
(* The client.  Nothing in the code makes it wait for anything, so the     *)
(* environment the code is exposed to is "hasty".  What it gets from a     *)
(* better behaved one is asked under "orderly", a command at a time, and   *)
(* "polite", where a command also waits for what the one before it set off *)
(* and the client disconnects before it connects again.                    *)
(***************************************************************************)
MayCommand ==
  \/ Environment = "hasty"
  \/ Environment = "orderly" /\ ~stopping /\ \A t \in Threads : ~Busy(t)
  \/ Environment = "polite" /\ Settled

MayConnect ==
  MayCommand /\ (Environment = "polite" => \A h \in Handlers : ~Live(h))

-----------------------------------------------------------------------------
(* Commands: the main thread.                                              *)

(* startService: an intent goes to the live instance, and a new one is     *)
(* created when there is none.  A started instance the system has not yet  *)
(* begun to bring down after stopSelf is saved by it.                      *)
Deliver(i) ==
  \/ /\ alive # 0
     /\ i = alive
     /\ stopping' \in BOOLEAN
     /\ stopping' => stopping
     /\ UNCHANGED <<alive, lastInstance>>
  \/ /\ alive = 0
     /\ lastInstance < MaxInstances
     /\ i = lastInstance + 1
     /\ alive' = i
     /\ lastInstance' = i
     /\ stopping' = FALSE

StartConnect(c) ==
  /\ connector[c] = "none"
  /\ \A o \in Connects : o < c => connector[o] # "none"
  /\ MayConnect
  /\ \E i \in Instances : Deliver(i) /\ svc' = [svc EXCEPT ![c] = i]
  /\ connector' = [connector EXCEPT ![c] = "prepare"]
  /\ sticky' = TRUE
  /\ lastCommand' = "connect"
  /\ UNCHANGED <<reporterVars, handlerVars, disconnector, management, errors, deaths>>

(* disconnect(): a disconnectThread that will report the given status. *)
Disconnect(d, i, status) ==
  /\ disconnector[d] = "none"
  /\ \A o \in Disconnects : o < d => disconnector[o] # "none"
  /\ disconnector' = [disconnector EXCEPT ![d] = "stop"]
  /\ svc' = [svc EXCEPT ![d] = i]
  /\ pending' = [pending EXCEPT ![d] = <<status>>]
  /\ lastCommand' = "disconnect"
  /\ UNCHANGED <<sCurrentConnectionStatus, reported, notify, handlerVars,
                 connector, management, errors, deaths>>

StartDisconnect(d) ==
  /\ MayCommand
  /\ \E i \in Instances : Deliver(i) /\ Disconnect(d, i, "DISCONNECTED")
  /\ sticky' = FALSE

OnRevoke(d) ==
  /\ MayCommand
  /\ alive # 0
  /\ Disconnect(d, alive, "PERMISSION_REVOKED")
  /\ UNCHANGED <<alive, lastInstance, stopping, sticky>>

(* ACTION_UPDATE_LOGGING_ENABLED: no flag it sets is read anywhere, but it *)
(* is a start of the service like another, and not a sticky one.           *)
UpdateLogging ==
  /\ MayCommand
  /\ \E i \in Instances : Deliver(i)
  /\ sticky' = FALSE
  /\ lastCommand' = "logging"
  /\ UNCHANGED <<reporterVars, handlerVars, connector, disconnector, svc,
                 management, errors, deaths>>

-----------------------------------------------------------------------------
(* connectThread.                                                          *)

Advance(c, from, to) ==
  /\ connector[c] = from
  /\ connector' = [connector EXCEPT ![c] = to]
  /\ UNCHANGED <<reporterVars, disconnector, svc, alive, lastInstance, stopping,
                 sticky, errors, lastCommand, deaths>>

(* prepareConnection: the extras go to fields of the service; it throws on *)
(* an unknown class name.                                                  *)
PrepareConnection(c) ==
  /\ Advance(c, "prepare", "init") \/ Advance(c, "prepare", "failed")
  /\ UNCHANGED <<handlerVars, management>>

(* The constructor of VpnConfig publishes the object half way through, and *)
(* can throw before (null servers) and after (null bundle) it does.        *)
PublishConfig(c) ==
  /\ \/ Advance(c, "init", "assign") /\ mConfig' = c
     \/ Advance(c, "init", "failed") /\ mConfig' \in {mConfig, c}
  /\ UNCHANGED <<runner, target, usedConfig, core, stopRequested, retries, poller,
                 management>>

(* initConfig assigns the finished object to the static again. *)
InitConfig(c) ==
  /\ Advance(c, "assign", "replace")
  /\ mConfig' = c
  /\ UNCHANGED <<runner, target, usedConfig, core, stopRequested, retries, poller,
                 management>>

(* A mutant: the handler in place is not stopped. *)
ReplaceNoStop(c) ==
  /\ Advance(c, "replace", "install")
  /\ UNCHANGED <<handlerVars, management>>

(* if (management != null) management.disconnect(): the field never goes   *)
(* back to null, so the test and the call need not be told apart.          *)
Replace(c) ==
  /\ Advance(c, "replace", "install")
  /\ stopRequested' = IF management[svc[c]] = 0 THEN stopRequested
                      ELSE Stopped(management[svc[c]])
  /\ UNCHANGED <<mConfig, runner, target, usedConfig, core, retries, poller, management>>

(* A mutant: the new handler does not reach the field. *)
InstallForgets(c) ==
  /\ Advance(c, "install", "done")
  /\ Create(c)
  /\ runner' = [runner EXCEPT ![c] = "born"]
  /\ UNCHANGED <<mConfig, target, usedConfig, stopRequested, retries, poller, management>>

(* A mutant: a handler that is in the field is kept. *)
InstallKeep(c) ==
  /\ Advance(c, "install", "done")
  /\ Create(c)
  /\ management' = [management EXCEPT ![svc[c]] = IF @ = 0 THEN c ELSE @]
  /\ runner' = [runner EXCEPT ![c] = "born"]
  /\ UNCHANGED <<mConfig, target, usedConfig, stopRequested, retries, poller>>

(* management = new ManagementHandler(...), and the runner is started. *)
Install(c) ==
  /\ Advance(c, "install", "done")
  /\ Create(c)
  /\ management' = [management EXCEPT ![svc[c]] = c]
  /\ runner' = [runner EXCEPT ![c] = "born"]
  /\ UNCHANGED <<mConfig, target, usedConfig, stopRequested, retries, poller>>

(* The constructor throws (the static initialiser of ManagementHandler, when *)
(* there is no ovpn3 to load, too): the handler in place, stopped already, *)
(* stays in the field.                                                     *)
InstallThrows(c) ==
  /\ Advance(c, "install", "failed")
  /\ UNCHANGED <<handlerVars, management>>

(* The runner evaluates the field management when it gets to run. *)
ReadManagement(c) ==
  /\ runner[c] = "born"
  /\ target' = [target EXCEPT ![c] = management[svc[c]]]
  /\ runner' = [runner EXCEPT ![c] = "config"]
  /\ UNCHANGED <<reporterVars, mConfig, usedConfig, core, stopRequested, retries,
                 poller, serviceVars>>

(* stopSelf on instance i. *)
StopSelf(i) == stopping' = (stopping \/ (alive = i /\ i # 0))

(* The uncaught exception handler of the connectThread. *)
ReportError(c) ==
  /\ connector[c] = "failed"
  /\ connector' = [connector EXCEPT ![c] = "reported"]
  /\ errors' = errors \cup {c}
  /\ StopSelf(svc[c])
  /\ UNCHANGED <<reporterVars, handlerVars, disconnector, svc, alive, lastInstance,
                 management, sticky, lastCommand, deaths>>

ConnectorStep(c) ==
  \/ PrepareConnection(c) \/ PublishConfig(c) \/ InitConfig(c) \/ Replace(c)
  \/ Install(c) \/ InstallThrows(c) \/ ReadManagement(c) \/ ReportError(c)

-----------------------------------------------------------------------------
(* disconnectThread.                                                       *)

(* A mutant: the session is left to onDestroy. *)
DisconnectStopNot(d) ==
  /\ disconnector[d] = "stop"
  /\ disconnector' = [disconnector EXCEPT ![d] = "notify"]
  /\ UNCHANGED <<reporterVars, handlerVars, connector, svc, alive, lastInstance,
                 stopping, management, sticky, errors, lastCommand, deaths>>

(* if (management != null) management.disconnect(). *)
DisconnectStop(d) ==
  /\ disconnector[d] = "stop"
  /\ disconnector' = [disconnector EXCEPT ![d] = "notify"]
  /\ stopRequested' = IF management[svc[d]] = 0 THEN stopRequested
                      ELSE Stopped(management[svc[d]])
  /\ UNCHANGED <<reporterVars, mConfig, runner, target, usedConfig, core, retries,
                 poller, connector, svc, alive, lastInstance, stopping, management,
                 sticky, errors, lastCommand, deaths>>

(* A mutant: the thread ends without stopSelf. *)
DisconnectSelfNot(d) ==
  /\ disconnector[d] = "notify"
  /\ ~Reporting(d)
  /\ disconnector' = [disconnector EXCEPT ![d] = "done"]
  /\ UNCHANGED <<reporterVars, handlerVars, connector, svc, alive, lastInstance,
                 stopping, management, sticky, errors, lastCommand, deaths>>

(* The status has been reported: stopSelf. *)
DisconnectSelf(d) ==
  /\ disconnector[d] = "notify"
  /\ ~Reporting(d)
  /\ disconnector' = [disconnector EXCEPT ![d] = "done"]
  /\ StopSelf(svc[d])
  /\ UNCHANGED <<reporterVars, handlerVars, connector, svc, alive, lastInstance,
                 management, sticky, errors, lastCommand, deaths>>

DisconnectorStep(d) == DisconnectStop(d) \/ DisconnectSelf(d)

(* A thread reports: a runner what event() gave it, a disconnectThread its *)
(* status, once it is past the call to disconnect().                       *)
ThreadNotifies(t) ==
  /\ t \in Disconnects => disconnector[t] = "notify"
  /\ Notify(t)
  /\ UNCHANGED <<handlerVars, serviceVars>>

-----------------------------------------------------------------------------
(* The system.                                                             *)

(* onDestroy, on the main thread: the session in management is stopped.    *)
OnDestroy ==
  /\ stopping
  /\ stopRequested' = IF management[alive] = 0 THEN stopRequested
                      ELSE Stopped(management[alive])
  /\ alive' = 0
  /\ stopping' = FALSE
  /\ sticky' = FALSE
  /\ UNCHANGED <<reporterVars, mConfig, runner, target, usedConfig, core, retries,
                 poller, connector, disconnector, svc, lastInstance, management,
                 errors, lastCommand, deaths>>

(* The process is killed.  The system remembers to restart a sticky        *)
(* service that was not being stopped.                                     *)
ProcessDeath ==
  /\ deaths < MaxDeaths
  /\ deaths' = deaths + 1
  /\ ReporterDies
  /\ HandlersDie
  /\ connector' = [c \in Connects |-> IF Preparing(c)
                                      THEN "dead" ELSE connector[c]]
  /\ disconnector' = [d \in Disconnects |-> IF Disconnecting(d)
                                            THEN "dead" ELSE disconnector[d]]
  /\ sticky' = (sticky /\ ~stopping)
  /\ alive' = 0
  /\ stopping' = FALSE
  /\ UNCHANGED <<svc, lastInstance, management, errors, lastCommand>>

(* The restart comes with a null intent, which onStartCommand leaves alone. *)
StickyRestart ==
  /\ alive = 0
  /\ sticky
  /\ \E i \in Instances : Deliver(i)
  /\ UNCHANGED <<reporterVars, handlerVars, connector, disconnector, svc,
                 management, sticky, errors, lastCommand, deaths>>

-----------------------------------------------------------------------------

ThreadStep ==
  \/ \E c \in Connects : ConnectorStep(c)
  \/ \E c \in Connects : RunnerStep(c) /\ UNCHANGED serviceVars
  \/ \E d \in Disconnects : DisconnectorStep(d)
  \/ \E t \in Threads : ThreadNotifies(t)

Command ==
  \/ \E c \in Connects : StartConnect(c)
  \/ \E d \in Disconnects : StartDisconnect(d) \/ OnRevoke(d)
  \/ UpdateLogging

Next ==
  \/ ThreadStep
  \/ Command
  \/ OnDestroy \/ ProcessDeath \/ StickyRestart

Spec == Init /\ [][Next]_vars

(* A thread that can take a step takes one in the end; a core that was     *)
(* asked to stop announces its end; and a service that has stopped itself  *)
(* is destroyed, which the system may put off while a tunnel of it is      *)
(* open.  No fairness on commands, on what a core does unasked, on deaths. *)
Fairness ==
  /\ \A c \in Connects :
       /\ WF_vars(ConnectorStep(c))
       /\ WF_vars((EvalConfig(c) \/ CoreConnect(c) \/ CoreRefuse(c)
                   \/ ConnectReturns(c)) /\ UNCHANGED serviceVars)
       /\ WF_vars(PollerExit(c) /\ UNCHANGED serviceVars)
       /\ WF_vars(CoreExit(c) /\ stopRequested[target[c]] /\ UNCHANGED serviceVars)
  /\ \A d \in Disconnects : WF_vars(DisconnectorStep(d))
  /\ \A t \in Threads : WF_vars(ThreadNotifies(t))
  /\ WF_vars(OnDestroy /\ \A h \in Handlers : ~Live(h))

FairSpec == Spec /\ Fairness

-----------------------------------------------------------------------------

ServiceTypeOK ==
  /\ connector \in [Connects -> {"none", "prepare", "init", "assign", "replace",
                                 "install", "done", "failed", "reported", "dead"}]
  /\ disconnector \in [Disconnects -> {"none", "stop", "notify", "done", "dead"}]
  /\ svc \in [Threads -> Instances \cup {0}]
  /\ lastInstance \in 0..MaxInstances
  /\ alive \in 0..lastInstance
  /\ stopping \in BOOLEAN
  /\ management \in [Instances -> Connects \cup {0}]
  /\ sticky \in BOOLEAN
  /\ errors \subseteq Connects
  /\ lastCommand \in {"none", "connect", "disconnect", "logging"}
  /\ deaths \in 0..MaxDeaths
  /\ stopping => alive # 0
=============================================================================
