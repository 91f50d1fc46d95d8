------------------------- MODULE ManagementHandler -------------------------
(***************************************************************************)
(* ManagementHandler: one VPN session on the OpenVPN 3 core.               *)
(*                                                                         *)
(* A handler owns one native client.  A runner, the un-named thread that a *)
(* connectThread starts, calls connect_new on a handler: it reads the      *)
(* static VpnConfig, has the core evaluate it, starts a StatusPoller, and  *)
(* then calls the native connect(), which runs the event loop of the       *)
(* session and calls event() back on that same thread until the session    *)
(* ends.  disconnect() is called by other threads and only asks the loop   *)
(* to stop.                                                                *)
(*                                                                         *)
(* Connect thread c creates handler c and runner c, so the three share an  *)
(* identity; which handler a runner works on is another matter.  The core  *)
(* itself (a git submodule) is modelled from how this code uses it: a      *)
(* client runs connect() at most once, a loop that has begun announces its *)
(* end with EXITING, and whether a stop() that comes before connect() is   *)
(* remembered is left open in StopLatches.                                 *)
(***************************************************************************)
EXTENDS StatusReporter

CONSTANTS
  Connects,       \* the connect threads, and their handlers and runners
  StopLatches,    \* does the core remember a stop() that precedes connect()?
  MaxRetries      \* bound on the reconnections of one session

ASSUME ConnectsAssumption == Connects \subseteq Threads /\ Connects \subseteq Nat \ {0}
ASSUME StopLatchesAssumption == StopLatches \in BOOLEAN
ASSUME MaxRetriesAssumption == MaxRetries \in Nat

VARIABLES
  mConfig,          \* VpnConfig.mConfig: the connect it was built for, 0 = null
  runner,           \* per connect: where its runner is
  target,           \* per runner: the handler it called connect_new on, 0 = none
  usedConfig,       \* per runner: the configuration it read, 0 = none
  core,             \* per handler: the state of its native client
  stopRequested,    \* per handler: its native client has been asked to stop
  retries,          \* per handler: how often its session reconnected (bounded)
  poller            \* per runner: its StatusPoller

handlerVars ==
  <<mConfig, runner, target, usedConfig, core, stopRequested, retries, poller>>

Handlers == Connects

RunnerStates ==
  {"none", "born", "config", "connect", "loop",
   "rejected", "refused", "ended", "dead"}

CoreStates ==
  {"absent", "new", "started", "connecting", "connected", "reconnecting",
   "exiting", "finished"}

(* Runners that were started and have not entered or given up the loop. *)
SettingUp(c) == runner[c] \in {"born", "config", "connect"}

(* The event loop of handler h is running, and is not on its way out. *)
Running(h) == core[h] \in {"started", "connecting", "connected", "reconnecting"}

(* The session of h has an end to come. *)
Live(h) == Running(h) \/ core[h] = "exiting"

HandlerInit ==
  /\ mConfig = 0
  /\ runner = [c \in Connects |-> "none"]
  /\ target = [c \in Connects |-> 0]
  /\ usedConfig = [c \in Connects |-> 0]
  /\ core = [h \in Handlers |-> "absent"]
  /\ stopRequested = [h \in Handlers |-> FALSE]
  /\ retries = [h \in Handlers |-> 0]
  /\ poller = [c \in Connects |-> "none"]

-----------------------------------------------------------------------------
(* A mutant of event(): the case for EXITING is missing. *)
EventStatusesNoExit(name, authFailure) ==
  CASE name = "CONNECTED"              -> <<"CONNECTED">>
    [] name \in {"CONNECTING", "WAIT"} -> <<"CONNECTING">>
    [] name = "RECONNECTING"           -> <<"RECONNECTING">>
    [] OTHER                           -> <<>>

(* A mutant of event(): WAIT is taken for a name like any other. *)
EventStatusesNoWait(name, authFailure) ==
  CASE name = "CONNECTED"              -> <<"CONNECTED">>
    [] name = "CONNECTING"             -> <<"CONNECTING">>
    [] name = "RECONNECTING"           -> <<"RECONNECTING">>
    [] name = "EXITING" /\ authFailure -> <<"AUTHENTICATION_FAILURE", "DISCONNECTED">>
    [] name = "EXITING" /\ ~authFailure -> <<"DISCONNECTED">>
    [] OTHER                           -> <<>>

(* event(): what a core event makes the runner report.  An event of        *)
(* another name is logged and dropped.                                     *)
EventStatuses(name, authFailure) ==
  CASE name = "CONNECTED"              -> <<"CONNECTED">>
    [] name \in {"CONNECTING", "WAIT"} -> <<"CONNECTING">>
    [] name = "RECONNECTING"           -> <<"RECONNECTING">>
    [] name = "EXITING" /\ authFailure -> <<"AUTHENTICATION_FAILURE", "DISCONNECTED">>
    [] name = "EXITING" /\ ~authFailure -> <<"DISCONNECTED">>
    [] OTHER                           -> <<>>

(* The core moves to a state and runner c, inside connect(), is given the  *)
(* event.  The loop is not resumed before event() has returned.            *)
Emit(c, state, name, authFailure) ==
  /\ runner[c] = "loop"
  /\ ~Reporting(c)
  /\ core' = [core EXCEPT ![target[c]] = state]
  /\ pending' = [pending EXCEPT ![c] = EventStatuses(name, authFailure)]
  /\ UNCHANGED <<sCurrentConnectionStatus, reported, notify, mConfig, runner,
                 target, usedConfig, stopRequested, poller>>

(***************************************************************************)
(* connect_new().                                                          *)
(***************************************************************************)

(* getDefaultConfig and setConfig: the static configuration is read here,  *)
(* and when the core cannot parse it connect_new returns without a word.   *)
(* Otherwise the poller is started.                                        *)
EvalConfig(c) ==
  /\ runner[c] = "config"
  /\ usedConfig' = [usedConfig EXCEPT ![c] = mConfig]
  /\ \/ /\ runner' = [runner EXCEPT ![c] = "rejected"]
        /\ UNCHANGED poller
     \/ /\ runner' = [runner EXCEPT ![c] = "connect"]
        /\ poller' = [poller EXCEPT ![c] = "polling"]
  /\ UNCHANGED <<reporterVars, mConfig, target, core, stopRequested, retries>>

(* connect() enters the loop of a fresh client. *)
CoreConnect(c) ==
  /\ runner[c] = "connect"
  /\ core[target[c]] = "new"
  /\ core' = [core EXCEPT ![target[c]] = "started"]
  /\ runner' = [runner EXCEPT ![c] = "loop"]
  /\ UNCHANGED <<reporterVars, mConfig, target, usedConfig, stopRequested,
                 retries, poller>>

(* connect() returns at once: the options are no good to it, or the client *)
(* has been used.  The poller is told to stop.                             *)
CoreRefuse(c) ==
  /\ runner[c] = "connect"
  /\ runner' = [runner EXCEPT ![c] = "refused"]
  /\ core' = [core EXCEPT ![target[c]] = IF @ = "new" THEN "finished" ELSE @]
  /\ poller' = [poller EXCEPT ![c] = "stopping"]
  /\ UNCHANGED <<reporterVars, mConfig, target, usedConfig, stopRequested, retries>>

(* A mutant: the loop ends and the poller is left running. *)
ConnectReturnsNoStop(c) ==
  /\ runner[c] = "loop"
  /\ core[target[c]] = "exiting"
  /\ ~Reporting(c)
  /\ core' = [core EXCEPT ![target[c]] = "finished"]
  /\ runner' = [runner EXCEPT ![c] = "ended"]
  /\ UNCHANGED <<reporterVars, mConfig, target, usedConfig, stopRequested,
                 retries, poller>>

(* connect() returns after the loop, and statuspoller.stop() is called. *)
ConnectReturns(c) ==
  /\ runner[c] = "loop"
  /\ core[target[c]] = "exiting"
  /\ ~Reporting(c)
  /\ core' = [core EXCEPT ![target[c]] = "finished"]
  /\ runner' = [runner EXCEPT ![c] = "ended"]
  /\ poller' = [poller EXCEPT ![c] = "stopping"]
  /\ UNCHANGED <<reporterVars, mConfig, target, usedConfig, stopRequested, retries>>

(* StatusPoller.run leaves its loop at the first test after stop(). *)
PollerExit(c) ==
  /\ poller[c] = "stopping"
  /\ poller' = [poller EXCEPT ![c] = "gone"]
  /\ UNCHANGED <<reporterVars, mConfig, runner, target, usedConfig, core,
                 stopRequested, retries>>

(***************************************************************************)
(* The core, as event() sees it.                                           *)
(***************************************************************************)

CoreAttempt(c) ==
  /\ runner[c] = "loop" /\ core[target[c]] \in {"started", "reconnecting"}
  /\ Emit(c, "connecting", "WAIT", FALSE)
  /\ UNCHANGED retries

CoreConnected(c) ==
  /\ runner[c] = "loop" /\ core[target[c]] = "connecting"
  /\ Emit(c, "connected", "CONNECTED", FALSE)
  /\ UNCHANGED retries

CoreReconnecting(c) ==
  /\ runner[c] = "loop" /\ core[target[c]] \in {"connecting", "connected"}
  /\ retries[target[c]] < MaxRetries
  /\ Emit(c, "reconnecting", "RECONNECTING", FALSE)
  /\ retries' = [retries EXCEPT ![target[c]] = @ + 1]

(* The session ends: it was asked to, or it failed for good, perhaps on    *)
(* the credentials.                                                        *)
CoreExit(c) ==
  /\ runner[c] = "loop" /\ Running(target[c])
  /\ \E authFailure \in BOOLEAN : Emit(c, "exiting", "EXITING", authFailure)
  /\ UNCHANGED retries

CoreEvent(c) ==
  CoreAttempt(c) \/ CoreConnected(c) \/ CoreReconnecting(c) \/ CoreExit(c)

(* The steps of runner c after it has found its handler. *)
RunnerStep(c) ==
  \/ EvalConfig(c) \/ CoreConnect(c) \/ CoreRefuse(c)
  \/ CoreEvent(c) \/ ConnectReturns(c) \/ PollerExit(c)

-----------------------------------------------------------------------------

(* The value of stopRequested after disconnect(), that is stop(), on h.    *)
(* Before connect() there is no loop to stop.                              *)
Stopped(h) ==
  [stopRequested EXCEPT ![h] = @ \/ core[h] # "new" \/ StopLatches]

(* The constructor: a native client that has not been run. *)
Create(h) == core' = [core EXCEPT ![h] = "new"]

(* The process dies with its threads and native clients. *)
HandlersDie ==
  /\ mConfig' = 0
  /\ runner' = [c \in Connects |-> IF runner[c] = "none" THEN "none" ELSE "dead"]
  /\ core' = [h \in Handlers |-> IF core[h] = "absent" THEN "absent" ELSE "finished"]
  /\ poller' = [c \in Connects |-> IF poller[c] = "none" THEN "none" ELSE "gone"]
  /\ UNCHANGED <<target, usedConfig, stopRequested, retries>>

-----------------------------------------------------------------------------

HandlerTypeOK ==
  /\ mConfig \in Connects \cup {0}
  /\ runner \in [Connects -> RunnerStates]
  /\ target \in [Connects -> Connects \cup {0}]
  /\ usedConfig \in [Connects -> Connects \cup {0}]
  /\ core \in [Handlers -> CoreStates]
  /\ stopRequested \in [Handlers -> BOOLEAN]
  /\ retries \in [Handlers -> 0..MaxRetries]
  /\ poller \in [Connects -> {"none", "polling", "stopping", "gone"}]
=============================================================================
