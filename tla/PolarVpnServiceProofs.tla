------------------------ MODULE PolarVpnServiceProofs ------------------------
(***************************************************************************)
(* Proofs about PolarVpnService, for any number of commands, instances,    *)
(* deaths and reconnections.                                               *)
(***************************************************************************)
EXTENDS PolarVpnServiceProperties, TLAPS

-----------------------------------------------------------------------------
(* The inductive invariant of every environment.                           *)

(* A thread at work knows its instance, a handler is created by the last   *)
(* step of its connectThread, and its runner is born in the same step.     *)
Placed ==
  /\ \A c \in Connects :
       /\ connector[c] # "none" => svc[c] \in Instances
       /\ connector[c] # "done" => runner[c] = "none" /\ core[c] = "absent"
  /\ \A d \in Disconnects : disconnector[d] # "none" => svc[d] \in Instances

(* The field management never holds a handler that was not created. *)
FieldOK ==
  \A i \in Instances : management[i] # 0 => core[management[i]] # "absent"

BaseInv == TypeOK /\ Placed /\ FieldOK /\ RunnerHasHandler

-----------------------------------------------------------------------------
(* What event() makes a runner report for the events of the core. *)
LEMMA EventStatusesValue ==
  /\ EventStatuses("WAIT", FALSE) = <<"CONNECTING">>
  /\ EventStatuses("CONNECTED", FALSE) = <<"CONNECTED">>
  /\ EventStatuses("RECONNECTING", FALSE) = <<"RECONNECTING">>
  /\ EventStatuses("EXITING", TRUE) = <<"AUTHENTICATION_FAILURE", "DISCONNECTED">>
  /\ EventStatuses("EXITING", FALSE) = <<"DISCONNECTED">>
  BY DEF EventStatuses

LEMMA InitBase == Init => BaseInv
<1> SUFFICES ASSUME Init PROVE BaseInv
  OBVIOUS
<1> USE DEF Init, ReporterInit, HandlerInit, ServiceInit, Handlers, Instances
<1>1. TypeOK
  <2>1. ReporterTypeOK
    <3>1. <<>> \in Seq(Status)
      OBVIOUS
    <3>2. pending \in [Threads -> Seq(Status)]
      BY <3>1
    <3>3. QED
      BY <3>2 DEF ReporterTypeOK, Status
  <2>2. HandlerTypeOK
    BY MaxRetriesAssumption DEF HandlerTypeOK, RunnerStates, CoreStates
  <2>3. ServiceTypeOK
    <3>1. connector \in [Connects -> {"none", "prepare", "init", "assign", "replace",
                                   "install", "done", "failed", "reported", "dead"}]
      OBVIOUS
    <3>2. disconnector \in [Disconnects -> {"none", "stop", "notify", "done", "dead"}]
      OBVIOUS
    <3>3. svc \in [Threads -> Instances \cup {0}]
      OBVIOUS
    <3>4. management \in [Instances -> Connects \cup {0}]
      OBVIOUS
    <3>5. lastInstance \in 0..MaxInstances /\ alive \in 0..lastInstance /\ deaths \in 0..MaxDeaths
      BY BoundsAssumption
    <3>6. errors \subseteq Connects
      OBVIOUS
    <3>7. QED
      BY <3>1, <3>2, <3>3, <3>4, <3>5, <3>6 DEF ServiceTypeOK
  <2>4. QED
    BY <2>1, <2>2, <2>3 DEF TypeOK
<1>2. Placed /\ FieldOK /\ RunnerHasHandler
  BY ThreadsAssumption DEF Placed, FieldOK, RunnerHasHandler
<1>3. QED
  BY <1>1, <1>2 DEF BaseInv

-----------------------------------------------------------------------------
(* Reporting a status keeps the types of the reporter. *)
LEMMA NotifyType ==
  ASSUME ReporterTypeOK, NEW t \in Threads, Notify(t)
  PROVE  ReporterTypeOK'
<1> USE DEF ReporterTypeOK, Reporting
<1>1. CASE NotifySkip(t)
  <2>1. Tail(pending[t]) \in Seq(Status)
    BY <1>1 DEF NotifySkip
  <2>2. pending' \in [Threads -> Seq(Status)]
    BY <1>1, <2>1 DEF NotifySkip
  <2>3. QED
    BY <1>1, <2>2 DEF NotifySkip
<1>2. CASE NotifyPass(t)
  BY <1>2 DEF NotifyPass
<1>3. CASE NotifySet(t)
  <2>1. Head(pending[t]) \in Status
    BY <1>3 DEF NotifySet
  <2>2. QED
    BY <1>3, <2>1 DEF NotifySet
<1>4. CASE NotifySend(t)
  <2>1. Head(pending[t]) \in Status /\ Tail(pending[t]) \in Seq(Status)
    BY <1>4 DEF NotifySend
  <2>2. pending' \in [Threads -> Seq(Status)]
    BY <1>4, <2>1 DEF NotifySend
  <2>3. QED
    BY <1>4, <2>1, <2>2 DEF NotifySend
<1>5. QED
  BY <1>1, <1>2, <1>3, <1>4 DEF Notify

(* A step that leaves the reporter alone keeps its types. *)
LEMMA ReporterStays == ReporterTypeOK /\ UNCHANGED reporterVars => ReporterTypeOK'
  BY DEF ReporterTypeOK, reporterVars, Reporting

(* A step that leaves the handlers alone keeps their types. *)
LEMMA HandlerStays == HandlerTypeOK /\ UNCHANGED handlerVars => HandlerTypeOK'
  BY DEF HandlerTypeOK, handlerVars

(* A step that leaves the service alone keeps its types. *)
LEMMA ServiceStays == ServiceTypeOK /\ UNCHANGED serviceVars => ServiceTypeOK'
  BY DEF ServiceTypeOK, serviceVars

(* An event of the core is a step of a runner in its loop, and what it is  *)
(* made to report is a sequence of statuses.                               *)
LEMMA CoreEventType ==
  ASSUME ReporterTypeOK, HandlerTypeOK, NEW c \in Connects, CoreEvent(c)
  PROVE  ReporterTypeOK' /\ HandlerTypeOK'
<1>1. c \in Threads
  BY ConnectsAssumption
<1>2. ASSUME NEW state \in CoreStates, NEW name, NEW a \in BOOLEAN,
             EventStatuses(name, a) \in Seq(Status),
             Emit(c, state, name, a)
      PROVE  ReporterTypeOK' /\ core' \in [Handlers -> CoreStates]
  <2>1. pending' \in [Threads -> Seq(Status)]
    BY <1>1, <1>2 DEF Emit, ReporterTypeOK
  <2>2. \A t \in Threads : notify'[t] # "idle" => pending'[t] # <<>>
    BY <1>1, <1>2 DEF Emit, ReporterTypeOK, Reporting
  <2>3. QED
    BY <1>2, <2>1, <2>2 DEF Emit, ReporterTypeOK, HandlerTypeOK, Reporting
<1>3. /\ <<"CONNECTING">> \in Seq(Status)
      /\ <<"CONNECTED">> \in Seq(Status)
      /\ <<"RECONNECTING">> \in Seq(Status)
      /\ <<"AUTHENTICATION_FAILURE", "DISCONNECTED">> \in Seq(Status)
      /\ <<"DISCONNECTED">> \in Seq(Status)
  BY DEF Status
<1>4. CASE CoreAttempt(c)
  <2>1. ReporterTypeOK' /\ core' \in [Handlers -> CoreStates]
    BY <1>2, <1>3, <1>4, EventStatusesValue DEF CoreAttempt, CoreStates
  <2>2. QED
    BY <1>4, <2>1 DEF CoreAttempt, Emit, HandlerTypeOK
<1>5. CASE CoreConnected(c)
  <2>1. ReporterTypeOK' /\ core' \in [Handlers -> CoreStates]
    BY <1>2, <1>3, <1>5, EventStatusesValue DEF CoreConnected, CoreStates
  <2>2. QED
    BY <1>5, <2>1 DEF CoreConnected, Emit, HandlerTypeOK
<1>6. CASE CoreReconnecting(c)
  <2>1. ReporterTypeOK' /\ core' \in [Handlers -> CoreStates]
    BY <1>2, <1>3, <1>6, EventStatusesValue DEF CoreReconnecting, CoreStates
  <2>2. retries' \in [Handlers -> 0..MaxRetries]
    <3>1. \A h \in Handlers : h = target[c] => retries[h] + 1 \in 0..MaxRetries
      BY <1>6, MaxRetriesAssumption DEF CoreReconnecting, HandlerTypeOK
    <3>2. retries' = [h \in Handlers |-> IF h = target[c] THEN retries[h] + 1
                                        ELSE retries[h]]
      BY <1>6 DEF CoreReconnecting, HandlerTypeOK
    <3>3. QED
      BY <3>1, <3>2 DEF HandlerTypeOK
  <2>3. QED
    BY <1>6, <2>1, <2>2 DEF CoreReconnecting, Emit, HandlerTypeOK
<1>7. CASE CoreExit(c)
  <2>1. PICK a \in BOOLEAN : Emit(c, "exiting", "EXITING", a)
    BY <1>7 DEF CoreExit
  <2>2. EventStatuses("EXITING", a) \in Seq(Status)
    BY <1>3, EventStatusesValue
  <2>3. ReporterTypeOK' /\ core' \in [Handlers -> CoreStates]
    BY <1>2, <2>1, <2>2 DEF CoreStates
  <2>4. QED
    BY <1>7, <2>1, <2>3 DEF CoreExit, Emit, HandlerTypeOK
<1>8. QED
  BY <1>4, <1>5, <1>6, <1>7 DEF CoreEvent

-----------------------------------------------------------------------------
(* The rest of a runner's steps. *)
LEMMA RunnerType ==
  ASSUME ReporterTypeOK, HandlerTypeOK, NEW c \in Connects, RunnerStep(c)
  PROVE  ReporterTypeOK' /\ HandlerTypeOK'
<1> USE DEF HandlerTypeOK, RunnerStates, CoreStates, Handlers
<1>1. CASE EvalConfig(c)
  BY <1>1, ReporterStays DEF EvalConfig
<1>2. CASE CoreConnect(c)
  BY <1>2, ReporterStays DEF CoreConnect
<1>3. CASE CoreRefuse(c)
  BY <1>3, ReporterStays DEF CoreRefuse
<1>4. CASE CoreEvent(c)
  BY <1>4, CoreEventType
<1>5. CASE ConnectReturns(c)
  BY <1>5, ReporterStays DEF ConnectReturns
<1>6. CASE PollerExit(c)
  BY <1>6, ReporterStays DEF PollerExit
<1>7. QED
  BY <1>1, <1>2, <1>3, <1>4, <1>5, <1>6 DEF RunnerStep

(* stop() keeps the type of stopRequested. *)
LEMMA StoppedType ==
  ASSUME HandlerTypeOK, NEW h
  PROVE  Stopped(h) \in [Handlers -> BOOLEAN]
<1>1. \A k \in Handlers : (stopRequested[k] \/ core[k] # "new" \/ StopLatches) \in BOOLEAN
  OBVIOUS
<1>2. QED
  BY <1>1 DEF Stopped, HandlerTypeOK

(* The delivery of a start, to the live instance or to a new one. *)
LEMMA DeliverType ==
  ASSUME ServiceTypeOK, NEW i \in Instances, Deliver(i)
  PROVE  /\ alive' \in 0..lastInstance'
         /\ alive' = i
         /\ alive' # 0
         /\ lastInstance' \in 0..MaxInstances
         /\ stopping' \in BOOLEAN
         /\ alive # 0 => alive' = alive
<1>1. /\ lastInstance \in 0..MaxInstances /\ alive \in 0..lastInstance
      /\ stopping \in BOOLEAN /\ MaxInstances \in Nat
  BY BoundsAssumption DEF ServiceTypeOK
<1>2. CASE alive # 0 /\ i = alive /\ stopping' \in BOOLEAN /\ (stopping' => stopping)
           /\ UNCHANGED <<alive, lastInstance>>
  BY <1>1, <1>2
<1>3. CASE alive = 0 /\ lastInstance < MaxInstances /\ i = lastInstance + 1
           /\ alive' = i /\ lastInstance' = i /\ stopping' = FALSE
  <2>1. i \in Nat /\ i # 0 /\ i <= MaxInstances
    BY <1>1, <1>3
  <2>2. alive' \in 0..i /\ i \in 0..MaxInstances
    BY <1>1, <1>3, <2>1
  <2>3. QED
    BY <1>3, <2>1, <2>2
<1>4. QED
  BY <1>2, <1>3 DEF Deliver

-----------------------------------------------------------------------------
(* Each step keeps the types, where a thread finds its instance in svc.    *)
LEMMA CommandType ==
  ASSUME TypeOK, Command
  PROVE  TypeOK'
<1> USE DEF TypeOK
<1>1. ASSUME NEW c \in Connects, StartConnect(c)
      PROVE  TypeOK'
  <2>1. PICK i \in Instances : Deliver(i) /\ svc' = [svc EXCEPT ![c] = i]
    BY <1>1 DEF StartConnect
  <2>2. ServiceTypeOK'
    BY <1>1, <2>1, DeliverType DEF StartConnect, ServiceTypeOK
  <2>3. QED
    BY <1>1, <2>2, ReporterStays, HandlerStays DEF StartConnect
<1>2. ASSUME NEW d \in Disconnects, NEW i \in Instances, NEW status \in Status,
             Disconnect(d, i, status)
      PROVE  /\ ReporterTypeOK' /\ HandlerTypeOK'
             /\ disconnector' \in [Disconnects -> {"none", "stop", "notify", "done", "dead"}]
             /\ svc' \in [Threads -> Instances \cup {0}]
  <2>1. <<status>> \in Seq(Status) /\ d \in Threads
    BY ThreadsAssumption
  <2>2. pending' \in [Threads -> Seq(Status)]
    BY <1>2, <2>1 DEF Disconnect, ReporterTypeOK
  <2>3. ReporterTypeOK'
    BY <1>2, <2>1, <2>2 DEF Disconnect, ReporterTypeOK, Reporting
  <2>4. QED
    BY <1>2, <2>3, HandlerStays DEF Disconnect, ServiceTypeOK
<1>3. "DISCONNECTED" \in Status /\ "PERMISSION_REVOKED" \in Status
  BY DEF Status
<1>4. ASSUME NEW d \in Disconnects, StartDisconnect(d)
      PROVE  TypeOK'
  <2>1. PICK i \in Instances : Deliver(i) /\ Disconnect(d, i, "DISCONNECTED")
    BY <1>4 DEF StartDisconnect
  <2>2. ServiceTypeOK'
    BY <1>2, <1>3, <1>4, <2>1, DeliverType DEF StartDisconnect, Disconnect, ServiceTypeOK
  <2>3. QED
    BY <1>2, <1>3, <2>1, <2>2
<1>5. ASSUME NEW d \in Disconnects, OnRevoke(d)
      PROVE  TypeOK'
  <2>1. alive \in Instances
    BY <1>5, BoundsAssumption DEF OnRevoke, ServiceTypeOK, Instances
  <2>2. ServiceTypeOK'
    BY <1>2, <1>3, <1>5, <2>1 DEF OnRevoke, Disconnect, ServiceTypeOK
  <2>3. QED
    BY <1>2, <1>3, <1>5, <2>1, <2>2 DEF OnRevoke
<1>6. ASSUME UpdateLogging
      PROVE  TypeOK'
  <2>1. ServiceTypeOK'
    BY <1>6, DeliverType DEF UpdateLogging, ServiceTypeOK
  <2>2. QED
    BY <1>6, <2>1, ReporterStays, HandlerStays DEF UpdateLogging
<1>7. QED
  BY <1>1, <1>4, <1>5, <1>6 DEF Command

(* A connect knows its instance by the time it touches management. *)
LEMMA ConnectorType ==
  ASSUME TypeOK, Placed, NEW c \in Connects, ConnectorStep(c)
  PROVE  TypeOK'
<1> USE DEF TypeOK
<1>1. ASSUME NEW from, NEW to, Advance(c, from, to),
             to \in {"init", "assign", "replace", "install", "done", "failed"},
             management' \in [Instances -> Connects \cup {0}]
      PROVE  ReporterTypeOK' /\ ServiceTypeOK'
  BY <1>1, ReporterStays DEF Advance, ServiceTypeOK
<1>2. CASE PrepareConnection(c) \/ InstallThrows(c)
  BY <1>1, <1>2, HandlerStays DEF PrepareConnection, InstallThrows, ServiceTypeOK
<1>3. CASE PublishConfig(c)
  <2>1. HandlerTypeOK'
    BY <1>3 DEF PublishConfig, HandlerTypeOK
  <2>2. QED
    BY <1>1, <1>3, <2>1 DEF PublishConfig, ServiceTypeOK
<1>4. CASE InitConfig(c)
  <2>1. HandlerTypeOK'
    BY <1>4 DEF InitConfig, HandlerTypeOK
  <2>2. QED
    BY <1>1, <1>4, <2>1 DEF InitConfig, ServiceTypeOK
<1>5. CASE Replace(c)
  <2>1. HandlerTypeOK'
    BY <1>5, StoppedType DEF Replace, HandlerTypeOK
  <2>2. QED
    BY <1>1, <1>5, <2>1 DEF Replace, ServiceTypeOK
<1>6. CASE Install(c)
  <2>1. HandlerTypeOK'
    BY <1>6 DEF Install, Create, HandlerTypeOK, RunnerStates, CoreStates
  <2>2. management' \in [Instances -> Connects \cup {0}]
    BY <1>6 DEF Install, ServiceTypeOK
  <2>3. QED
    BY <1>1, <1>6, <2>1, <2>2 DEF Install
<1>7. CASE ReadManagement(c)
  <2>1. management[svc[c]] \in Connects \cup {0}
    BY <1>7 DEF ReadManagement, Placed, ServiceTypeOK
  <2>2. HandlerTypeOK'
    BY <1>7, <2>1 DEF ReadManagement, HandlerTypeOK, RunnerStates
  <2>3. QED
    BY <1>7, <2>2, ReporterStays, ServiceStays DEF ReadManagement
<1>8. CASE ReportError(c)
  <2>1. ServiceTypeOK'
    BY <1>8 DEF ReportError, StopSelf, ServiceTypeOK
  <2>2. QED
    BY <1>8, <2>1, ReporterStays, HandlerStays DEF ReportError
<1>9. QED
  BY <1>2, <1>3, <1>4, <1>5, <1>6, <1>7, <1>8 DEF ConnectorStep

(* The two steps of a disconnectThread around its report. *)
LEMMA DisconnectorType ==
  ASSUME TypeOK, NEW d \in Disconnects, DisconnectorStep(d)
  PROVE  TypeOK'
<1> USE DEF TypeOK
<1>1. CASE DisconnectStop(d)
  <2>1. HandlerTypeOK'
    BY <1>1, StoppedType DEF DisconnectStop, HandlerTypeOK
  <2>2. ServiceTypeOK'
    BY <1>1 DEF DisconnectStop, ServiceTypeOK
  <2>3. QED
    BY <1>1, <2>1, <2>2, ReporterStays DEF DisconnectStop
<1>2. CASE DisconnectSelf(d)
  <2>1. ServiceTypeOK'
    BY <1>2 DEF DisconnectSelf, StopSelf, ServiceTypeOK
  <2>2. QED
    BY <1>2, <2>1, ReporterStays, HandlerStays DEF DisconnectSelf
<1>3. QED
  BY <1>1, <1>2 DEF DisconnectorStep

(* What the system does to the service. *)
LEMMA SystemType ==
  ASSUME TypeOK, OnDestroy \/ ProcessDeath \/ StickyRestart
  PROVE  TypeOK'
<1> USE DEF TypeOK
<1>1. CASE OnDestroy
  <2>1. HandlerTypeOK'
    BY <1>1, StoppedType DEF OnDestroy, HandlerTypeOK
  <2>2. ServiceTypeOK'
    <3>1. alive' \in 0..lastInstance' /\ ~stopping'
      BY <1>1, BoundsAssumption DEF OnDestroy, ServiceTypeOK
    <3>2. QED
      BY <1>1, <3>1 DEF OnDestroy, ServiceTypeOK
  <2>3. QED
    BY <1>1, <2>1, <2>2, ReporterStays DEF OnDestroy
<1>2. CASE ProcessDeath
  <2>1. ReporterTypeOK'
    <3>1. <<>> \in Seq(Status) /\ "DISCONNECTED" \in Status
      BY DEF Status
    <3>2. pending' \in [Threads -> Seq(Status)]
      BY <1>2, <3>1 DEF ProcessDeath, ReporterDies
    <3>3. QED
      BY <1>2, <3>1, <3>2 DEF ProcessDeath, ReporterDies, ReporterTypeOK
  <2>2. HandlerTypeOK'
    BY <1>2 DEF ProcessDeath, HandlersDie, HandlerTypeOK, RunnerStates, CoreStates, Handlers
  <2>3. ServiceTypeOK'
    <3>1. /\ connector' \in [Connects -> {"none", "prepare", "init", "assign", "replace",
                                   "install", "done", "failed", "reported", "dead"}]
          /\ disconnector' \in [Disconnects -> {"none", "stop", "notify", "done", "dead"}]
      BY <1>2 DEF ProcessDeath, ServiceTypeOK
    <3>2. alive' \in 0..lastInstance' /\ deaths' \in 0..MaxDeaths
      BY <1>2, BoundsAssumption DEF ProcessDeath, ServiceTypeOK
    <3>3. sticky' \in BOOLEAN
      BY <1>2 DEF ProcessDeath, ServiceTypeOK
    <3>4. QED
      BY <1>2, <3>1, <3>2, <3>3 DEF ProcessDeath, ServiceTypeOK
  <2>4. QED
    BY <2>1, <2>2, <2>3
<1>3. CASE StickyRestart
  <2>1. ServiceTypeOK'
    <3>1. PICK i \in Instances : Deliver(i)
      BY <1>3 DEF StickyRestart
    <3>2. /\ alive' \in 0..lastInstance'
          /\ lastInstance' \in 0..MaxInstances
          /\ stopping' \in BOOLEAN
          /\ alive' # 0
      BY <3>1, DeliverType
    <3>3. QED
      BY <1>3, <3>2 DEF StickyRestart, ServiceTypeOK
  <2>2. QED
    BY <1>3, <2>1, ReporterStays, HandlerStays DEF StickyRestart
<1>4. QED
  BY <1>1, <1>2, <1>3

(* Every step keeps the types. *)
LEMMA NextType ==
  ASSUME TypeOK, Placed, [Next]_vars
  PROVE  TypeOK'
<1>1. CASE ThreadStep
  <2>1. ASSUME NEW c \in Connects, RunnerStep(c) /\ UNCHANGED serviceVars
        PROVE  TypeOK'
    BY <2>1, RunnerType, ServiceStays DEF TypeOK
  <2>2. ASSUME NEW t \in Threads, ThreadNotifies(t)
        PROVE  TypeOK'
    BY <2>2, NotifyType, HandlerStays, ServiceStays DEF ThreadNotifies, TypeOK
  <2>3. QED
    BY <1>1, <2>1, <2>2, ConnectorType, DisconnectorType DEF ThreadStep
<1>2. CASE UNCHANGED vars
  BY <1>2, ReporterStays, HandlerStays, ServiceStays DEF vars, TypeOK
<1>3. QED
  BY <1>1, <1>2, CommandType, SystemType DEF Next

-----------------------------------------------------------------------------
(* The steps of a runner move its own program counter, and the state of a  *)
(* native client that exists.                                              *)
LEMMA RunnerFrame ==
  ASSUME BaseInv, NEW c \in Connects, RunnerStep(c)
  PROVE  /\ \A k \in Connects : k # c => runner'[k] = runner[k]
         /\ runner'[c] # "none" => runner[c] # "none"
         /\ runner'[c] # "born" \/ runner[c] = "born"
         /\ runner'[c] \in {"config", "connect", "loop"} =>
              runner[c] \in {"config", "connect", "loop"}
         /\ target' = target
         /\ \A h \in Handlers : core'[h] # core[h] =>
              /\ core'[h] # "absent"
              /\ core[h] # "absent"
         /\ mConfig' = mConfig /\ stopRequested' = stopRequested
<1> USE DEF BaseInv, TypeOK, HandlerTypeOK, Handlers
<1>1. CASE EvalConfig(c)
  BY <1>1 DEF EvalConfig
<1>2. CASE CoreConnect(c)
  BY <1>2 DEF CoreConnect
<1>3. CASE CoreRefuse(c)
  BY <1>3 DEF CoreRefuse
<1>4. CASE ConnectReturns(c)
  BY <1>4 DEF ConnectReturns
<1>5. CASE PollerExit(c)
  BY <1>5 DEF PollerExit
<1>6. ASSUME NEW state \in CoreStates \ {"absent"}, NEW name, NEW a,
             Emit(c, state, name, a)
      PROVE  /\ runner' = runner /\ target' = target
             /\ mConfig' = mConfig /\ stopRequested' = stopRequested
             /\ \A h \in Handlers : core'[h] # core[h] =>
                  /\ core'[h] # "absent"
                  /\ core[h] # "absent"
  <2>1. core[target[c]] # "absent"
    BY <1>6 DEF Emit, RunnerHasHandler
  <2>2. QED
    BY <1>6, <2>1 DEF Emit
<1>7. CASE CoreEvent(c)
  <2>1. CASE CoreAttempt(c)
    BY <1>6, <2>1 DEF CoreAttempt, CoreStates
  <2>2. CASE CoreConnected(c)
    BY <1>6, <2>2 DEF CoreConnected, CoreStates
  <2>3. CASE CoreReconnecting(c)
    BY <1>6, <2>3 DEF CoreReconnecting, CoreStates
  <2>4. CASE CoreExit(c)
    BY <1>6, <2>4 DEF CoreExit, CoreStates
  <2>5. QED
    BY <1>7, <2>1, <2>2, <2>3, <2>4 DEF CoreEvent
<1>8. QED
  BY <1>1, <1>2, <1>3, <1>4, <1>5, <1>7 DEF RunnerStep

LEMMA NextBase ==
  ASSUME BaseInv, [Next]_vars
  PROVE  BaseInv'
<1> DEFINE Rest == Placed' /\ FieldOK' /\ RunnerHasHandler'
<1> USE DEF BaseInv
<1>1. SUFFICES Rest
  BY NextType
<1> USE DEF TypeOK, HandlerTypeOK, ServiceTypeOK, Placed, FieldOK, RunnerHasHandler, Handlers
<1>2. ASSUME UNCHANGED <<handlerVars, connector, disconnector, svc, management>>
      PROVE  Rest
  BY <1>2 DEF handlerVars
<1>3. ASSUME NEW c \in Connects, ConnectorStep(c)
      PROVE  Rest
  <2>1. CASE PrepareConnection(c) \/ InstallThrows(c)
    BY <2>1 DEF PrepareConnection, InstallThrows, Advance, handlerVars
  <2>2. CASE PublishConfig(c)
    BY <2>2 DEF PublishConfig, Advance
  <2>3. CASE InitConfig(c)
    BY <2>3 DEF InitConfig, Advance
  <2>4. CASE Replace(c)
    BY <2>4 DEF Replace, Advance
  <2>5. CASE Install(c)
    <3>1. /\ connector' = [connector EXCEPT ![c] = "done"]
          /\ core' = [core EXCEPT ![c] = "new"]
          /\ management' = [management EXCEPT ![svc[c]] = c]
          /\ runner' = [runner EXCEPT ![c] = "born"]
          /\ svc' = svc /\ target' = target /\ disconnector' = disconnector
          /\ svc[c] \in Instances /\ c # 0
      BY <2>5, ConnectsAssumption DEF Install, Advance, Create
    <3>2. Placed' /\ FieldOK'
      BY <3>1
    <3>3. RunnerHasHandler'
      BY <3>1
    <3>4. QED
      BY <3>2, <3>3
  <2>6. CASE ReadManagement(c)
    BY <2>6 DEF ReadManagement, serviceVars
  <2>7. CASE ReportError(c)
    BY <2>7 DEF ReportError, handlerVars
  <2>8. QED
    BY <1>3, <2>1, <2>2, <2>3, <2>4, <2>5, <2>6, <2>7 DEF ConnectorStep
<1>4. ASSUME NEW c \in Connects, RunnerStep(c), UNCHANGED serviceVars
      PROVE  Rest
  BY <1>4, RunnerFrame DEF serviceVars
<1>5. ASSUME NEW d \in Disconnects, DisconnectorStep(d)
      PROVE  Rest
  BY <1>5 DEF DisconnectorStep, DisconnectStop, DisconnectSelf, handlerVars
<1>6. ASSUME NEW t \in Threads, ThreadNotifies(t)
      PROVE  Rest
  BY <1>2, <1>6 DEF ThreadNotifies, serviceVars
<1>7. CASE ThreadStep
  BY <1>3, <1>4, <1>5, <1>6, <1>7 DEF ThreadStep
<1>8. ASSUME NEW c \in Connects, StartConnect(c)
      PROVE  Rest
  <2>1. c \in Threads
    BY ConnectsAssumption
  <2>2. QED
    BY <1>8, <2>1, ThreadsAssumption DEF StartConnect, handlerVars
<1>9. ASSUME NEW d \in Disconnects, NEW i \in Instances, NEW status, Disconnect(d, i, status)
      PROVE  Rest
  BY <1>9, ThreadsAssumption DEF Disconnect, handlerVars
<1>10. ASSUME NEW d \in Disconnects, StartDisconnect(d) \/ OnRevoke(d)
       PROVE  Rest
  <2>1. OnRevoke(d) => alive \in Instances
    BY BoundsAssumption DEF OnRevoke, Instances
  <2>2. QED
    BY <1>9, <1>10, <2>1 DEF StartDisconnect, OnRevoke
<1>11. CASE Command
  BY <1>2, <1>8, <1>10, <1>11 DEF Command, UpdateLogging
<1>12. CASE OnDestroy
  BY <1>12 DEF OnDestroy
<1>13. CASE ProcessDeath
  BY <1>13 DEF ProcessDeath, HandlersDie, Preparing, Disconnecting
<1>14. CASE StickyRestart
  BY <1>2, <1>14 DEF StickyRestart
<1>15. CASE UNCHANGED vars
  BY <1>2, <1>15 DEF vars, serviceVars
<1>16. QED
  BY <1>7, <1>11, <1>12, <1>13, <1>14, <1>15 DEF Next

-----------------------------------------------------------------------------
(* The types hold of every behaviour. *)
THEOREM TypeCorrect == Spec => []TypeOK
<1>1. BaseInv => TypeOK
  BY DEF BaseInv
<1>2. QED
  BY <1>1, InitBase, NextBase, PTL DEF Spec

(* A runner never finds management null, and never works on a handler that *)
(* has no native client, however the commands race (PolarVpnService 261).  *)
THEOREM RunnerNeverNull == Spec => []RunnerHasHandler
<1>1. BaseInv => RunnerHasHandler
  BY DEF BaseInv
<1>2. QED
  BY <1>1, InitBase, NextBase, PTL DEF Spec

-----------------------------------------------------------------------------
(* NoOrphan, for commands that come one at a time.                         *)

OrderInv ==
  /\ \A s, t \in Threads : Busy(s) /\ Busy(t) => s = t
  /\ \A t \in Threads : Busy(t) => ~stopping /\ alive # 0 /\ svc[t] = alive
  /\ \A c \in Connects : connector[c] = "install" =>
       \A h \in Handlers : CanRun(h) => stopRequested[h]
  /\ NoOrphan

(* A step of a runner starts no work and makes no handler able to run.     *)
LEMMA RunnerShrinks ==
  ASSUME BaseInv, NEW c \in Connects, RunnerStep(c), UNCHANGED serviceVars
  PROVE  /\ \A t \in Threads : Busy(t)' => Busy(t)
         /\ \A h \in Handlers : CanRun(h)' => CanRun(h)
<1> USE DEF Handlers, CanRun, Live, Running
<1> USE DEF BaseInv, TypeOK, HandlerTypeOK, serviceVars
<1>1. \A t \in Threads : Busy(t)' => Busy(t)
  <2>1. SettingUp(c)' => SettingUp(c)
    BY DEF RunnerStep, EvalConfig, CoreConnect, CoreRefuse, CoreEvent, CoreAttempt,
           CoreConnected, CoreReconnecting, CoreExit, Emit, ConnectReturns, PollerExit,
           SettingUp
  <2>2. QED
    BY <2>1, RunnerFrame DEF Busy, Preparing, SettingUp, Disconnecting
<1>2. CASE EvalConfig(c)
  BY <1>1, <1>2 DEF EvalConfig
<1>3. CASE CoreConnect(c)
  BY <1>1, <1>3 DEF CoreConnect
<1>4. CASE CoreRefuse(c)
  BY <1>1, <1>4 DEF CoreRefuse
<1>5. CASE ConnectReturns(c)
  BY <1>1, <1>5 DEF ConnectReturns
<1>6. CASE PollerExit(c)
  BY <1>1, <1>6 DEF PollerExit
<1>7. ASSUME NEW state \in {"connecting", "connected", "reconnecting", "exiting"},
             NEW name, NEW a, Emit(c, state, name, a), Running(target[c])
      PROVE  \A h \in Handlers : CanRun(h)' => CanRun(h)
  BY <1>7 DEF Emit
<1>8. CASE CoreEvent(c)
  <2>1. CASE CoreAttempt(c)
    BY <1>1, <1>7, <2>1 DEF CoreAttempt
  <2>2. CASE CoreConnected(c)
    BY <1>1, <1>7, <2>2 DEF CoreConnected
  <2>3. CASE CoreReconnecting(c)
    BY <1>1, <1>7, <2>3 DEF CoreReconnecting
  <2>4. CASE CoreExit(c)
    BY <1>1, <1>7, <2>4 DEF CoreExit
  <2>5. QED
    BY <1>8, <2>1, <2>2, <2>3, <2>4 DEF CoreEvent
<1>9. QED
  BY <1>2, <1>3, <1>4, <1>5, <1>6, <1>8 DEF RunnerStep

(* What keeps the order: no new work, no new session to run, no stop taken *)
(* back, and the live instance and its field left alone.                   *)
LEMMA OrderKept ==
  ASSUME OrderInv,
         \A t \in Threads : Busy(t)' => Busy(t),
         \A h \in Handlers : CanRun(h)' => CanRun(h),
         \A h \in Handlers : stopRequested[h] => stopRequested'[h],
         \A c \in Connects : connector'[c] = "install" => connector[c] = "install",
         UNCHANGED <<alive, stopping, svc, management>>
  PROVE  OrderInv'
  BY DEF OrderInv, NoOrphan

LEMMA InitOrder == Init => OrderInv
  BY ThreadsAssumption
  DEF Init, ServiceInit, HandlerInit, OrderInv, NoOrphan, CanRun, Live, Running, Busy,
      Preparing, SettingUp, Disconnecting, Handlers

(* A command, in an environment that waits its turn: the only thread at    *)
(* work afterwards is the one it starts, on the live instance.             *)
LEMMA CommandOrder ==
  ASSUME Environment # "hasty", BaseInv, OrderInv, Command
  PROVE  OrderInv'
<1> USE DEF BaseInv, TypeOK, HandlerTypeOK, ServiceTypeOK, Handlers
<1>1. MayCommand => ~stopping /\ \A t \in Threads : ~Busy(t)
  BY DEF MayCommand, Settled
<1>2. \A t \in Threads : ~Busy(t)
  BY <1>1 DEF Command, StartConnect, MayConnect, StartDisconnect, OnRevoke, UpdateLogging
<1>3. ~stopping
  BY <1>1 DEF Command, StartConnect, MayConnect, StartDisconnect, OnRevoke, UpdateLogging
<1>4. UNCHANGED <<handlerVars, management>>
  BY DEF Command, StartConnect, StartDisconnect, OnRevoke, UpdateLogging, Disconnect
<1>5. /\ ~stopping'
      /\ alive # 0 => alive' = alive
  <2>1. (\E i \in Instances : Deliver(i)) \/ UNCHANGED <<alive, stopping>>
    BY DEF Command, StartConnect, StartDisconnect, OnRevoke, UpdateLogging
  <2>2. ASSUME NEW i \in Instances, Deliver(i)
        PROVE  ~stopping' /\ (alive # 0 => alive' = alive)
    BY <1>3, <2>2 DEF Deliver
  <2>3. QED
    BY <1>3, <2>1, <2>2
<1>6. \A c \in Connects : runner[c] # "none" => svc'[c] = svc[c]
  BY ThreadsAssumption
  DEF Command, StartConnect, StartDisconnect, OnRevoke, UpdateLogging, Disconnect, Placed
<1>7. \A h \in Handlers : CanRun(h)' => CanRun(h)
  BY <1>4, <1>6 DEF CanRun, Live, Running, handlerVars
<1>8. NoOrphan'
  BY <1>4, <1>5, <1>7 DEF OrderInv, NoOrphan, handlerVars
<1>9. \A c \in Connects : connector'[c] # "install"
  BY <1>2, ConnectsAssumption
  DEF Command, StartConnect, StartDisconnect, OnRevoke, UpdateLogging, Disconnect,
      Busy, Preparing
<1>10. ASSUME NEW t \in Threads, NEW i \in Instances, Deliver(i),
              svc' = [svc EXCEPT ![t] = i],
              \A s \in Threads : Busy(s)' => Busy(s) \/ s = t
       PROVE  OrderInv'
  <2>1. alive' # 0 /\ svc'[t] = alive'
    BY <1>10, DeliverType
  <2>2. \A s \in Threads : Busy(s)' => s = t
    BY <1>2, <1>10
  <2>3. QED
    BY <1>5, <1>8, <1>9, <2>1, <2>2 DEF OrderInv
<1>11. ASSUME NEW c \in Connects, StartConnect(c)
       PROVE  OrderInv'
  <2>1. c \in Threads
    BY ConnectsAssumption
  <2>2. \A s \in Threads : Busy(s)' => Busy(s) \/ s = c
    BY <1>11 DEF StartConnect, Busy, Preparing, SettingUp, Disconnecting, handlerVars
  <2>3. QED
    BY <1>10, <1>11, <2>1, <2>2 DEF StartConnect
<1>12. ASSUME NEW d \in Disconnects, NEW i \in Instances, NEW status, Disconnect(d, i, status)
       PROVE  \A s \in Threads : Busy(s)' => Busy(s) \/ s = d
  BY <1>12 DEF Disconnect, Busy, Preparing, SettingUp, Disconnecting, handlerVars
<1>13. ASSUME NEW d \in Disconnects, StartDisconnect(d)
       PROVE  OrderInv'
  <2>1. d \in Threads
    BY ThreadsAssumption
  <2>2. PICK i \in Instances : Deliver(i) /\ Disconnect(d, i, "DISCONNECTED")
    BY <1>13 DEF StartDisconnect
  <2>3. QED
    BY <1>10, <1>12, <2>1, <2>2 DEF Disconnect
<1>14. ASSUME NEW d \in Disconnects, OnRevoke(d)
       PROVE  OrderInv'
  <2>1. d \in Threads
    BY ThreadsAssumption
  <2>2. alive \in Instances /\ Disconnect(d, alive, "PERMISSION_REVOKED")
    BY <1>14, BoundsAssumption DEF OnRevoke, Instances
  <2>3. \A s \in Threads : Busy(s)' => s = d
    BY <1>2, <1>12, <2>2
  <2>4. alive' # 0 /\ svc'[d] = alive'
    BY <1>14, <2>1, <2>2 DEF OnRevoke, Disconnect
  <2>5. QED
    BY <1>5, <1>8, <1>9, <2>3, <2>4 DEF OrderInv
<1>15. ASSUME UpdateLogging
       PROVE  OrderInv'
  <2>1. \A s \in Threads : ~Busy(s)'
    BY <1>2, <1>15 DEF UpdateLogging, Busy, Preparing, SettingUp, Disconnecting, handlerVars
  <2>2. QED
    BY <1>8, <1>9, <2>1 DEF OrderInv
<1>16. QED
  BY <1>11, <1>13, <1>14, <1>15 DEF Command

(* The thread at work is the only one, so the session it stops is running, *)
(* and the stop cannot be lost.                                            *)
LEMMA StopTakes ==
  ASSUME BaseInv, OrderInv, NEW t \in Threads, Busy(t),
         t \in Connects => ~SettingUp(t),
         stopRequested' = IF management[svc[t]] = 0 THEN stopRequested
                          ELSE Stopped(management[svc[t]])
  PROVE  \A h \in Handlers : CanRun(h) => stopRequested'[h]
<1> SUFFICES ASSUME NEW h \in Handlers, CanRun(h), ~stopRequested[h]
             PROVE  stopRequested'[h]
  BY DEF Stopped, BaseInv, TypeOK, HandlerTypeOK
<1>1. management[svc[t]] = h /\ h # 0
  BY ConnectsAssumption DEF OrderInv, NoOrphan, Handlers
<1>2. \A c \in Connects : ~SettingUp(c)
  BY ConnectsAssumption DEF OrderInv, Busy
<1>3. core[h] # "new"
  BY <1>2 DEF CanRun, SettingUp, Live, Running
<1>4. QED
  BY <1>1, <1>3 DEF Stopped, BaseInv, TypeOK, HandlerTypeOK

LEMMA ConnectorOrder ==
  ASSUME BaseInv, OrderInv, NEW c \in Connects, ConnectorStep(c)
  PROVE  OrderInv'
<1> USE DEF BaseInv, TypeOK, HandlerTypeOK, ServiceTypeOK, Handlers
<1>1. c \in Threads
  BY ConnectsAssumption
<1>2. ASSUME NEW from \in {"prepare", "init", "assign", "replace", "install"},
             NEW to \in {"init", "assign", "replace", "install", "failed"},
             Advance(c, from, to), UNCHANGED <<runner, target, core, management>>
      PROVE  /\ \A t \in Threads : Busy(t)' => Busy(t)
             /\ \A h \in Handlers : CanRun(h)' => CanRun(h)
  BY <1>2 DEF Advance, Busy, Preparing, SettingUp, Disconnecting, CanRun, Live, Running
<1>3. CASE PrepareConnection(c) \/ InstallThrows(c)
  BY <1>2, <1>3, OrderKept DEF PrepareConnection, InstallThrows, Advance, handlerVars
<1>4. CASE PublishConfig(c)
  BY <1>2, <1>4, OrderKept DEF PublishConfig, Advance
<1>5. CASE InitConfig(c)
  BY <1>2, <1>5, OrderKept DEF InitConfig, Advance
<1>6. CASE Replace(c)
  <2>1. Busy(c) /\ ~SettingUp(c)
    BY <1>6 DEF Replace, Advance, Busy, Preparing, SettingUp, Placed
  <2>2. \A h \in Handlers : CanRun(h) => stopRequested'[h]
    BY <1>1, <1>6, <2>1, StopTakes DEF Replace
  <2>3. /\ \A t \in Threads : Busy(t)' => Busy(t)
        /\ \A h \in Handlers : CanRun(h)' => CanRun(h)
        /\ UNCHANGED <<alive, stopping, svc, management>>
    BY <1>2, <1>6 DEF Replace, Advance
  <2>4. QED
    BY <2>2, <2>3 DEF OrderInv, NoOrphan
<1>7. CASE Install(c)
  <2>1. /\ Busy(c) /\ alive # 0 /\ svc[c] = alive /\ alive \in Instances
        /\ \A h \in Handlers : CanRun(h) => stopRequested[h]
    BY <1>1, <1>7 DEF Install, Advance, Busy, Preparing, OrderInv, Placed
  <2>2. /\ core' = [core EXCEPT ![c] = "new"]
        /\ management' = [management EXCEPT ![alive] = c]
        /\ runner' = [runner EXCEPT ![c] = "born"]
        /\ connector' = [connector EXCEPT ![c] = "done"]
        /\ UNCHANGED <<disconnector, target, stopRequested, alive, stopping, svc>>
    BY <1>7, <2>1 DEF Install, Advance, Create
  <2>3. \A t \in Threads : Busy(t)' => Busy(t)
    BY <2>1, <2>2 DEF Busy, Preparing, SettingUp, Disconnecting
  <2>4. ASSUME NEW h \in Handlers, h # c, CanRun(h)'
        PROVE  CanRun(h)
    <3>1. \A k \in Connects : k # c => ~SettingUp(k)
      BY <1>1, <2>1, ConnectsAssumption DEF OrderInv, Busy
    <3>2. QED
      BY <2>1, <2>2, <2>4, <3>1 DEF CanRun, Live, Running, SettingUp
  <2>5. NoOrphan'
    BY <2>1, <2>2, <2>4 DEF NoOrphan
  <2>6. QED
    BY <2>1, <2>2, <2>3, <2>5, <1>1, ConnectsAssumption DEF OrderInv, Busy, Preparing
<1>8. CASE ReadManagement(c)
  <2>1. /\ \A t \in Threads : Busy(t)' => Busy(t)
        /\ \A h \in Handlers : CanRun(h)' => CanRun(h)
    BY <1>8 DEF ReadManagement, serviceVars, Busy, Preparing, SettingUp, Disconnecting,
                CanRun, Live, Running
  <2>2. QED
    BY <1>8, <2>1, OrderKept DEF ReadManagement, serviceVars
<1>9. CASE ReportError(c)
  <2>1. Busy(c)
    BY <1>9 DEF ReportError, Busy, Preparing
  <2>2. /\ \A t \in Threads : Busy(t)' => Busy(t)
        /\ ~Busy(c)'
        /\ \A h \in Handlers : CanRun(h)' => CanRun(h)
    BY <1>9, ThreadsAssumption DEF ReportError, handlerVars, Busy, Preparing, SettingUp, Disconnecting,
                CanRun, Live, Running, Placed
  <2>3. \A t \in Threads : ~Busy(t)'
    BY <1>1, <2>1, <2>2 DEF OrderInv
  <2>4. NoOrphan'
    BY <1>9, <2>2 DEF ReportError, handlerVars, OrderInv, NoOrphan
  <2>5. QED
    BY <2>3, <2>4, ConnectsAssumption DEF OrderInv, Busy, Preparing
<1>10. QED
  BY <1>3, <1>4, <1>5, <1>6, <1>7, <1>8, <1>9 DEF ConnectorStep

LEMMA DisconnectorOrder ==
  ASSUME BaseInv, OrderInv, NEW d \in Disconnects, DisconnectorStep(d)
  PROVE  OrderInv'
<1> USE DEF BaseInv, TypeOK, HandlerTypeOK, ServiceTypeOK, Handlers
<1>1. d \in Threads /\ d \notin Connects
  BY ThreadsAssumption
<1>2. CASE DisconnectStop(d)
  <2>1. Busy(d)
    BY <1>2 DEF DisconnectStop, Busy, Disconnecting
  <2>2. \A h \in Handlers : CanRun(h) => stopRequested'[h]
    BY <1>1, <1>2, <2>1, StopTakes DEF DisconnectStop
  <2>3. /\ \A t \in Threads : Busy(t)' => Busy(t)
        /\ \A h \in Handlers : CanRun(h)' => CanRun(h)
        /\ UNCHANGED <<alive, stopping, svc, management, connector>>
    BY <1>2 DEF DisconnectStop, Busy, Preparing, SettingUp, Disconnecting,
                CanRun, Live, Running
  <2>4. QED
    BY <2>2, <2>3 DEF OrderInv, NoOrphan
<1>3. CASE DisconnectSelf(d)
  <2>1. Busy(d)
    BY <1>3 DEF DisconnectSelf, Busy, Disconnecting
  <2>2. /\ \A t \in Threads : Busy(t)' => Busy(t)
        /\ ~Busy(d)'
        /\ \A h \in Handlers : CanRun(h)' => CanRun(h)
    BY <1>1, <1>3 DEF DisconnectSelf, handlerVars, Busy, Preparing, SettingUp, Disconnecting,
                CanRun, Live, Running
  <2>3. \A t \in Threads : ~Busy(t)'
    BY <1>1, <2>1, <2>2 DEF OrderInv
  <2>4. NoOrphan'
    BY <1>3, <2>2 DEF DisconnectSelf, handlerVars, OrderInv, NoOrphan
  <2>5. QED
    BY <2>3, <2>4, ConnectsAssumption DEF OrderInv, Busy, Preparing
<1>4. QED
  BY <1>2, <1>3 DEF DisconnectorStep

(* onDestroy finds no thread at work, and stops the session there is; a    *)
(* death leaves nothing to stop; a restart comes when there is no instance. *)
LEMMA SystemOrder ==
  ASSUME BaseInv, OrderInv, OnDestroy \/ ProcessDeath \/ StickyRestart
  PROVE  OrderInv'
<1> USE DEF BaseInv, TypeOK, HandlerTypeOK, ServiceTypeOK, Handlers
<1>1. CASE OnDestroy
  <2>1. \A t \in Threads : ~Busy(t)
    BY <1>1 DEF OnDestroy, OrderInv
  <2>2. /\ \A t \in Threads : ~Busy(t)'
        /\ \A h \in Handlers : CanRun(h)' => CanRun(h)
    BY <1>1, <2>1 DEF OnDestroy, Busy, Preparing, SettingUp, Disconnecting,
                      CanRun, Live, Running
  <2>3. ASSUME NEW h \in Handlers, CanRun(h)
        PROVE  stopRequested'[h]
    <3>1. core[h] # "new"
      BY <2>1, <2>3, ConnectsAssumption DEF CanRun, Busy, SettingUp, Live, Running
    <3>2. stopRequested[h] \/ (management[alive] = h /\ h # 0)
      BY <2>3, ConnectsAssumption DEF OrderInv, NoOrphan
    <3>3. QED
      BY <1>1, <3>1, <3>2 DEF OnDestroy, Stopped
  <2>4. QED
    BY <2>2, <2>3, ConnectsAssumption DEF OrderInv, NoOrphan, Busy, Preparing
<1>2. CASE ProcessDeath
  <2>1. \A t \in Threads : ~Busy(t)'
    BY <1>2 DEF ProcessDeath, HandlersDie, Busy, Preparing, SettingUp, Disconnecting
  <2>2. \A h \in Handlers : ~CanRun(h)'
    BY <1>2 DEF ProcessDeath, HandlersDie, CanRun, Live, Running
  <2>3. QED
    BY <2>1, <2>2, ConnectsAssumption DEF OrderInv, NoOrphan, Busy, Preparing
<1>3. CASE StickyRestart
  <2>1. \A t \in Threads : ~Busy(t)
    BY <1>3 DEF StickyRestart, OrderInv
  <2>2. /\ \A t \in Threads : ~Busy(t)'
        /\ \A h \in Handlers : CanRun(h)' => CanRun(h)
    BY <1>3, <2>1 DEF StickyRestart, handlerVars, Busy, Preparing, SettingUp, Disconnecting,
                      CanRun, Live, Running
  <2>3. NoOrphan'
    BY <1>3, <2>2 DEF StickyRestart, handlerVars, OrderInv, NoOrphan
  <2>4. QED
    BY <2>2, <2>3, ConnectsAssumption DEF OrderInv, Busy, Preparing
<1>4. QED
  BY <1>1, <1>2, <1>3

LEMMA NextOrder ==
  ASSUME Environment # "hasty", BaseInv, OrderInv, [Next]_vars
  PROVE  OrderInv'
<1>1. ASSUME UNCHANGED <<handlerVars, serviceVars>>
      PROVE  OrderInv'
  BY <1>1
  DEF handlerVars, serviceVars, OrderInv, NoOrphan, CanRun, Live, Running, Busy, Preparing,
      SettingUp, Disconnecting
<1>2. ASSUME NEW c \in Connects, RunnerStep(c), UNCHANGED serviceVars
      PROVE  OrderInv'
  BY <1>2, RunnerShrinks, RunnerFrame, OrderKept DEF serviceVars
<1>3. CASE ThreadStep
  BY <1>1, <1>2, <1>3, ConnectorOrder, DisconnectorOrder DEF ThreadStep, ThreadNotifies
<1>4. CASE UNCHANGED vars
  BY <1>1, <1>4 DEF vars
<1>5. QED
  BY <1>3, <1>4, CommandOrder, SystemOrder DEF Next

(* When the commands come one at a time, no session escapes the field that *)
(* everybody who may have to stop it will look at (PolarVpnService 126,    *)
(* 250, 285).                                                              *)
THEOREM NoSessionEscapes ==
  ASSUME Environment # "hasty"
  PROVE  Spec => []NoOrphan
<1>1. Init => BaseInv /\ OrderInv
  BY InitBase, InitOrder
<1>2. BaseInv /\ OrderInv /\ [Next]_vars => (BaseInv /\ OrderInv)'
  BY NextBase, NextOrder
<1>3. BaseInv /\ OrderInv => NoOrphan
  BY DEF OrderInv
<1>4. QED
  BY <1>1, <1>2, <1>3, PTL DEF Spec
-----------------------------------------------------------------------------
(* OwnRequest, for commands that come one at a time.                       *)

(* From the moment the configuration of c is published until its runner    *)
(* has read it, and from the assignment of the handler until the runner    *)
(* has read that, both fields are those of c.                              *)
Request(c) ==
  /\ connector[c] \in {"assign", "replace", "install"} => mConfig = c
  /\ runner[c] = "born" => management[svc[c]] = c /\ mConfig = c
  /\ runner[c] = "config" => target[c] = c /\ mConfig = c
  /\ runner[c] \in {"connect", "loop"} => target[c] = c /\ usedConfig[c] = c

Requests == \A c \in Connects : Request(c)

(* Where nothing of it is read or written, nothing changes. *)
LEMMA RequestKept ==
  ASSUME NEW c \in Connects, Request(c),
         UNCHANGED <<mConfig, target, usedConfig, management>>,
         \/ connector'[c] = connector[c]
         \/ connector'[c] \notin {"assign", "replace", "install"},
         \/ runner'[c] = runner[c]
         \/ runner'[c] \notin {"born", "config", "connect", "loop"},
         runner[c] = "born" => svc'[c] = svc[c]
  PROVE  Request(c)'
  BY DEF Request

(* The steps of another thread at work: this one is not. *)
LEMMA RequestOfOther ==
  ASSUME OrderInv, NEW c \in Connects, NEW k \in Connects, k # c, Request(k),
         Busy(c), connector'[k] = connector[k], runner'[k] = runner[k],
         target'[k] = target[k], usedConfig'[k] = usedConfig[k]
  PROVE  Request(k)'
<1>1. ~Busy(k)
  BY ConnectsAssumption DEF OrderInv
<1>2. ~Preparing(k) /\ ~SettingUp(k)
  BY <1>1 DEF Busy
<1> QED
  BY <1>2 DEF Request, Preparing, SettingUp

LEMMA ConnectorRequest ==
  ASSUME BaseInv, OrderInv, Requests, NEW c \in Connects, ConnectorStep(c)
  PROVE  Requests'
<1> USE DEF BaseInv, TypeOK, HandlerTypeOK, ServiceTypeOK, Handlers
<1>1. CASE ReportError(c)
  BY <1>1, RequestKept DEF ReportError, handlerVars, Requests
<1>2. CASE ~ReportError(c)
  <2>1. Busy(c)
    BY <1>2 DEF ConnectorStep, PrepareConnection, PublishConfig, InitConfig, Replace,
                InstallThrows, Install, ReadManagement, Advance, Busy, Preparing, SettingUp
  <2>2. ASSUME NEW k \in Connects, k # c
        PROVE  Request(k)'
    <3>1. /\ connector'[k] = connector[k] /\ runner'[k] = runner[k]
          /\ target'[k] = target[k] /\ usedConfig'[k] = usedConfig[k]
      BY <1>2, <2>2 DEF ConnectorStep, PrepareConnection, PublishConfig, InitConfig,
                Replace, InstallThrows, Install, ReadManagement, Advance, handlerVars, serviceVars
    <3> QED
      BY <2>1, <2>2, <3>1, RequestOfOther DEF Requests
  <2>3. Request(c)'
    <3>1. connector[c] # "done" => runner[c] = "none"
      BY DEF Placed
    <3>2. CASE PrepareConnection(c) \/ InstallThrows(c)
      BY <3>1, <3>2 DEF PrepareConnection, InstallThrows, Advance, handlerVars, Request
    <3>3. CASE PublishConfig(c)
      BY <3>1, <3>3 DEF PublishConfig, Advance, Request
    <3>4. CASE InitConfig(c)
      BY <3>1, <3>4 DEF InitConfig, Advance, Request
    <3>5. CASE Replace(c)
      BY <3>1, <3>5 DEF Replace, Advance, Request, Requests
    <3>6. CASE Install(c)
      <4>1. svc[c] \in Instances
        BY <3>6 DEF Install, Advance, Placed
      <4> QED
        BY <3>6, <4>1 DEF Install, Advance, Request, Requests
    <3>7. CASE ReadManagement(c)
      BY <3>7 DEF ReadManagement, serviceVars, Request, Requests
    <3> QED
      BY <1>2, <3>2, <3>3, <3>4, <3>5, <3>6, <3>7 DEF ConnectorStep
  <2> QED
    BY <2>2, <2>3 DEF Requests
<1> QED
  BY <1>1, <1>2

LEMMA RunnerRequest ==
  ASSUME BaseInv, Requests, NEW c \in Connects, RunnerStep(c), UNCHANGED serviceVars
  PROVE  Requests'
<1> USE DEF BaseInv, TypeOK, HandlerTypeOK
<1>1. CASE EvalConfig(c)
  BY <1>1 DEF EvalConfig, Requests, Request, serviceVars
<1>2. CASE ~EvalConfig(c)
  <2>1. /\ target' = target /\ mConfig' = mConfig
        /\ \A k \in Connects : k # c => runner'[k] = runner[k]
    BY RunnerFrame
  <2>2. /\ usedConfig' = usedConfig
        /\ \/ runner'[c] = runner[c]
           \/ runner[c] = "connect" /\ runner'[c] = "loop"
           \/ runner'[c] \notin {"born", "config", "connect", "loop"}
    BY <1>2 DEF RunnerStep, CoreConnect, CoreRefuse, ConnectReturns, PollerExit,
                CoreEvent, CoreAttempt, CoreConnected, CoreReconnecting, CoreExit, Emit
  <2> QED
    BY <2>1, <2>2 DEF Requests, Request, serviceVars
<1> QED
  BY <1>1, <1>2

LEMMA CommandRequest ==
  ASSUME BaseInv, Requests, Command
  PROVE  Requests'
<1>1. UNCHANGED <<handlerVars, management>>
  BY DEF Command, StartConnect, StartDisconnect, OnRevoke, UpdateLogging, Disconnect
<1>2. ASSUME NEW c \in Connects
      PROVE  /\ \/ connector'[c] = connector[c]
                \/ connector'[c] \notin {"assign", "replace", "install"}
             /\ runner[c] = "born" => svc'[c] = svc[c]
  BY ThreadsAssumption
  DEF Command, StartConnect, StartDisconnect, OnRevoke, UpdateLogging, Disconnect,
      BaseInv, Placed, TypeOK, ServiceTypeOK
<1> QED
  BY <1>1, <1>2, RequestKept DEF handlerVars, Requests

LEMMA NextRequest ==
  ASSUME BaseInv, OrderInv, Requests, [Next]_vars
  PROVE  Requests'
<1> USE DEF Requests
<1>1. ASSUME UNCHANGED <<mConfig, runner, target, usedConfig, connector, svc, management>>
      PROVE  Requests'
  BY <1>1, RequestKept
<1>2. CASE UNCHANGED vars
  BY <1>1, <1>2 DEF vars, handlerVars, serviceVars
<1>3. CASE ThreadStep
  <2>1. ASSUME NEW d \in Disconnects, DisconnectorStep(d)
        PROVE  Requests'
    BY <1>1, <2>1 DEF DisconnectorStep, DisconnectStop, DisconnectSelf, handlerVars
  <2>2. ASSUME NEW t \in Threads, ThreadNotifies(t)
        PROVE  Requests'
    BY <1>1, <2>2 DEF ThreadNotifies, handlerVars, serviceVars
  <2> QED
    BY <1>3, <2>1, <2>2, ConnectorRequest, RunnerRequest DEF ThreadStep
<1>4. CASE OnDestroy
  BY <1>1, <1>4 DEF OnDestroy
<1>5. CASE ProcessDeath
  BY <1>5 DEF ProcessDeath, HandlersDie, Preparing, Request
<1>6. CASE StickyRestart
  BY <1>1, <1>6 DEF StickyRestart, handlerVars
<1> QED
  BY <1>2, <1>3, <1>4, <1>5, <1>6, CommandRequest DEF Next

(* When the commands come one at a time, a session runs on the handler and *)
(* with the configuration of its own request, though its runner reads both *)
(* from shared fields (PolarVpnService 261, ManagementHandler 68).         *)
THEOREM SessionsRunOwnRequest ==
  ASSUME Environment # "hasty"
  PROVE  Spec => []OwnRequest
<1>1. Init => BaseInv /\ OrderInv /\ Requests
  <2>1. Init => Requests
    BY DEF Init, HandlerInit, ServiceInit, Requests, Request
  <2> QED
    BY <2>1, InitBase, InitOrder
<1>2. BaseInv /\ OrderInv /\ Requests /\ [Next]_vars => (BaseInv /\ OrderInv /\ Requests)'
  BY NextBase, NextOrder, NextRequest
<1>3. Requests => OwnRequest
  BY DEF Requests, Request, OwnRequest
<1>4. QED
  BY <1>1, <1>2, <1>3, PTL DEF Spec
-----------------------------------------------------------------------------
(* OfflineAtRest, for every environment.                                   *)

(* A native client has at most one loop, and a loop belongs to a session   *)
(* that has an end to come.                                                *)
OneLoop ==
  \A c \in Connects : runner[c] = "loop" =>
    /\ Live(target[c])
    /\ \A k \in Connects : runner[k] = "loop" /\ target[k] = target[c] => k = c

(* Runner c has yet to be told of the end of its session. *)
WillExit(c) == runner[c] = "loop" /\ Running(target[c])

(* All that t has left to report says that the VPN is off. *)
SigningOff(t) ==
  Reporting(t) /\ \A k \in 1..Len(pending[t]) : pending[t][k] \in OfflineStatus

(* Only the runner of a session that goes on reports that it does, and as  *)
(* long as the field says so somebody has the field still to overwrite.    *)
OfflineInv ==
  /\ OneLoop
  /\ \A d \in Disconnects : disconnector[d] = "none" => ~Reporting(d)
  /\ \A t \in Threads : Reporting(t) => SigningOff(t) \/ (t \in Connects /\ WillExit(t))
  /\ sCurrentConnectionStatus \notin OfflineStatus =>
       \/ \E c \in Connects : WillExit(c)
       \/ \E t \in Threads :
            SigningOff(t) /\ (notify[t] # "send" \/ Tail(pending[t]) # <<>>)

LEMMA InitOffline == Init => OfflineInv
<1>1. ASSUME Init PROVE \A t \in Threads : ~Reporting(t)
  BY <1>1 DEF Init, ReporterInit, Reporting
<1>2. Init => OneLoop
  BY DEF Init, HandlerInit, OneLoop
<1>3. Init => sCurrentConnectionStatus \in OfflineStatus
  BY DEF Init, ReporterInit, OfflineStatus
<1>4. QED
  BY <1>1, <1>2, <1>3, ThreadsAssumption DEF OfflineInv

(* What keeps the invariant: the reporter left alone, and the loops.       *)
LEMMA OfflineKept ==
  ASSUME OfflineInv, OneLoop',
         UNCHANGED reporterVars,
         \A c \in Connects : WillExit(c) => WillExit(c)',
         \A d \in Disconnects : disconnector'[d] = "none" => disconnector[d] = "none"
  PROVE  OfflineInv'
<1>1. \A t \in Threads :
        /\ Reporting(t)' <=> Reporting(t)
        /\ SigningOff(t)' <=> SigningOff(t)
        /\ notify'[t] = notify[t] /\ pending'[t] = pending[t]
  BY DEF reporterVars, Reporting, SigningOff
<1>2. \A t \in Threads : Reporting(t)' => SigningOff(t)' \/ (t \in Connects /\ WillExit(t)')
  BY <1>1 DEF OfflineInv
<1>3. \A d \in Disconnects : disconnector'[d] = "none" => ~Reporting(d)'
  BY <1>1, ThreadsAssumption DEF OfflineInv
<1>4. sCurrentConnectionStatus' = sCurrentConnectionStatus
  BY DEF reporterVars
<1>5. QED
  BY <1>1, <1>2, <1>3, <1>4 DEF OfflineInv

(* A report: the status it records is an offline one, or that of a session *)
(* whose end is to come.                                                   *)
LEMMA NotifyOffline ==
  ASSUME TypeOK, OfflineInv, NEW t \in Threads, Notify(t),
         UNCHANGED <<handlerVars, serviceVars>>
  PROVE  OfflineInv'
<1> USE DEF TypeOK, ReporterTypeOK
<1>1. OneLoop' /\ \A c \in Connects : WillExit(c)' <=> WillExit(c)
  BY DEF OfflineInv, OneLoop, WillExit, Live, Running, handlerVars
<1>2. \A u \in Threads : u # t =>
        /\ pending'[u] = pending[u] /\ notify'[u] = notify[u]
        /\ Reporting(u)' <=> Reporting(u)
        /\ SigningOff(u)' <=> SigningOff(u)
  <2>1. \A u \in Threads : u # t => pending'[u] = pending[u] /\ notify'[u] = notify[u]
    BY DEF Notify, NotifySkip, NotifyPass, NotifySet, NotifySend
  <2>2. QED
    BY <2>1 DEF Reporting, SigningOff
<1>3. Reporting(t) /\ pending[t] \in Seq(Status)
  BY DEF Notify, NotifySkip, NotifyPass, NotifySet, NotifySend
<1>4. SigningOff(t) => Head(pending[t]) \in OfflineStatus
  BY <1>3 DEF SigningOff, Reporting
<1>5. pending'[t] = pending[t] \/ pending'[t] = Tail(pending[t])
  BY DEF Notify, NotifySkip, NotifyPass, NotifySet, NotifySend
<1>6. SigningOff(t) /\ Reporting(t)' => SigningOff(t)'
  <2>1. SUFFICES ASSUME SigningOff(t), pending'[t] = Tail(pending[t]), Reporting(t)'
                 PROVE  SigningOff(t)'
    BY <1>5 DEF SigningOff, Reporting
  <2>2. ASSUME NEW k \in 1..Len(Tail(pending[t]))
        PROVE  Tail(pending[t])[k] \in OfflineStatus
    <3>1. k + 1 \in 1..Len(pending[t]) /\ Tail(pending[t])[k] = pending[t][k + 1]
      BY <1>3 DEF Reporting
    <3>2. QED
      BY <2>1, <3>1 DEF SigningOff
  <2>3. QED
    BY <2>1, <2>2 DEF SigningOff
<1>7. \A u \in Threads : Reporting(u)' => SigningOff(u)' \/ (u \in Connects /\ WillExit(u)')
  <2>1. Reporting(t)' => SigningOff(t)' \/ (t \in Connects /\ WillExit(t)')
    BY <1>1, <1>3, <1>6 DEF OfflineInv
  <2>2. QED
    BY <1>1, <1>2, <2>1 DEF OfflineInv
<1>8. \A d \in Disconnects : disconnector'[d] = "none" => ~Reporting(d)'
  BY <1>2, <1>3, ThreadsAssumption DEF OfflineInv, serviceVars
<1> DEFINE Waits(u) == SigningOff(u) /\ (notify[u] # "send" \/ Tail(pending[u]) # <<>>)
<1> DEFINE Told == sCurrentConnectionStatus \notin OfflineStatus =>
                     (\E c \in Connects : WillExit(c)) \/ \E u \in Threads : Waits(u)
<1>9. Told'
  <2>1. \A u \in Threads : u # t => (Waits(u)' <=> Waits(u))
    BY <1>2
  <2>2. Told
    BY DEF OfflineInv
  <2>3. CASE NotifySkip(t)
    <3>1. sCurrentConnectionStatus \notin OfflineStatus => ~SigningOff(t)
      BY <1>4, <2>3 DEF NotifySkip, Differs
    <3>2. sCurrentConnectionStatus' = sCurrentConnectionStatus
      BY <2>3 DEF NotifySkip
    <3>3. QED
      BY <1>1, <2>1, <2>2, <3>1, <3>2
  <2>4. CASE NotifyPass(t)
    <3>1. Waits(t) => Waits(t)'
      BY <2>4 DEF NotifyPass, SigningOff, Reporting
    <3>2. QED
      BY <1>1, <2>1, <2>2, <2>4, <3>1 DEF NotifyPass
  <2>5. CASE NotifySet(t)
    <3>1. sCurrentConnectionStatus' = Head(pending[t])
      BY <2>5 DEF NotifySet
    <3>2. SigningOff(t) \/ (t \in Connects /\ WillExit(t))
      BY <1>3 DEF OfflineInv
    <3>3. QED
      BY <1>1, <1>4, <3>1, <3>2
  <2>6. CASE NotifySend(t)
    <3>1. notify'[t] = "idle" /\ pending'[t] = Tail(pending[t])
          /\ sCurrentConnectionStatus' = sCurrentConnectionStatus
      BY <2>6 DEF NotifySend
    <3>2. Waits(t) => Tail(pending[t]) # <<>>
      BY <2>6 DEF NotifySend
    <3>3. Tail(pending[t]) # <<>> => Reporting(t)'
      BY <3>1 DEF Reporting
    <3>4. Waits(t) => Waits(t)'
      BY <1>6, <3>1, <3>2, <3>3
    <3>5. QED
      BY <1>1, <2>1, <2>2, <3>1, <3>4
  <2>7. QED
    BY <2>3, <2>4, <2>5, <2>6 DEF Notify
<1>10. QED
  BY <1>1, <1>7, <1>8, <1>9 DEF OfflineInv

(* An event that keeps the session going is reported by its own runner.    *)
LEMMA OngoingOffline ==
  ASSUME BaseInv, OfflineInv, NEW c \in Connects, UNCHANGED serviceVars,
         NEW state \in {"connecting", "connected", "reconnecting"}, NEW name, NEW a,
         Emit(c, state, name, a)
  PROVE  OfflineInv'
<1> USE DEF BaseInv, TypeOK, HandlerTypeOK, ReporterTypeOK, Handlers
<1>1. \A k \in Connects : (WillExit(k) => WillExit(k)') /\ WillExit(c)'
  BY DEF Emit, WillExit, Running, OfflineInv, OneLoop, RunnerHasHandler
<1>2. OneLoop'
  BY DEF Emit, OneLoop, Live, Running, OfflineInv, RunnerHasHandler
<1>3. \A u \in Threads : u # c => pending'[u] = pending[u] /\ notify'[u] = notify[u]
  BY DEF Emit
<1>4. \A u \in Threads : u # c =>
        /\ Reporting(u)' <=> Reporting(u)
        /\ SigningOff(u)' <=> SigningOff(u)
  BY <1>3 DEF Reporting, SigningOff
<1>5. \A u \in Threads : Reporting(u)' => SigningOff(u)' \/ (u \in Connects /\ WillExit(u)')
  BY <1>1, <1>4 DEF OfflineInv
<1>6. \A d \in Disconnects : disconnector'[d] = "none" => ~Reporting(d)'
  BY <1>4, ThreadsAssumption DEF OfflineInv, serviceVars
<1>7. QED
  BY <1>1, <1>2, <1>5, <1>6 DEF OfflineInv

(* The event at the end leaves its runner signing off.                     *)
LEMMA ExitOffline ==
  ASSUME BaseInv, OfflineInv, NEW c \in Connects, CoreExit(c), UNCHANGED serviceVars
  PROVE  OfflineInv'
<1> USE DEF BaseInv, TypeOK, HandlerTypeOK, ReporterTypeOK, Handlers
<1>1. PICK a \in BOOLEAN : Emit(c, "exiting", "EXITING", a)
  BY DEF CoreExit
<1>2. c \in Threads /\ notify[c] = "idle" /\ notify' = notify
  BY <1>1, ConnectsAssumption DEF Emit
<1>3. /\ runner' = runner /\ target' = target /\ runner[c] = "loop"
      /\ core' = [core EXCEPT ![target[c]] = "exiting"]
      /\ pending' = [pending EXCEPT ![c] = EventStatuses("EXITING", a)]
  BY <1>1 DEF Emit
<1>4. \A k \in Connects : k # c => (WillExit(k) => WillExit(k)')
  BY <1>3 DEF WillExit, Running, OfflineInv, OneLoop
<1>5. OneLoop'
  BY <1>3 DEF OneLoop, Live, Running, OfflineInv, RunnerHasHandler
<1>6. \A u \in Threads : u # c => pending'[u] = pending[u] /\ notify'[u] = notify[u]
  BY <1>2, <1>3
<1>7. \A u \in Threads : u # c =>
        /\ Reporting(u)' <=> Reporting(u)
        /\ SigningOff(u)' <=> SigningOff(u)
  BY <1>6 DEF Reporting, SigningOff
<1>8. SigningOff(c)'
  <2>1. pending'[c] = EventStatuses("EXITING", a)
    BY <1>2, <1>3
  <2>2. \/ pending'[c] = <<"AUTHENTICATION_FAILURE", "DISCONNECTED">>
        \/ pending'[c] = <<"DISCONNECTED">>
    BY <2>1, EventStatusesValue
  <2>3. CASE pending'[c] = <<"AUTHENTICATION_FAILURE", "DISCONNECTED">>
    <3>1. /\ pending'[c] # <<>> /\ Len(pending'[c]) = 2
          /\ pending'[c][1] \in OfflineStatus /\ pending'[c][2] \in OfflineStatus
      BY <2>3 DEF OfflineStatus
    <3>2. \A k \in 1..2 : k = 1 \/ k = 2
      OBVIOUS
    <3>3. QED
      BY <3>1, <3>2 DEF SigningOff, Reporting
  <2>4. CASE pending'[c] = <<"DISCONNECTED">>
    <3>1. /\ pending'[c] # <<>> /\ Len(pending'[c]) = 1
          /\ pending'[c][1] \in OfflineStatus
      BY <2>4 DEF OfflineStatus
    <3>2. QED
      BY <3>1 DEF SigningOff, Reporting
  <2>5. QED
    BY <2>2, <2>3, <2>4
<1>9. \A u \in Threads : Reporting(u)' => SigningOff(u)' \/ (u \in Connects /\ WillExit(u)')
  BY <1>4, <1>7, <1>8 DEF OfflineInv
<1>10. \A d \in Disconnects : disconnector'[d] = "none" => ~Reporting(d)'
  BY <1>7, ThreadsAssumption DEF OfflineInv, serviceVars
<1>11. \E u \in Threads : SigningOff(u)' /\ (notify'[u] # "send" \/ Tail(pending'[u]) # <<>>)
  BY <1>2, <1>8
<1>12. QED
  BY <1>5, <1>9, <1>10, <1>11 DEF OfflineInv

LEMMA RunnerOffline ==
  ASSUME BaseInv, OfflineInv, NEW c \in Connects, RunnerStep(c), UNCHANGED serviceVars
  PROVE  OfflineInv'
<1> USE DEF BaseInv, TypeOK, HandlerTypeOK, Handlers
<1> USE DEF OneLoop, WillExit, Live, Running
<1>1. ASSUME UNCHANGED reporterVars, OneLoop',
             \A k \in Connects : WillExit(k) => WillExit(k)'
      PROVE  OfflineInv'
  BY <1>1, OfflineKept DEF serviceVars
<1>2. OneLoop
  BY DEF OfflineInv
<1>3. CASE EvalConfig(c)
  BY <1>1, <1>2, <1>3 DEF EvalConfig
<1>4. CASE CoreConnect(c)
  <2>1. \A k \in Connects : WillExit(k) => WillExit(k)'
    BY <1>2, <1>4 DEF CoreConnect
  <2>2. OneLoop'
    <3>1. target[c] \in Handlers
      BY <1>4 DEF CoreConnect, RunnerHasHandler
    <3>2. \A k \in Connects : runner[k] = "loop" => target[k] # target[c]
      BY <1>2, <1>4 DEF CoreConnect
    <3>3. QED
      BY <1>2, <1>4, <3>1, <3>2 DEF CoreConnect
  <2>3. QED
    BY <1>1, <1>4, <2>1, <2>2 DEF CoreConnect
<1>5. CASE CoreRefuse(c)
  <2>1. \A k \in Connects : WillExit(k) => WillExit(k)'
    BY <1>2, <1>5 DEF CoreRefuse
  <2>2. OneLoop'
    BY <1>2, <1>5 DEF CoreRefuse
  <2>3. QED
    BY <1>1, <1>5, <2>1, <2>2 DEF CoreRefuse
<1>6. CASE ConnectReturns(c)
  <2>1. \A k \in Connects : WillExit(k) => WillExit(k)'
    BY <1>2, <1>6 DEF ConnectReturns
  <2>2. OneLoop'
    BY <1>2, <1>6 DEF ConnectReturns
  <2>3. QED
    BY <1>1, <1>6, <2>1, <2>2 DEF ConnectReturns
<1>7. CASE PollerExit(c)
  BY <1>1, <1>2, <1>7 DEF PollerExit
<1>8. CASE CoreEvent(c)
  <2>1. CASE CoreAttempt(c)
    BY <2>1, OngoingOffline DEF CoreAttempt
  <2>2. CASE CoreConnected(c)
    BY <2>2, OngoingOffline DEF CoreConnected
  <2>3. CASE CoreReconnecting(c)
    BY <2>3, OngoingOffline DEF CoreReconnecting
  <2>4. QED
    BY <1>8, <2>1, <2>2, <2>3, ExitOffline DEF CoreEvent
<1>9. QED
  BY <1>3, <1>4, <1>5, <1>6, <1>7, <1>8 DEF RunnerStep

(* A new report that signs off adds to those there are.                    *)
LEMMA DisconnectOffline ==
  ASSUME OfflineInv, NEW d \in Disconnects, NEW i,
         NEW status \in OfflineStatus, Disconnect(d, i, status), TypeOK
  PROVE  OfflineInv'
<1>1. d \in Threads /\ ~Reporting(d)
  BY ThreadsAssumption DEF OfflineInv, Disconnect
<1>2. /\ pending' = [pending EXCEPT ![d] = <<status>>]
      /\ UNCHANGED <<sCurrentConnectionStatus, notify, handlerVars>>
      /\ disconnector' = [disconnector EXCEPT ![d] = "stop"]
  BY DEF Disconnect
<1>3. OneLoop' /\ \A c \in Connects : WillExit(c)' <=> WillExit(c)
  BY <1>2 DEF OfflineInv, OneLoop, WillExit, Live, Running, handlerVars
<1>4. SigningOff(d)'
  BY <1>1, <1>2 DEF SigningOff, Reporting, TypeOK, ReporterTypeOK
<1>5. \A u \in Threads : u # d => pending'[u] = pending[u]
  BY <1>2 DEF TypeOK, ReporterTypeOK
<1>6. \A u \in Threads : u # d =>
        /\ Reporting(u)' <=> Reporting(u)
        /\ SigningOff(u)' <=> SigningOff(u)
  BY <1>5 DEF Reporting, SigningOff
<1>7. \A u \in Threads : SigningOff(u) => u # d
  BY <1>1 DEF SigningOff
<1>8. \A u \in Threads : Reporting(u)' => SigningOff(u)' \/ (u \in Connects /\ WillExit(u)')
  BY <1>3, <1>4, <1>6 DEF OfflineInv
<1>9. \A e \in Disconnects : disconnector'[e] = "none" => ~Reporting(e)'
  BY <1>2, <1>6, ThreadsAssumption DEF OfflineInv, TypeOK, ServiceTypeOK
<1>10. (\E u \in Threads : SigningOff(u) /\ (notify[u] # "send" \/ Tail(pending[u]) # <<>>))
        => \E u \in Threads : SigningOff(u)' /\ (notify'[u] # "send" \/ Tail(pending'[u]) # <<>>)
  BY <1>2, <1>5, <1>6, <1>7
<1>11. QED
  BY <1>2, <1>3, <1>8, <1>9, <1>10 DEF OfflineInv

LEMMA NextOffline ==
  ASSUME BaseInv, OfflineInv, [Next]_vars
  PROVE  OfflineInv'
<1> USE DEF BaseInv, Handlers
<1>1. ASSUME UNCHANGED reporterVars,
             \A k \in Connects : runner[k] = "loop" =>
               runner'[k] = "loop" /\ target'[k] = target[k] /\ core'[target[k]] = core[target[k]],
             \A k \in Connects : runner'[k] = "loop" => runner[k] = "loop",
             \A d \in Disconnects : disconnector'[d] = "none" => disconnector[d] = "none"
      PROVE  OfflineInv'
  <2>1. OneLoop'
    BY <1>1 DEF OfflineInv, OneLoop, Live, Running
  <2>2. \A k \in Connects : WillExit(k) => WillExit(k)'
    BY <1>1 DEF WillExit, Running
  <2>3. QED
    BY <1>1, <2>1, <2>2, OfflineKept
<1>2. ASSUME UNCHANGED <<reporterVars, handlerVars>>,
             \A d \in Disconnects : disconnector'[d] = "none" => disconnector[d] = "none"
      PROVE  OfflineInv'
  BY <1>1, <1>2 DEF handlerVars
<1>3. ASSUME NEW c \in Connects, ConnectorStep(c)
      PROVE  OfflineInv'
  <2>1. OneLoop /\ HandlerTypeOK
    BY DEF OfflineInv, TypeOK
  <2>2. CASE PrepareConnection(c) \/ InstallThrows(c)
    BY <1>2, <2>2 DEF PrepareConnection, InstallThrows, Advance
  <2>3. CASE PublishConfig(c)
    BY <1>1, <2>3 DEF PublishConfig, Advance
  <2>4. CASE InitConfig(c)
    BY <1>1, <2>4 DEF InitConfig, Advance
  <2>5. CASE Replace(c)
    BY <1>1, <2>5 DEF Replace, Advance
  <2>6. CASE Install(c)
    <3>1. \A k \in Connects : runner[k] = "loop" => target[k] # c
      BY <2>1, <2>6 DEF Install, Advance, Placed, OneLoop, Live, Running
    <3>2. QED
      BY <1>1, <2>1, <2>6, <3>1 DEF Install, Advance, Create, HandlerTypeOK, Placed
  <2>7. CASE ReadManagement(c)
    BY <1>1, <2>1, <2>7 DEF ReadManagement, serviceVars, HandlerTypeOK
  <2>8. CASE ReportError(c)
    BY <1>2, <2>8 DEF ReportError
  <2>9. QED
    BY <1>3, <2>2, <2>3, <2>4, <2>5, <2>6, <2>7, <2>8 DEF ConnectorStep
<1>4. ASSUME NEW d \in Disconnects, DisconnectorStep(d)
      PROVE  OfflineInv'
  <2>1. \A e \in Disconnects : disconnector'[e] = "none" => disconnector[e] = "none"
    BY <1>4 DEF DisconnectorStep, DisconnectStop, DisconnectSelf, TypeOK, ServiceTypeOK
  <2>2. CASE DisconnectStop(d)
    BY <1>1, <2>1, <2>2 DEF DisconnectStop
  <2>3. CASE DisconnectSelf(d)
    BY <1>2, <2>1, <2>3 DEF DisconnectSelf
  <2>4. QED
    BY <1>4, <2>2, <2>3 DEF DisconnectorStep
<1>5. CASE ThreadStep
  BY <1>3, <1>4, <1>5, RunnerOffline, NotifyOffline DEF ThreadStep, ThreadNotifies
<1>6. CASE Command
  <2>1. "DISCONNECTED" \in OfflineStatus /\ "PERMISSION_REVOKED" \in OfflineStatus
    BY DEF OfflineStatus
  <2>2. ASSUME NEW d \in Disconnects, StartDisconnect(d) \/ OnRevoke(d)
        PROVE  OfflineInv'
    BY <2>1, <2>2, DisconnectOffline DEF StartDisconnect, OnRevoke
  <2>3. QED
    BY <1>2, <1>6, <2>2 DEF Command, StartConnect, UpdateLogging
<1>7. CASE OnDestroy
  BY <1>1, <1>7 DEF OnDestroy
<1>8. CASE ProcessDeath
  <2>1. \A k \in Connects : runner'[k] # "loop"
    BY <1>8 DEF ProcessDeath, HandlersDie
  <2>2. \A t \in Threads : ~Reporting(t)'
    BY <1>8 DEF ProcessDeath, ReporterDies, Reporting
  <2>3. sCurrentConnectionStatus' \in OfflineStatus
    BY <1>8 DEF ProcessDeath, ReporterDies, OfflineStatus
  <2>4. QED
    BY <2>1, <2>2, <2>3, ThreadsAssumption DEF OfflineInv, OneLoop
<1>9. CASE StickyRestart
  BY <1>2, <1>9 DEF StickyRestart
<1>10. CASE UNCHANGED vars
  BY <1>2, <1>10 DEF vars, serviceVars
<1>11. QED
  BY <1>5, <1>6, <1>7, <1>8, <1>9, <1>10 DEF Next

(* Whatever the commands and however the threads race, the recorded status *)
(* is an offline one when no session is left and no report is under way    *)
(* (PolarVpnService 292-294 and 378-380).                                  *)
THEOREM OfflineWhenOver == Spec => []OfflineAtRest
<1>1. Init => BaseInv /\ OfflineInv
  BY InitBase, InitOffline
<1>2. BaseInv /\ OfflineInv /\ [Next]_vars => (BaseInv /\ OfflineInv)'
  BY NextBase, NextOffline
<1>3. BaseInv /\ OfflineInv => OfflineAtRest
  <2>1. ASSUME BaseInv, NEW c \in Connects, WillExit(c)
        PROVE  target[c] \in Handlers /\ Live(target[c])
    BY <2>1 DEF WillExit, Live, BaseInv, TypeOK, HandlerTypeOK, RunnerHasHandler, Handlers
  <2>2. QED
    BY <2>1 DEF OfflineInv, OfflineAtRest, SigningOff
<1>4. QED
  BY <1>1, <1>2, <1>3, PTL DEF Spec
-----------------------------------------------------------------------------
(* StatusTruth, for a client that waits and disconnects first.             *)

(* Connect c has a thread at work, a runner or a session. *)
Active(c) == Preparing(c) \/ SettingUp(c) \/ runner[c] = "loop"

(* The session that runner c is in has announced itself, and goes on. *)
GoesOn(c) ==
  /\ runner[c] = "loop"
  /\ ~stopRequested[target[c]]
  /\ core[target[c]] \in {"connecting", "connected", "reconnecting"}

(* Its state is the recorded status, or is about to be. *)
Recorded(c) ==
  IF Reporting(c)
  THEN /\ pending[c] = <<StatusOf(core[target[c]])>>
       /\ notify[c] = "send" => sCurrentConnectionStatus = StatusOf(core[target[c]])
  ELSE sCurrentConnectionStatus = StatusOf(core[target[c]])

OneActive == \A c, k \in Connects : Active(c) /\ Active(k) => c = k

LoopsReport == \A c \in Connects : Reporting(c) => runner[c] = "loop"

(* A disconnectThread reports once every session has been told to stop. *)
StopsTaken ==
  \A d \in Disconnects : disconnector[d] = "notify" =>
    \A h \in Handlers : CanRun(h) => stopRequested[h]

SessionsHaveLoop ==
  \A h \in Handlers : Live(h) => \E c \in Connects : runner[c] = "loop" /\ target[c] = h

AllRecorded == \A c \in Connects : GoesOn(c) => Recorded(c)

TruthInv == OneActive /\ LoopsReport /\ StopsTaken /\ SessionsHaveLoop /\ AllRecorded

(* The status of an announced session is one. *)
LEMMA StatusOfValue ==
  /\ StatusOf("connecting") = "CONNECTING"
  /\ StatusOf("connected") = "CONNECTED"
  /\ StatusOf("reconnecting") = "RECONNECTING"
  BY DEF StatusOf

LEMMA InitTruth == Init => TruthInv
<1> SUFFICES ASSUME Init PROVE TruthInv
  OBVIOUS
<1>1. \A c \in Connects : ~Active(c) /\ ~Reporting(c)
  BY ConnectsAssumption
  DEF Init, ReporterInit, HandlerInit, ServiceInit, Active, Preparing, SettingUp, Reporting
<1>2. \A h \in Handlers : ~Live(h)
  BY DEF Init, HandlerInit, Live, Running, Handlers
<1>3. \A d \in Disconnects : disconnector[d] # "notify"
  BY DEF Init, ServiceInit
<1>4. QED
  BY <1>1, <1>2, <1>3
  DEF TruthInv, OneActive, LoopsReport, StopsTaken, SessionsHaveLoop, AllRecorded,
      GoesOn, Active

(* What keeps it: the reports of the runners left alone, no new work, the  *)
(* same sessions, and no stop taken back.                                  *)
LEMMA TruthKept ==
  ASSUME TruthInv, BaseInv,
         \A c \in Connects : pending'[c] = pending[c] /\ notify'[c] = notify[c],
         UNCHANGED <<sCurrentConnectionStatus, target>>,
         \A c \in Connects : Active(c)' => Active(c),
         \A c \in Connects : runner'[c] = "loop" <=> runner[c] = "loop",
         \A h \in Handlers : Live(h) \/ Live(h)' => core'[h] = core[h],
         \A h \in Handlers : CanRun(h)' => CanRun(h),
         \A h \in Handlers : stopRequested[h] => stopRequested'[h],
         \A d \in Disconnects : disconnector'[d] = "notify" => disconnector[d] = "notify"
  PROVE  TruthInv'
<1> USE DEF TruthInv
<1>1. OneActive' /\ LoopsReport' /\ StopsTaken'
  BY DEF OneActive, LoopsReport, StopsTaken, Reporting
<1>2. SessionsHaveLoop'
  BY DEF SessionsHaveLoop, Live, Running
<1>3. ASSUME NEW c \in Connects, GoesOn(c)'
      PROVE  Recorded(c)'
  <2>1. runner[c] = "loop" /\ target[c] \in Handlers
    BY <1>3 DEF GoesOn, BaseInv, TypeOK, HandlerTypeOK, RunnerHasHandler, Handlers
  <2>2. Live(target[c])'
    BY <1>3 DEF GoesOn, Live, Running
  <2>3. core'[target[c]] = core[target[c]] /\ GoesOn(c)
    BY <1>3, <2>1, <2>2 DEF GoesOn
  <2>4. QED
    BY <2>3 DEF AllRecorded, Recorded, Reporting
<1>4. QED
  BY <1>1, <1>2, <1>3 DEF AllRecorded

(* A command: nothing is at work, and a connect finds no session.          *)
LEMMA CommandTruth ==
  ASSUME Environment = "polite", BaseInv, OrderInv, OfflineInv, TruthInv, Command
  PROVE  TruthInv'
<1> USE DEF BaseInv, TypeOK, HandlerTypeOK, ServiceTypeOK, ReporterTypeOK, Handlers
<1>1. /\ UNCHANGED <<handlerVars, management, sCurrentConnectionStatus, notify>>
      /\ \A c \in Connects : pending'[c] = pending[c]
      /\ \A d \in Disconnects : disconnector'[d] = "notify" => disconnector[d] = "notify"
  BY ThreadsAssumption
  DEF Command, StartConnect, StartDisconnect, OnRevoke, UpdateLogging, Disconnect, reporterVars
<1>2. \A c \in Connects : runner[c] # "none" => svc'[c] = svc[c]
  BY ThreadsAssumption
  DEF Command, StartConnect, StartDisconnect, OnRevoke, UpdateLogging, Disconnect, Placed
<1>3. \A h \in Handlers : CanRun(h)' => CanRun(h)
  BY <1>1, <1>2 DEF CanRun, Live, Running, handlerVars
<1>4. CASE \A c \in Connects : connector'[c] = connector[c]
  <2>1. \A c \in Connects : Active(c)' => Active(c)
    BY <1>1, <1>4 DEF Active, Preparing, SettingUp, handlerVars
  <2>2. QED
    BY <1>1, <1>3, <2>1, TruthKept DEF handlerVars
<1>5. ASSUME NEW c \in Connects, StartConnect(c)
      PROVE  TruthInv'
  <2>1. Settled /\ \A h \in Handlers : ~Live(h)
    BY <1>5 DEF StartConnect, MayConnect, MayCommand
  <2>2. \A k \in Connects : ~Busy(k) /\ ~Reporting(k)
    BY <2>1, ConnectsAssumption DEF Settled
  <2>3. \A k \in Connects : runner[k] # "loop"
    BY <2>1 DEF OfflineInv, OneLoop, RunnerHasHandler
  <2>4. \A k \in Connects : ~Active(k)
    BY <2>2, <2>3 DEF Active, Busy
  <2>5. \A k \in Connects : Active(k)' => k = c
    BY <1>1, <1>5, <2>4 DEF StartConnect, Active, Preparing, SettingUp, handlerVars
  <2>6. OneActive' /\ LoopsReport'
    BY <1>1, <2>2, <2>5 DEF OneActive, LoopsReport, Reporting
  <2>7. StopsTaken'
    BY <1>1, <1>3 DEF TruthInv, StopsTaken, handlerVars
  <2>8. SessionsHaveLoop' /\ AllRecorded'
    BY <1>1, <2>1, <2>3
    DEF SessionsHaveLoop, AllRecorded, GoesOn, Live, Running, handlerVars
  <2>9. QED
    BY <2>6, <2>7, <2>8 DEF TruthInv
<1>6. QED
  BY <1>4, <1>5 DEF Command, StartDisconnect, OnRevoke, UpdateLogging, Disconnect

(* A connectThread at work has the service to itself.                      *)
LEMMA ConnectorTruth ==
  ASSUME BaseInv, OrderInv, OfflineInv, TruthInv, NEW c \in Connects, ConnectorStep(c)
  PROVE  TruthInv'
<1> USE DEF BaseInv, TypeOK, HandlerTypeOK, ServiceTypeOK, Handlers
<1>1. ASSUME UNCHANGED <<reporterVars, runner, target, core, disconnector, management, svc>>,
             \A h \in Handlers : stopRequested[h] => stopRequested'[h],
             \A k \in Connects : Preparing(k)' => Preparing(k)
      PROVE  TruthInv'
  <2>1. /\ \A k \in Connects : Active(k)' => Active(k)
        /\ \A h \in Handlers : CanRun(h)' => CanRun(h)
    BY <1>1 DEF Active, SettingUp, CanRun, Live, Running
  <2>2. QED
    BY <1>1, <2>1, TruthKept DEF reporterVars
<1>2. CASE PrepareConnection(c) \/ InstallThrows(c)
  BY <1>1, <1>2 DEF PrepareConnection, InstallThrows, Advance, handlerVars, Preparing
<1>3. CASE PublishConfig(c)
  BY <1>1, <1>3 DEF PublishConfig, Advance, Preparing
<1>4. CASE InitConfig(c)
  BY <1>1, <1>4 DEF InitConfig, Advance, Preparing
<1>5. CASE Replace(c)
  BY <1>1, <1>5 DEF Replace, Advance, Preparing, Stopped
<1>6. CASE Install(c)
  <2>1. c \in Threads /\ Busy(c) /\ runner[c] = "none"
    BY <1>6, ConnectsAssumption DEF Install, Advance, Busy, Preparing, Placed
  <2>2. /\ core' = [core EXCEPT ![c] = "new"]
        /\ runner' = [runner EXCEPT ![c] = "born"]
        /\ connector' = [connector EXCEPT ![c] = "done"]
        /\ UNCHANGED <<reporterVars, disconnector, target, stopRequested>>
    BY <1>6 DEF Install, Advance, Create
  <2>3. \A k \in Connects : Active(k)' => Active(k)
    BY <1>6, <2>2 DEF Install, Advance, Active, Preparing, SettingUp
  <2>4. \A k \in Connects : runner[k] # "loop"
    BY <1>6, <2>1 DEF TruthInv, OneActive, Active, Preparing, Install, Advance
  <2>5. \A k \in Connects : runner'[k] # "loop"
    BY <2>2, <2>4
  <2>6. \A h \in Handlers : ~Live(h)
    BY <2>4 DEF TruthInv, SessionsHaveLoop
  <2>7. \A h \in Handlers : ~Live(h)'
    BY <2>2, <2>6 DEF Live, Running
  <2>8. \A d \in Disconnects : disconnector[d] # "notify"
    BY <2>1, ThreadsAssumption DEF OrderInv, Busy, Disconnecting
  <2>9. OneActive' /\ StopsTaken' /\ SessionsHaveLoop' /\ AllRecorded'
    BY <2>2, <2>3, <2>5, <2>7, <2>8
    DEF TruthInv, OneActive, StopsTaken, SessionsHaveLoop, AllRecorded, GoesOn
  <2>10. LoopsReport'
    BY <2>2, <2>4 DEF TruthInv, LoopsReport, Reporting, reporterVars
  <2>11. QED
    BY <2>9, <2>10 DEF TruthInv
<1>7. CASE ReadManagement(c)
  <2>1. \A k \in Connects : runner[k] # "loop" /\ runner'[k] # "loop"
    BY <1>7 DEF ReadManagement, TruthInv, OneActive, Active, SettingUp
  <2>2. \A h \in Handlers : ~Live(h) /\ ~Live(h)'
    BY <1>7, <2>1 DEF ReadManagement, TruthInv, SessionsHaveLoop, Live, Running
  <2>3. \A k \in Connects : Active(k)' => Active(k)
    BY <1>7 DEF ReadManagement, serviceVars, Active, Preparing, SettingUp
  <2>4. \A h \in Handlers : CanRun(h)' => CanRun(h)
    BY <1>7 DEF ReadManagement, serviceVars, CanRun, Live, Running
  <2>5. OneActive' /\ StopsTaken' /\ SessionsHaveLoop' /\ AllRecorded'
    BY <1>7, <2>1, <2>2, <2>3, <2>4
    DEF ReadManagement, serviceVars, TruthInv, OneActive, StopsTaken, SessionsHaveLoop,
        AllRecorded, GoesOn
  <2>6. LoopsReport'
    BY <1>7, <2>1 DEF ReadManagement, reporterVars, TruthInv, LoopsReport, Reporting
  <2>7. QED
    BY <2>5, <2>6 DEF TruthInv
<1>8. CASE ReportError(c)
  BY <1>1, <1>8 DEF ReportError, handlerVars, Preparing
<1>9. QED
  BY <1>2, <1>3, <1>4, <1>5, <1>6, <1>7, <1>8 DEF ConnectorStep

LEMMA DisconnectorTruth ==
  ASSUME BaseInv, OrderInv, OfflineInv, TruthInv, NEW d \in Disconnects, DisconnectorStep(d)
  PROVE  TruthInv'
<1> USE DEF BaseInv, TypeOK, HandlerTypeOK, ServiceTypeOK, Handlers
<1>1. d \in Threads /\ d \notin Connects
  BY ThreadsAssumption
<1>2. /\ UNCHANGED <<reporterVars, runner, target, core, management, svc, connector>>
      /\ \A h \in Handlers : stopRequested[h] => stopRequested'[h]
  BY DEF DisconnectorStep, DisconnectStop, DisconnectSelf, handlerVars, Stopped
<1>3. /\ \A k \in Connects : Active(k)' => Active(k)
      /\ \A h \in Handlers : CanRun(h)' <=> CanRun(h)
  BY <1>2 DEF Active, Preparing, SettingUp, CanRun, Live, Running
<1>4. CASE DisconnectStop(d)
  <2>1. \A h \in Handlers : CanRun(h) => stopRequested'[h]
    BY <1>1, <1>4, StopTakes DEF DisconnectStop, Busy, Disconnecting
  <2>2. StopsTaken'
    BY <1>3, <2>1 DEF StopsTaken
  <2>3. OneActive' /\ LoopsReport' /\ SessionsHaveLoop'
    BY <1>2, <1>3
    DEF TruthInv, OneActive, LoopsReport, SessionsHaveLoop, Reporting, reporterVars, Live, Running
  <2>4. \A k \in Connects : GoesOn(k)' => GoesOn(k)
    BY <1>2 DEF GoesOn, RunnerHasHandler
  <2>5. AllRecorded'
    BY <1>2, <2>4 DEF TruthInv, AllRecorded, Recorded, Reporting, reporterVars
  <2>6. QED
    BY <2>2, <2>3, <2>5 DEF TruthInv
<1>5. CASE DisconnectSelf(d)
  <2>1. \A e \in Disconnects : disconnector'[e] = "notify" => disconnector[e] = "notify"
    BY <1>5 DEF DisconnectSelf
  <2>2. QED
    BY <1>2, <1>3, <2>1, TruthKept DEF reporterVars
<1>6. QED
  BY <1>4, <1>5 DEF DisconnectorStep

(* An event that keeps the session going is the report its runner owes.    *)
LEMMA OngoingTruth ==
  ASSUME BaseInv, TruthInv, NEW c \in Connects, UNCHANGED serviceVars,
         NEW state \in {"connecting", "connected", "reconnecting"}, NEW name, NEW a,
         EventStatuses(name, a) = <<StatusOf(state)>>,
         Running(target[c]), Emit(c, state, name, a)
  PROVE  TruthInv'
<1> USE DEF BaseInv, TypeOK, HandlerTypeOK, ReporterTypeOK, Handlers
<1>1. /\ c \in Threads /\ runner[c] = "loop" /\ notify[c] = "idle"
      /\ target[c] \in Handlers
      /\ core' = [core EXCEPT ![target[c]] = state]
      /\ pending' = [pending EXCEPT ![c] = <<StatusOf(state)>>]
      /\ UNCHANGED <<notify, runner, target, stopRequested>>
  BY ConnectsAssumption DEF Emit, RunnerHasHandler, Reporting
<1>2. \A k \in Connects : runner[k] = "loop" => k = c
  BY <1>1 DEF TruthInv, OneActive, Active
<1>3. /\ \A k \in Connects : Active(k)' => Active(k)
      /\ \A h \in Handlers : CanRun(h)' => CanRun(h)
      /\ \A h \in Handlers : Live(h)' => Live(h)
  BY <1>1 DEF serviceVars, Active, Preparing, SettingUp, CanRun, Live, Running
<1>4. OneActive' /\ StopsTaken' /\ SessionsHaveLoop'
  BY <1>1, <1>3 DEF serviceVars, TruthInv, OneActive, StopsTaken, SessionsHaveLoop
<1>5. LoopsReport'
  BY <1>1 DEF TruthInv, LoopsReport, Reporting
<1>6. Recorded(c)'
  <2>1. Reporting(c)' /\ notify'[c] = "idle" /\ core'[target'[c]] = state
        /\ pending'[c] = <<StatusOf(state)>>
    BY <1>1 DEF Reporting
  <2>2. QED
    BY <2>1 DEF Recorded
<1>7. AllRecorded'
  BY <1>1, <1>2, <1>6 DEF AllRecorded, GoesOn
<1>8. QED
  BY <1>4, <1>5, <1>7 DEF TruthInv

(* The loop of the only session goes on, ends or begins.                   *)
LEMMA RunnerTruth ==
  ASSUME BaseInv, OfflineInv, TruthInv, NEW c \in Connects, RunnerStep(c), UNCHANGED serviceVars
  PROVE  TruthInv'
<1> USE DEF BaseInv, TypeOK, HandlerTypeOK, Handlers
<1>1. /\ \A t \in Threads : Busy(t)' => Busy(t)
      /\ \A h \in Handlers : CanRun(h)' => CanRun(h)
  BY RunnerShrinks
<1>2. StopsTaken'
  BY <1>1, RunnerFrame DEF TruthInv, StopsTaken, serviceVars
<1>3. ASSUME NEW k \in Connects, Active(k)' PROVE Active(k)
  <2>1. CASE k # c
    BY <1>3, <2>1, RunnerFrame DEF Active, Preparing, SettingUp, serviceVars
  <2>2. CASE k = c
    BY <1>3, <2>2
    DEF Active, Preparing, SettingUp, serviceVars, RunnerStep, EvalConfig, CoreConnect,
        CoreRefuse, CoreEvent, CoreAttempt, CoreConnected, CoreReconnecting, CoreExit,
        Emit, ConnectReturns, PollerExit
  <2>3. QED
    BY <2>1, <2>2
<1>4. OneActive'
  BY <1>3 DEF TruthInv, OneActive
<1>5. Active(c) => \A k \in Connects : runner[k] = "loop" => k = c
  BY DEF TruthInv, OneActive, Active
<1>6. ASSUME UNCHANGED <<reporterVars, target, stopRequested>>,
             \A k \in Connects : runner'[k] = "loop" <=> runner[k] = "loop",
             \A h \in Handlers : Live(h) \/ Live(h)' => core'[h] = core[h]
      PROVE  TruthInv'
  BY <1>1, <1>3, <1>6, TruthKept DEF reporterVars, serviceVars
<1>7. CASE EvalConfig(c)
  BY <1>6, <1>7 DEF EvalConfig
<1>8. CASE CoreConnect(c)
  <2>1. /\ UNCHANGED <<reporterVars, target>>
        /\ runner[c] = "connect"
        /\ core' = [core EXCEPT ![target[c]] = "started"]
        /\ runner' = [runner EXCEPT ![c] = "loop"]
    BY <1>8 DEF CoreConnect
  <2>2. \A k \in Connects : runner[k] # "loop"
    BY <1>5, <2>1 DEF Active, SettingUp
  <2>3. \A h \in Handlers : Live(h)' => h = target[c]
    BY <2>1, <2>2 DEF TruthInv, SessionsHaveLoop, Live, Running
  <2>4. SessionsHaveLoop'
    BY <2>1, <2>3 DEF SessionsHaveLoop
  <2>5. LoopsReport'
    BY <2>1 DEF TruthInv, LoopsReport, Reporting, reporterVars
  <2>6. target[c] \in Handlers
    BY <2>1 DEF RunnerHasHandler
  <2>7. AllRecorded'
    BY <2>1, <2>2, <2>6 DEF AllRecorded, GoesOn
  <2>8. QED
    BY <1>2, <1>4, <2>4, <2>5, <2>7 DEF TruthInv
<1>9. CASE CoreRefuse(c)
  BY <1>6, <1>9 DEF CoreRefuse, Live, Running
<1>10. CASE ConnectReturns(c)
  <2>1. /\ UNCHANGED <<reporterVars, target>>
        /\ runner[c] = "loop" /\ ~Reporting(c)
        /\ core' = [core EXCEPT ![target[c]] = "finished"]
        /\ runner' = [runner EXCEPT ![c] = "ended"]
    BY <1>10 DEF ConnectReturns
  <2>2. \A k \in Connects : runner'[k] # "loop"
    BY <1>5, <2>1 DEF Active
  <2>3. \A h \in Handlers : ~Live(h)'
    BY <1>5, <2>1 DEF TruthInv, SessionsHaveLoop, Active, Live, Running
  <2>4. LoopsReport'
    BY <2>1 DEF TruthInv, LoopsReport, Reporting, reporterVars
  <2>5. SessionsHaveLoop' /\ AllRecorded'
    BY <2>2, <2>3 DEF SessionsHaveLoop, AllRecorded, GoesOn
  <2>6. QED
    BY <1>2, <1>4, <2>4, <2>5 DEF TruthInv
<1>11. CASE PollerExit(c)
  BY <1>6, <1>11 DEF PollerExit
<1>12. CASE CoreExit(c)
  <2>1. PICK a \in BOOLEAN : Emit(c, "exiting", "EXITING", a)
    BY <1>12 DEF CoreExit
  <2>2. /\ UNCHANGED <<target, runner>>
        /\ runner[c] = "loop" /\ target[c] \in Handlers /\ Running(target[c])
        /\ core' = [core EXCEPT ![target[c]] = "exiting"]
        /\ \A k \in Connects : k # c => pending'[k] = pending[k]
    BY <1>12, <2>1 DEF CoreExit, Emit, RunnerHasHandler, ReporterTypeOK
  <2>3. \A h \in Handlers : Live(h)' => Live(h)
    BY <2>2 DEF Live, Running
  <2>4. SessionsHaveLoop' /\ LoopsReport'
    BY <2>2, <2>3 DEF TruthInv, SessionsHaveLoop, LoopsReport, Reporting
  <2>5. AllRecorded'
    BY <1>5, <2>2 DEF AllRecorded, GoesOn, Active
  <2>6. QED
    BY <1>2, <1>4, <2>4, <2>5 DEF TruthInv
<1>13. CASE CoreAttempt(c)
  BY <1>13, OngoingTruth, EventStatusesValue, StatusOfValue DEF CoreAttempt, Running
<1>14. CASE CoreConnected(c)
  BY <1>14, OngoingTruth, EventStatusesValue, StatusOfValue DEF CoreConnected, Running
<1>15. CASE CoreReconnecting(c)
  BY <1>15, OngoingTruth, EventStatusesValue, StatusOfValue DEF CoreReconnecting, Running
<1>16. QED
  BY <1>7, <1>8, <1>9, <1>10, <1>11, <1>12, <1>13, <1>14, <1>15 DEF RunnerStep, CoreEvent

(* A report beside that of the only session is that of a disconnectThread, *)
(* and then the session has been told to stop.                             *)
LEMMA NotifyTruth ==
  ASSUME BaseInv, OfflineInv, TruthInv, NEW t \in Threads, ThreadNotifies(t)
  PROVE  TruthInv'
<1> USE DEF BaseInv, TypeOK, HandlerTypeOK, ReporterTypeOK, Handlers
<1>1. UNCHANGED <<handlerVars, serviceVars>> /\ Notify(t)
  BY DEF ThreadNotifies
<1>2. /\ \A u \in Threads : u # t => pending'[u] = pending[u] /\ notify'[u] = notify[u]
      /\ Reporting(t)
  BY <1>1 DEF Notify, NotifySkip, NotifyPass, NotifySet, NotifySend
<1>3. /\ \A k \in Connects : Active(k)' <=> Active(k)
      /\ \A h \in Handlers : CanRun(h)' <=> CanRun(h)
      /\ \A h \in Handlers : Live(h)' <=> Live(h)
  BY <1>1 DEF handlerVars, serviceVars, Active, Preparing, SettingUp, CanRun, Live, Running
<1>4. OneActive' /\ StopsTaken' /\ SessionsHaveLoop'
  BY <1>1, <1>3
  DEF handlerVars, serviceVars, TruthInv, OneActive, StopsTaken, SessionsHaveLoop
<1>5. LoopsReport'
  BY <1>1, <1>2, ConnectsAssumption DEF handlerVars, TruthInv, LoopsReport, Reporting
<1>6. ASSUME NEW c \in Connects, GoesOn(c)'
      PROVE  Recorded(c)'
  <2>1. GoesOn(c) /\ Recorded(c) /\ core'[target'[c]] = core[target[c]]
    BY <1>1, <1>6 DEF handlerVars, GoesOn, TruthInv, AllRecorded
  <2>2. t \notin Disconnects
    <3>1. target[c] \in Handlers /\ CanRun(target[c]) /\ ~stopRequested[target[c]]
      BY <2>1 DEF GoesOn, RunnerHasHandler, CanRun, Live, Running
    <3>2. QED
      BY <3>1 DEF ThreadNotifies, TruthInv, StopsTaken
  <2>3. t = c
    BY <1>2, <2>1, <2>2, ThreadsAssumption
    DEF TruthInv, LoopsReport, OneActive, Active, GoesOn
  <2> DEFINE status == StatusOf(core[target[c]])
  <2>4. pending[c] = <<status>> /\ (notify[c] = "send" => sCurrentConnectionStatus = status)
    BY <1>2, <2>1, <2>3 DEF Recorded
  <2>5. Head(pending[c]) = status /\ Tail(pending[c]) = <<>>
    BY <2>4
  <2>6. CASE NotifySkip(c)
    <3>1. status = sCurrentConnectionStatus
      BY <2>5, <2>6 DEF NotifySkip, Differs
    <3>2. pending'[c] = <<>> /\ sCurrentConnectionStatus' = sCurrentConnectionStatus
      BY <2>3, <2>5, <2>6 DEF NotifySkip
    <3>3. QED
      BY <2>1, <3>1, <3>2 DEF Recorded, Reporting
  <2>7. CASE NotifyPass(c)
    <3>1. pending'[c] = pending[c] /\ notify'[c] = "set"
      BY <2>3, <2>7 DEF NotifyPass
    <3>2. QED
      BY <1>2, <2>1, <2>3, <2>4, <3>1 DEF Recorded, Reporting
  <2>8. CASE NotifySet(c)
    <3>1. pending'[c] = pending[c] /\ sCurrentConnectionStatus' = status
      BY <2>3, <2>5, <2>8 DEF NotifySet
    <3>2. QED
      BY <1>2, <2>1, <2>3, <2>4, <3>1 DEF Recorded, Reporting
  <2>9. CASE NotifySend(c)
    <3>1. pending'[c] = <<>> /\ sCurrentConnectionStatus' = status
      BY <2>3, <2>4, <2>5, <2>9 DEF NotifySend
    <3>2. QED
      BY <2>1, <3>1 DEF Recorded, Reporting
  <2>10. QED
    BY <1>1, <2>3, <2>6, <2>7, <2>8, <2>9 DEF Notify
<1>7. QED
  BY <1>4, <1>5, <1>6 DEF TruthInv, AllRecorded

LEMMA SystemTruth ==
  ASSUME BaseInv, TruthInv, OnDestroy \/ ProcessDeath \/ StickyRestart
  PROVE  TruthInv'
<1> USE DEF BaseInv, TypeOK, HandlerTypeOK, Handlers
<1>1. ASSUME UNCHANGED <<reporterVars, runner, target, core, connector, disconnector,
                         management, svc>>,
             \A h \in Handlers : stopRequested[h] => stopRequested'[h]
      PROVE  TruthInv'
  <2>1. /\ \A k \in Connects : Active(k)' => Active(k)
        /\ \A h \in Handlers : CanRun(h)' => CanRun(h)
    BY <1>1 DEF Active, Preparing, SettingUp, CanRun, Live, Running
  <2>2. QED
    BY <1>1, <2>1, TruthKept DEF reporterVars
<1>2. CASE OnDestroy
  BY <1>1, <1>2 DEF OnDestroy, Stopped
<1>3. CASE ProcessDeath
  <2>1. \A k \in Connects : ~Active(k)' /\ ~Reporting(k)'
    BY <1>3, ConnectsAssumption
    DEF ProcessDeath, HandlersDie, ReporterDies, Active, Preparing, SettingUp, Reporting
  <2>2. \A h \in Handlers : ~Live(h)'
    BY <1>3 DEF ProcessDeath, HandlersDie, Live, Running
  <2>3. \A d \in Disconnects : disconnector'[d] # "notify"
    BY <1>3 DEF ProcessDeath, Disconnecting
  <2>4. QED
    BY <2>1, <2>2, <2>3
    DEF TruthInv, OneActive, LoopsReport, StopsTaken, SessionsHaveLoop, AllRecorded,
        GoesOn, Active
<1>4. CASE StickyRestart
  BY <1>1, <1>4 DEF StickyRestart, handlerVars
<1>5. QED
  BY <1>2, <1>3, <1>4

LEMMA NextTruth ==
  ASSUME Environment = "polite", BaseInv, OrderInv, OfflineInv, TruthInv, [Next]_vars
  PROVE  TruthInv'
<1>1. CASE ThreadStep
  BY <1>1, ConnectorTruth, RunnerTruth, DisconnectorTruth, NotifyTruth DEF ThreadStep
<1>2. CASE UNCHANGED vars
  <2>1. /\ \A k \in Connects : Active(k)' => Active(k)
        /\ \A h \in Handlers : CanRun(h)' => CanRun(h)
    BY <1>2 DEF vars, handlerVars, serviceVars, Active, Preparing, SettingUp, CanRun, Live,
                Running
  <2>2. QED
    BY <1>2, <2>1, TruthKept DEF vars, reporterVars, handlerVars, serviceVars
<1>3. QED
  BY <1>1, <1>2, CommandTruth, SystemTruth DEF Next

(* All of it is inductive under a polite client. *)
LEMMA PoliteInvariant ==
  ASSUME Environment = "polite"
  PROVE  Spec => [](BaseInv /\ OrderInv /\ OfflineInv /\ TruthInv)
<1>1. Init => BaseInv /\ OrderInv /\ OfflineInv /\ TruthInv
  BY InitBase, InitOrder, InitOffline, InitTruth
<1>2. BaseInv /\ OrderInv /\ OfflineInv /\ TruthInv /\ [Next]_vars
        => (BaseInv /\ OrderInv /\ OfflineInv /\ TruthInv)'
  BY NextBase, NextOrder, NextOffline, NextTruth
<1>3. QED
  BY <1>1, <1>2, PTL DEF Spec

(* A client that waits for what its last command set off, and disconnects  *)
(* before it connects again, finds in the static field the status of the   *)
(* session there is, or an offline one, though two kinds of thread write   *)
(* it (PolarVpnService 292-294 and 378-380).                               *)
THEOREM StatusIsTrue ==
  ASSUME Environment = "polite"
  PROVE  Spec => []StatusTruth
<1>1. ASSUME BaseInv, OrderInv, OfflineInv, TruthInv, Settled
      PROVE  /\ \A h \in Handlers :
                  core[h] \in {"connecting", "connected", "reconnecting"} =>
                    sCurrentConnectionStatus = StatusOf(core[h])
             /\ (\A h \in Handlers : ~Live(h)) => sCurrentConnectionStatus \in OfflineStatus
  <2>1. \A t \in Threads : ~Reporting(t)
    BY <1>1 DEF Settled
  <2>2. ASSUME NEW h \in Handlers, core[h] \in {"connecting", "connected", "reconnecting"}
        PROVE  sCurrentConnectionStatus = StatusOf(core[h])
    <3>1. PICK c \in Connects : runner[c] = "loop" /\ target[c] = h
      BY <1>1, <2>2 DEF TruthInv, SessionsHaveLoop, Live, Running
    <3>2. GoesOn(c) /\ ~Reporting(c)
      BY <1>1, <2>1, <2>2, <3>1, ConnectsAssumption DEF Settled, GoesOn
    <3>3. QED
      BY <1>1, <3>1, <3>2 DEF TruthInv, AllRecorded, Recorded
  <2>3. ASSUME NEW c \in Connects, WillExit(c)
        PROVE  target[c] \in Handlers /\ Live(target[c])
    BY <1>1, <2>3 DEF WillExit, Live, BaseInv, TypeOK, HandlerTypeOK, RunnerHasHandler, Handlers
  <2>4. (\A h \in Handlers : ~Live(h)) => sCurrentConnectionStatus \in OfflineStatus
    BY <1>1, <2>1, <2>3 DEF OfflineInv, SigningOff
  <2>5. QED
    BY <2>2, <2>4
<1>2. BaseInv /\ OrderInv /\ OfflineInv /\ TruthInv => StatusTruth
  BY <1>1 DEF StatusTruth
<1>3. QED
  BY <1>2, PoliteInvariant, PTL

-----------------------------------------------------------------------------
(* The service is a switch.                                                *)

(* All that is known of the threads under a client that waits. *)
WaitingInv == BaseInv /\ OrderInv /\ OfflineInv /\ TruthInv

(* The session is that of the only runner in a loop.                       *)
SessionIs(c) ==
  /\ target[c] \in Handlers
  /\ Live(target[c])
  /\ TheSession = core[target[c]]
  /\ Asked = stopRequested[target[c]]

SessionPlaced ==
  /\ \A c \in Connects : runner[c] = "loop" => SessionIs(c)
  /\ (\A c \in Connects : runner[c] # "loop") => TheSession = "off" /\ Asked = FALSE

LEMMA SessionFound == WaitingInv => SessionPlaced
<1>1. SUFFICES ASSUME WaitingInv PROVE SessionPlaced
  OBVIOUS
<1>2. ASSUME NEW c \in Connects, runner[c] = "loop" PROVE SessionIs(c)
  <2>1. target[c] \in Handlers /\ Live(target[c])
    BY <1>1, <1>2
    DEF WaitingInv, BaseInv, TypeOK, HandlerTypeOK, RunnerHasHandler, Handlers, OfflineInv, OneLoop
  <2>2. \A k \in Connects : runner[k] = "loop" => k = c
    BY <1>1, <1>2 DEF WaitingInv, TruthInv, OneActive, Active
  <2>3. ASSUME NEW h \in Handlers, Live(h) PROVE h = target[c]
    BY <1>1, <2>2, <2>3 DEF WaitingInv, TruthInv, SessionsHaveLoop
  <2>4. (CHOOSE h \in Handlers : Live(h)) = target[c]
    BY <2>1, <2>3
  <2>5. TheSession = core[target[c]]
    BY <2>1, <2>4, Zenon DEF TheSession
  <2>6. Asked <=> stopRequested[target[c]]
    BY <2>1, <2>3 DEF Asked
  <2>7. Asked \in BOOLEAN /\ stopRequested[target[c]] \in BOOLEAN
    BY <1>1, <2>1 DEF Asked, WaitingInv, BaseInv, TypeOK, HandlerTypeOK
  <2> QED
    BY <2>1, <2>5, <2>6, <2>7, Zenon DEF SessionIs
<1>3. ASSUME \A c \in Connects : runner[c] # "loop" PROVE TheSession = "off" /\ Asked = FALSE
  <2>1. \A h \in Handlers : ~Live(h)
    BY <1>1, <1>3 DEF WaitingInv, TruthInv, SessionsHaveLoop
  <2> QED
    BY <2>1, Zenon DEF TheSession, Asked
<1> QED
  BY <1>2, <1>3 DEF SessionPlaced

(* What a runner in a loop has still to report is what event() was given   *)
(* last, and once it has reported the end an offline status is recorded.   *)
ReportsSession(c) ==
  /\ core[target[c]] = "started" => pending[c] = <<>>
  /\ core[target[c]] \in {"connecting", "connected", "reconnecting"} =>
       pending[c] \in {<<>>, <<StatusOf(core[target[c]])>>}
  /\ core[target[c]] = "exiting" =>
       /\ pending[c] \in {<<>>, <<"DISCONNECTED">>,
                          <<"AUTHENTICATION_FAILURE", "DISCONNECTED">>}
       /\ pending[c] = <<>> \/ (pending[c] = <<"DISCONNECTED">> /\ notify[c] = "send")
            => sCurrentConnectionStatus \in OfflineStatus

ReportsEnd(d) == pending[d] \in {<<>>, <<"DISCONNECTED">>, <<"PERMISSION_REVOKED">>}

SwitchInv ==
  /\ \A c \in Connects : runner[c] = "loop" => ReportsSession(c)
  /\ \A d \in Disconnects : ReportsEnd(d)

LEMMA InitSwitch == Init => SwitchInv
BY ThreadsAssumption DEF Init, ReporterInit, HandlerInit, SwitchInv, ReportsEnd

(* No loop begins or ends, and no session moves on.                        *)
LoopsStay ==
  \A c \in Connects :
    /\ runner'[c] = "loop" <=> runner[c] = "loop"
    /\ runner[c] = "loop" =>
         /\ target'[c] = target[c]
         /\ core'[target[c]] = core[target[c]]
         /\ stopRequested[target[c]] => stopRequested'[target[c]]

LEMMA SwitchKept ==
  ASSUME SwitchInv, LoopsStay, UNCHANGED reporterVars
  PROVE  SwitchInv'
BY DEF SwitchInv, LoopsStay, reporterVars, ReportsSession, ReportsEnd

LEMMA SessionStays ==
  ASSUME WaitingInv, WaitingInv', LoopsStay, UNCHANGED sCurrentConnectionStatus
  PROVE  Switch!Ask \/ UNCHANGED Switch!switchVars
<1>1. SessionPlaced /\ SessionPlaced'
  BY SessionFound, PTL
<1>2. CASE \A c \in Connects : runner[c] # "loop"
  BY <1>1, <1>2 DEF SessionPlaced, LoopsStay, Switch!switchVars
<1>3. ASSUME NEW c \in Connects, runner[c] = "loop"
      PROVE  Switch!Ask \/ UNCHANGED Switch!switchVars
  <2>1. SessionIs(c) /\ SessionIs(c)'
    BY <1>1, <1>3 DEF SessionPlaced, LoopsStay
  <2>2. TheSession' = TheSession /\ TheSession # "off"
    BY <1>3, <2>1 DEF SessionIs, LoopsStay, Live, Running
  <2>3. /\ Asked = stopRequested[target[c]] /\ Asked' = stopRequested'[target[c]]
        /\ stopRequested[target[c]] => stopRequested'[target[c]]
    BY <1>3, <2>1 DEF SessionIs, LoopsStay
  <2>4. Asked \in BOOLEAN /\ Asked' \in BOOLEAN
    BY Zenon DEF Asked
  <2>5. Asked' = Asked \/ Asked' = TRUE
    BY <2>3, <2>4
  <2> QED
    BY <2>2, <2>5 DEF Switch!Ask, Switch!switchVars
<1> QED
  BY <1>2, <1>3

LEMMA HandlersLeft == UNCHANGED handlerVars => LoopsStay
BY DEF handlerVars, LoopsStay

(* A connectThread makes a handler and a runner that is in no loop yet.    *)
LEMMA ConnectorLoops ==
  ASSUME WaitingInv, NEW c \in Connects, ConnectorStep(c)
  PROVE  LoopsStay /\ UNCHANGED reporterVars
<1> USE DEF WaitingInv, BaseInv, TypeOK, HandlerTypeOK, Handlers
<1>1. ASSUME NEW k \in Connects, runner[k] = "loop"
      PROVE  target[k] \in Handlers /\ Live(target[k])
  BY <1>1 DEF RunnerHasHandler, OfflineInv, OneLoop
<1>2. CASE \/ PrepareConnection(c) \/ PublishConfig(c) \/ InitConfig(c)
           \/ InstallThrows(c) \/ ReportError(c)
  BY <1>2 DEF PrepareConnection, PublishConfig, InitConfig, InstallThrows, ReportError,
              Advance, handlerVars, LoopsStay
<1>3. CASE Replace(c)
  BY <1>1, <1>3 DEF Replace, Stopped, Advance, LoopsStay
<1>4. CASE Install(c)
  <2>1. /\ runner[c] = "none" /\ core[c] = "absent"
        /\ core' = [core EXCEPT ![c] = "new"] /\ runner' = [runner EXCEPT ![c] = "born"]
        /\ UNCHANGED <<reporterVars, target, stopRequested>>
    BY <1>4 DEF Install, Create, Advance, Placed
  <2>2. \A k \in Connects : runner[k] = "loop" => target[k] # c
    BY <1>1, <2>1 DEF Live, Running
  <2> QED
    BY <2>1, <2>2 DEF LoopsStay
<1>5. CASE ReadManagement(c)
  BY <1>5 DEF ReadManagement, LoopsStay
<1> QED
  BY <1>2, <1>3, <1>4, <1>5 DEF ConnectorStep

LEMMA DisconnectorLoops ==
  ASSUME WaitingInv, NEW d \in Disconnects, DisconnectorStep(d)
  PROVE  LoopsStay /\ UNCHANGED reporterVars
<1>1. \A k \in Connects : runner[k] = "loop" => target[k] \in Handlers
  BY DEF WaitingInv, BaseInv, TypeOK, HandlerTypeOK, Handlers, RunnerHasHandler
<1>2. CASE DisconnectStop(d)
  BY <1>1, <1>2 DEF DisconnectStop, Stopped, LoopsStay, WaitingInv, BaseInv, TypeOK, HandlerTypeOK, Handlers
<1>3. CASE DisconnectSelf(d)
  BY <1>3 DEF DisconnectSelf, handlerVars, LoopsStay
<1> QED
  BY <1>2, <1>3 DEF DisconnectorStep

LEMMA SystemLoops ==
  ASSUME WaitingInv, OnDestroy \/ StickyRestart
  PROVE  LoopsStay /\ UNCHANGED reporterVars
<1>1. \A k \in Connects : runner[k] = "loop" => target[k] \in Handlers
  BY DEF WaitingInv, BaseInv, TypeOK, HandlerTypeOK, Handlers, RunnerHasHandler
<1>2. CASE OnDestroy
  BY <1>1, <1>2 DEF OnDestroy, Stopped, LoopsStay, WaitingInv, BaseInv, TypeOK, HandlerTypeOK, Handlers
<1>3. CASE StickyRestart
  BY <1>3 DEF StickyRestart, handlerVars, LoopsStay
<1> QED
  BY <1>2, <1>3

(* The steps of a runner that neither begin nor end a loop nor give it an  *)
(* event.                                                                  *)
LEMMA RunnerLoops ==
  ASSUME WaitingInv, NEW c \in Connects, EvalConfig(c) \/ CoreRefuse(c) \/ PollerExit(c)
  PROVE  LoopsStay /\ UNCHANGED reporterVars
<1> USE DEF WaitingInv, BaseInv, TypeOK, HandlerTypeOK, Handlers
<1>1. ASSUME NEW k \in Connects, runner[k] = "loop"
      PROVE  target[k] \in Handlers /\ Live(target[k])
  BY <1>1 DEF RunnerHasHandler, OfflineInv, OneLoop
<1>2. CASE EvalConfig(c)
  BY <1>2 DEF EvalConfig, LoopsStay
<1>3. CASE CoreRefuse(c)
  <2>1. \A h \in Handlers : Live(h) => core'[h] = core[h]
    BY <1>3 DEF CoreRefuse, Live, Running
  <2> QED
    BY <1>1, <1>3, <2>1 DEF CoreRefuse, LoopsStay
<1>4. CASE PollerExit(c)
  BY <1>4 DEF PollerExit, LoopsStay
<1> QED
  BY <1>2, <1>3, <1>4

(* Commands: a disconnectThread is given the status it will report.        *)
LEMMA CommandSwitch ==
  ASSUME WaitingInv, SwitchInv, Command
  PROVE  LoopsStay /\ SwitchInv' /\ UNCHANGED sCurrentConnectionStatus
<1>1. LoopsStay /\ UNCHANGED <<handlerVars, sCurrentConnectionStatus, reported, notify>>
  <2>1. UNCHANGED <<handlerVars, sCurrentConnectionStatus, reported, notify>>
    BY DEF Command, StartConnect, StartDisconnect, OnRevoke, UpdateLogging, Disconnect, reporterVars
  <2> QED
    BY <2>1, HandlersLeft
<1>2. \/ pending' = pending
      \/ \E d \in Disconnects, status \in {"DISCONNECTED", "PERMISSION_REVOKED"} :
           pending' = [pending EXCEPT ![d] = <<status>>]
  BY DEF Command, StartConnect, StartDisconnect, OnRevoke, UpdateLogging, Disconnect, reporterVars
<1>3. CASE pending' = pending
  BY <1>1, <1>3, SwitchKept DEF reporterVars, WaitingInv
<1>4. ASSUME NEW d \in Disconnects, NEW status \in {"DISCONNECTED", "PERMISSION_REVOKED"},
             pending' = [pending EXCEPT ![d] = <<status>>]
      PROVE  SwitchInv'
  <2>1. pending \in [Threads -> Seq(Status)]
    BY DEF WaitingInv, BaseInv, TypeOK, ReporterTypeOK
  <2>2. /\ \A c \in Connects : pending'[c] = pending[c]
        /\ \A e \in Disconnects : pending'[e] = pending[e] \/ pending'[e] = <<status>>
    BY <1>4, <2>1, ThreadsAssumption
  <2>3. \A e \in Disconnects : ReportsEnd(e)'
    BY <2>2 DEF SwitchInv, ReportsEnd
  <2> QED
    BY <1>1, <2>2, <2>3 DEF SwitchInv, ReportsSession, handlerVars
<1> QED
  BY <1>1, <1>2, <1>3, <1>4

(* A loop begins, with nothing to report.                                  *)
LEMMA StartsSession ==
  ASSUME WaitingInv, WaitingInv', SwitchInv, NEW c \in Connects, CoreConnect(c)
  PROVE  SwitchInv' /\ Switch!Start
<1> USE DEF WaitingInv, BaseInv, TypeOK, HandlerTypeOK, Handlers
<1>1. /\ runner[c] = "connect" /\ target[c] \in Handlers
      /\ core' = [core EXCEPT ![target[c]] = "started"]
      /\ runner' = [runner EXCEPT ![c] = "loop"]
      /\ UNCHANGED <<reporterVars, target>>
  BY DEF CoreConnect, RunnerHasHandler
<1>2. \A k \in Connects : runner[k] # "loop" /\ (runner'[k] = "loop" => k = c)
  BY <1>1 DEF TruthInv, OneActive, Active, SettingUp
<1>3. core'[target'[c]] = "started" /\ pending'[c] = <<>>
  BY <1>1 DEF TruthInv, LoopsReport, Reporting, reporterVars
<1>4. SwitchInv'
  BY <1>1, <1>2, <1>3 DEF SwitchInv, ReportsSession, ReportsEnd, reporterVars
<1>5. SessionPlaced /\ SessionPlaced'
  BY SessionFound, PTL
<1>6. TheSession = "off"
  BY <1>2, <1>5 DEF SessionPlaced
<1>7. TheSession' = "started"
  BY <1>1, <1>3, <1>5 DEF SessionPlaced, SessionIs
<1>8. Asked' \in BOOLEAN
  BY Zenon DEF Asked
<1> QED
  BY <1>1, <1>4, <1>6, <1>7, <1>8 DEF Switch!Start, reporterVars

(* The loop ends when its end has been reported.                           *)
LEMMA EndsSession ==
  ASSUME WaitingInv, WaitingInv', SwitchInv, NEW c \in Connects, ConnectReturns(c)
  PROVE  SwitchInv' /\ Switch!Over
<1> USE DEF WaitingInv, BaseInv, TypeOK, HandlerTypeOK, Handlers
<1>1. /\ runner[c] = "loop" /\ pending[c] = <<>> /\ core[target[c]] = "exiting"
      /\ runner' = [runner EXCEPT ![c] = "ended"]
      /\ UNCHANGED <<reporterVars, target>>
  BY DEF ConnectReturns, Reporting
<1>2. \A k \in Connects : runner'[k] # "loop"
  BY <1>1 DEF TruthInv, OneActive, Active
<1>3. SwitchInv'
  BY <1>1, <1>2 DEF SwitchInv, ReportsEnd, reporterVars
<1>4. SessionPlaced /\ SessionPlaced'
  BY SessionFound, PTL
<1>5. TheSession = "exiting" /\ TheSession' = "off" /\ Asked' = FALSE
  BY <1>1, <1>2, <1>4 DEF SessionPlaced, SessionIs
<1>6. sCurrentConnectionStatus \in OfflineStatus
  BY <1>1 DEF SwitchInv, ReportsSession
<1> QED
  BY <1>1, <1>3, <1>5, <1>6 DEF Switch!Over, reporterVars, OfflineStatus

(* An event: the session was on record, or had been asked to stop.         *)
LEMMA MovesSession ==
  ASSUME WaitingInv, WaitingInv', SwitchInv, NEW c \in Connects, NEW state, NEW name, NEW a,
         Emit(c, state, name, a), UNCHANGED serviceVars,
         state \in {"connecting", "connected", "reconnecting", "exiting"},
         state # "exiting" => EventStatuses(name, a) = <<StatusOf(state)>>,
         state = "exiting" =>
           EventStatuses(name, a) \in {<<"DISCONNECTED">>,
                                       <<"AUTHENTICATION_FAILURE", "DISCONNECTED">>},
         NEW from, core[target[c]] \in from
  PROVE  SwitchInv' /\ Switch!Move(from, state)
<1> USE DEF WaitingInv, BaseInv, TypeOK, HandlerTypeOK, ReporterTypeOK, Handlers
<1>1. /\ runner[c] = "loop" /\ pending[c] = <<>> /\ notify[c] = "idle"
      /\ c \in Threads /\ target[c] \in Handlers
      /\ core' = [core EXCEPT ![target[c]] = state]
      /\ pending' = [pending EXCEPT ![c] = EventStatuses(name, a)]
      /\ UNCHANGED <<sCurrentConnectionStatus, notify, runner, target, stopRequested>>
  BY ConnectsAssumption DEF Emit, Reporting, RunnerHasHandler
<1>2. \A k \in Connects : runner[k] = "loop" => k = c
  BY <1>1 DEF TruthInv, OneActive, Active
<1>3. ReportsSession(c)'
  <2>1. /\ core'[target'[c]] = state /\ pending'[c] = EventStatuses(name, a)
        /\ notify'[c] = "idle"
    BY <1>1
  <2>2. state = "exiting" => pending'[c] # <<>>
    <3>1. <<"DISCONNECTED">> # <<>> /\ <<"AUTHENTICATION_FAILURE", "DISCONNECTED">> # <<>>
      OBVIOUS
    <3> QED
      BY <2>1, <3>1
  <2> QED
    BY <2>1, <2>2 DEF ReportsSession
<1>4. SwitchInv'
  <2>1. \A d \in Disconnects : pending'[d] = pending[d]
    BY <1>1, ThreadsAssumption
  <2> QED
    BY <1>1, <1>2, <1>3, <2>1 DEF SwitchInv, ReportsEnd
<1>5. SessionIs(c) /\ SessionIs(c)'
  <2>1. SessionPlaced /\ SessionPlaced'
    BY SessionFound, PTL
  <2> QED
    BY <1>1, <2>1 DEF SessionPlaced
<1>6. TheSession = core[target[c]] /\ TheSession' = state /\ Asked' = Asked
  BY <1>1, <1>5 DEF SessionIs
<1>7. ASSUME TheSession \in Switch!Announced, ~Asked
      PROVE  sCurrentConnectionStatus = Switch!Says[TheSession]
  <2>1. ~stopRequested[target[c]]
    BY <1>5, <1>7 DEF SessionIs
  <2>2. GoesOn(c)
    BY <1>1, <1>6, <1>7, <2>1 DEF GoesOn, Switch!Announced
  <2>3. sCurrentConnectionStatus = StatusOf(core[target[c]])
    BY <1>1, <2>2 DEF TruthInv, AllRecorded, Recorded, Reporting
  <2> QED
    BY <1>6, <1>7, <2>3, StatusOfValue DEF Switch!Announced, Switch!Says
<1>8. TheSession \in Switch!Announced => Asked \/ sCurrentConnectionStatus = Switch!Says[TheSession]
  BY <1>7
<1> QED
  BY <1>1, <1>4, <1>6, <1>8 DEF Switch!Move

LEMMA HeadAndTail ==
  /\ \A x : Head(<<x>>) = x /\ Tail(<<x>>) = <<>>
  /\ \A x, y : Head(<<x, y>>) = x /\ Tail(<<x, y>>) = <<y>>
OBVIOUS

(* The report of the runner of the session.                                *)
LEMMA RunnerTells ==
  ASSUME WaitingInv, SwitchInv, NEW c \in Connects, runner[c] = "loop", Reporting(c),
         Notify(c), UNCHANGED handlerVars
  PROVE  /\ ReportsSession(c)'
         /\ \/ sCurrentConnectionStatus' = sCurrentConnectionStatus
            \/ /\ core[target[c]] \in {"connecting", "connected", "reconnecting"}
               /\ sCurrentConnectionStatus' = StatusOf(core[target[c]])
            \/ /\ core[target[c]] = "exiting"
               /\ sCurrentConnectionStatus' \in {"AUTHENTICATION_FAILURE", "DISCONNECTED"}
<1> USE DEF WaitingInv, BaseInv, TypeOK, HandlerTypeOK, ReporterTypeOK, Handlers
<1> DEFINE state == core[target[c]]
           queue == pending[c]
<1>1. /\ c \in Threads
      /\ core'[target'[c]] = state
      /\ pending \in [Threads -> Seq(Status)] /\ notify \in [Threads -> {"idle", "set", "send"}]
  BY ConnectsAssumption DEF handlerVars
<1>2. /\ state \in {"connecting", "connected", "reconnecting"} => queue = <<StatusOf(state)>>
      /\ state = "exiting" => \/ queue = <<"DISCONNECTED">>
                              \/ queue = <<"AUTHENTICATION_FAILURE", "DISCONNECTED">>
      /\ state \in {"connecting", "connected", "reconnecting", "exiting"}
  <2>1. Live(target[c])
    BY DEF OfflineInv, OneLoop
  <2>2. ReportsSession(c) /\ queue # <<>>
    BY DEF SwitchInv, Reporting
  <2> QED
    BY <2>1, <2>2 DEF ReportsSession, Live, Running
<1>3. /\ state = "exiting" /\ queue = <<"DISCONNECTED">> /\ notify[c] = "send"
           => sCurrentConnectionStatus \in OfflineStatus
  BY DEF SwitchInv, ReportsSession
<1>4. "DISCONNECTED" \in OfflineStatus /\ <<"DISCONNECTED">> # <<>>
  BY DEF OfflineStatus
<1>5. ASSUME pending'[c] = Tail(queue), notify'[c] = "idle",
             UNCHANGED sCurrentConnectionStatus,
             state = "exiting" /\ queue = <<"DISCONNECTED">>
               => sCurrentConnectionStatus \in OfflineStatus
      PROVE  ReportsSession(c)'
  <2>1. CASE state \in {"connecting", "connected", "reconnecting"}
    <3>1. pending'[c] = <<>>
      BY <1>2, <1>5, <2>1, HeadAndTail
    <3> QED
      BY <1>1, <2>1, <3>1 DEF ReportsSession
  <2>2. CASE state = "exiting" /\ queue = <<"DISCONNECTED">>
    <3>1. pending'[c] = <<>>
      BY <1>5, <2>2, HeadAndTail
    <3> QED
      BY <1>1, <1>5, <2>2, <3>1 DEF ReportsSession
  <2>3. CASE state = "exiting" /\ queue = <<"AUTHENTICATION_FAILURE", "DISCONNECTED">>
    <3>1. pending'[c] = <<"DISCONNECTED">>
      BY <1>5, <2>3, HeadAndTail
    <3> QED
      BY <1>1, <1>4, <1>5, <2>3, <3>1 DEF ReportsSession
  <2> QED
    BY <1>2, <2>1, <2>2, <2>3
<1>6. CASE NotifySkip(c)
  <2>1. pending'[c] = Tail(queue) /\ notify'[c] = "idle" /\ UNCHANGED sCurrentConnectionStatus
    BY <1>1, <1>6 DEF NotifySkip
  <2>2. state = "exiting" /\ queue = <<"DISCONNECTED">> => sCurrentConnectionStatus \in OfflineStatus
    BY <1>4, <1>6, HeadAndTail DEF NotifySkip, Differs
  <2> QED
    BY <1>5, <2>1, <2>2
<1>7. CASE NotifySend(c)
  <2>1. /\ pending'[c] = Tail(queue) /\ notify'[c] = "idle" /\ notify[c] = "send"
        /\ UNCHANGED sCurrentConnectionStatus
    BY <1>1, <1>7 DEF NotifySend
  <2> QED
    BY <1>3, <1>5, <2>1
<1>8. CASE NotifyPass(c)
  <2>1. pending'[c] = queue /\ notify'[c] = "set" /\ UNCHANGED sCurrentConnectionStatus
    BY <1>1, <1>8 DEF NotifyPass
  <2>2. queue # <<>>
    BY DEF Reporting
  <2> QED
    BY <1>1, <1>2, <2>1, <2>2 DEF ReportsSession
<1>9. CASE NotifySet(c)
  <2>1. pending'[c] = queue /\ notify'[c] = "send" /\ sCurrentConnectionStatus' = Head(queue)
    BY <1>1, <1>9 DEF NotifySet
  <2>2. queue # <<>>
    BY DEF Reporting
  <2>3. CASE state \in {"connecting", "connected", "reconnecting"}
    <3>1. sCurrentConnectionStatus' = StatusOf(state)
      BY <1>2, <2>1, <2>3, HeadAndTail
    <3> QED
      BY <1>1, <1>2, <2>1, <2>3, <3>1 DEF ReportsSession
  <2>4. CASE state = "exiting" /\ queue = <<"DISCONNECTED">>
    <3>1. sCurrentConnectionStatus' = "DISCONNECTED"
      BY <2>1, <2>4, HeadAndTail
    <3> QED
      BY <1>1, <1>4, <2>1, <2>4, <3>1 DEF ReportsSession
  <2>5. CASE state = "exiting" /\ queue = <<"AUTHENTICATION_FAILURE", "DISCONNECTED">>
    <3>1. sCurrentConnectionStatus' = "AUTHENTICATION_FAILURE"
      BY <2>1, <2>5, HeadAndTail
    <3>2. queue # <<"DISCONNECTED">>
      <4>1. Tail(<<"DISCONNECTED">>) # Tail(queue)
        BY <1>4, <2>5, HeadAndTail
      <4> QED
        BY <4>1
    <3> QED
      BY <1>1, <2>1, <2>2, <2>5, <3>1, <3>2 DEF ReportsSession
  <2> QED
    BY <1>2, <2>3, <2>4, <2>5
<1> QED
  BY <1>6, <1>7, <1>8, <1>9 DEF Notify

(* The report of a disconnectThread.                                       *)
LEMMA EnderTells ==
  ASSUME WaitingInv, SwitchInv, NEW d \in Disconnects, Reporting(d), Notify(d)
  PROVE  /\ ReportsEnd(d)'
         /\ \/ sCurrentConnectionStatus' = sCurrentConnectionStatus
            \/ sCurrentConnectionStatus' \in {"DISCONNECTED", "PERMISSION_REVOKED"}
<1>1. d \in Threads /\ pending \in [Threads -> Seq(Status)]
  BY ThreadsAssumption DEF WaitingInv, BaseInv, TypeOK, ReporterTypeOK
<1>2. pending[d] = <<"DISCONNECTED">> \/ pending[d] = <<"PERMISSION_REVOKED">>
  BY DEF SwitchInv, ReportsEnd, Reporting
<1>3. Tail(pending[d]) = <<>> /\ Head(pending[d]) \in {"DISCONNECTED", "PERMISSION_REVOKED"}
  BY <1>2, HeadAndTail
<1>4. pending'[d] = pending[d] \/ pending'[d] = Tail(pending[d])
  BY <1>1 DEF Notify, NotifySkip, NotifyPass, NotifySet, NotifySend
<1>5. \/ sCurrentConnectionStatus' = sCurrentConnectionStatus
      \/ sCurrentConnectionStatus' = Head(pending[d])
  BY DEF Notify, NotifySkip, NotifyPass, NotifySet, NotifySend
<1> QED
  BY <1>2, <1>3, <1>4, <1>5 DEF ReportsEnd

LEMMA TellsStatus ==
  ASSUME WaitingInv, WaitingInv', SwitchInv, NEW t \in Threads, ThreadNotifies(t)
  PROVE  SwitchInv' /\ (Switch!Tell \/ UNCHANGED Switch!switchVars)
<1> USE DEF WaitingInv, BaseInv, TypeOK, HandlerTypeOK, ReporterTypeOK, Handlers
<1>1. Notify(t) /\ UNCHANGED handlerVars /\ UNCHANGED serviceVars
  BY DEF ThreadNotifies
<1>2. /\ Reporting(t)
      /\ \A u \in Threads : u # t => pending'[u] = pending[u] /\ notify'[u] = notify[u]
  BY <1>1 DEF Notify, NotifySkip, NotifyPass, NotifySet, NotifySend
<1>3. SessionPlaced /\ SessionPlaced'
  BY SessionFound, PTL
<1>4. LoopsStay
  BY <1>1, HandlersLeft
<1>5. TheSession' = TheSession /\ Asked' = Asked
  <2>1. CASE \A c \in Connects : runner[c] # "loop"
    BY <1>3, <1>4, <2>1 DEF SessionPlaced, LoopsStay
  <2>2. ASSUME NEW c \in Connects, runner[c] = "loop"
        PROVE  TheSession' = TheSession /\ Asked' = Asked
    BY <1>1, <1>3, <2>2 DEF SessionPlaced, SessionIs, handlerVars
  <2> QED
    BY <2>1, <2>2
<1>6. CASE t \in Connects
  <2>1. runner[t] = "loop" /\ \A c \in Connects : runner[c] = "loop" => c = t
    BY <1>2, <1>6 DEF TruthInv, LoopsReport, OneActive, Active
  <2>2. /\ ReportsSession(t)'
        /\ \/ sCurrentConnectionStatus' = sCurrentConnectionStatus
           \/ /\ core[target[t]] \in {"connecting", "connected", "reconnecting"}
              /\ sCurrentConnectionStatus' = StatusOf(core[target[t]])
           \/ /\ core[target[t]] = "exiting"
              /\ sCurrentConnectionStatus' \in {"AUTHENTICATION_FAILURE", "DISCONNECTED"}
    BY <1>1, <1>2, <1>6, <2>1, RunnerTells
  <2>3. \A d \in Disconnects : pending'[d] = pending[d]
    BY <1>2, <1>6, ThreadsAssumption
  <2>4. SwitchInv'
    BY <1>4, <2>1, <2>2, <2>3 DEF SwitchInv, ReportsEnd, LoopsStay
  <2>5. TheSession = core[target[t]]
    BY <1>3, <1>6, <2>1 DEF SessionPlaced, SessionIs
  <2>6. core[target[t]] \in {"connecting", "connected", "reconnecting"} =>
          Switch!Says[core[target[t]]] = StatusOf(core[target[t]])
    BY StatusOfValue DEF Switch!Says
  <2> QED
    BY <1>5, <2>2, <2>4, <2>5, <2>6 DEF Switch!Tell, Switch!Announced, Switch!switchVars
<1>7. CASE t \in Disconnects
  <2>1. /\ ReportsEnd(t)'
        /\ \/ sCurrentConnectionStatus' = sCurrentConnectionStatus
           \/ sCurrentConnectionStatus' \in {"DISCONNECTED", "PERMISSION_REVOKED"}
    BY <1>1, <1>2, <1>7, EnderTells
  <2>2. \A c \in Connects : pending'[c] = pending[c] /\ notify'[c] = notify[c]
    BY <1>2, <1>7, ThreadsAssumption
  <2>3. sCurrentConnectionStatus \in OfflineStatus => sCurrentConnectionStatus' \in OfflineStatus
    BY <2>1 DEF OfflineStatus
  <2>4. SwitchInv'
    <3>1. \A d \in Disconnects : ReportsEnd(d)'
      BY <1>2, <2>1, ThreadsAssumption DEF SwitchInv, ReportsEnd
    <3>2. ASSUME NEW c \in Connects, runner'[c] = "loop" PROVE ReportsSession(c)'
      <4>1. ReportsSession(c)
        BY <1>4, <3>2 DEF SwitchInv, LoopsStay
      <4>2. /\ core'[target'[c]] = core[target[c]]
            /\ pending'[c] = pending[c] /\ notify'[c] = notify[c]
        BY <1>1, <2>2 DEF handlerVars
      <4> QED
        BY <2>3, <4>1, <4>2, Zenon DEF ReportsSession
    <3> QED
      BY <3>1, <3>2 DEF SwitchInv
  <2>5. Asked \/ TheSession = "off"
    <3>1. CASE \A c \in Connects : runner[c] # "loop"
      BY <1>3, <3>1 DEF SessionPlaced
    <3>2. ASSUME NEW c \in Connects, runner[c] = "loop" PROVE Asked
      <4>1. SessionIs(c) /\ CanRun(target[c])
        BY <1>3, <3>2 DEF SessionPlaced, SessionIs, CanRun
      <4>2. disconnector[t] = "notify"
        BY <1>7 DEF ThreadNotifies
      <4> QED
        BY <1>7, <4>1, <4>2 DEF SessionIs, TruthInv, StopsTaken
    <3> QED
      BY <3>1, <3>2
  <2> QED
    BY <1>5, <2>1, <2>4, <2>5 DEF Switch!Tell, Switch!switchVars
<1> QED
  BY <1>6, <1>7, ThreadsAssumption

LEMMA DiesOff ==
  ASSUME WaitingInv, WaitingInv', SwitchInv, ProcessDeath
  PROVE  SwitchInv' /\ Switch!Die
<1>1. \A c \in Connects : runner'[c] # "loop"
  BY DEF ProcessDeath, HandlersDie
<1>2. \A t \in Threads : pending'[t] = <<>>
  BY DEF ProcessDeath, ReporterDies
<1>3. SwitchInv'
  BY <1>1, <1>2, ThreadsAssumption DEF SwitchInv, ReportsEnd
<1>4. SessionPlaced'
  BY SessionFound, PTL
<1> QED
  BY <1>1, <1>3, <1>4 DEF SessionPlaced, ProcessDeath, ReporterDies, Switch!Die

LEMMA NextSwitch ==
  ASSUME WaitingInv, WaitingInv', SwitchInv, [Next]_vars
  PROVE  SwitchInv' /\ [Switch!Next]_Switch!switchVars
<1>1. ASSUME LoopsStay, UNCHANGED sCurrentConnectionStatus
      PROVE  [Switch!Next]_Switch!switchVars
  BY <1>1, SessionStays DEF Switch!Next
<1>2. ASSUME LoopsStay, UNCHANGED reporterVars
      PROVE  SwitchInv' /\ [Switch!Next]_Switch!switchVars
  BY <1>1, <1>2, SwitchKept DEF reporterVars
<1>3. ASSUME NEW c \in Connects, ConnectorStep(c)
      PROVE  SwitchInv' /\ [Switch!Next]_Switch!switchVars
  BY <1>2, <1>3, ConnectorLoops
<1>4. ASSUME NEW c \in Connects, RunnerStep(c), UNCHANGED serviceVars
      PROVE  SwitchInv' /\ [Switch!Next]_Switch!switchVars
  <2>1. CASE EvalConfig(c) \/ CoreRefuse(c) \/ PollerExit(c)
    BY <1>2, <2>1, RunnerLoops
  <2>2. CASE CoreConnect(c)
    BY <2>2, StartsSession DEF Switch!Next
  <2>3. CASE ConnectReturns(c)
    BY <2>3, EndsSession DEF Switch!Next
  <2>4. CASE CoreAttempt(c)
    <3>1. SwitchInv' /\ Switch!Move({"started", "reconnecting"}, "connecting")
      BY <1>4, <2>4, MovesSession, EventStatusesValue, StatusOfValue DEF CoreAttempt
    <3> QED
      BY <3>1 DEF Switch!Next, Switch!Attempt
  <2>5. CASE CoreConnected(c)
    <3>1. SwitchInv' /\ Switch!Move({"connecting"}, "connected")
      BY <1>4, <2>5, MovesSession, EventStatusesValue, StatusOfValue DEF CoreConnected
    <3> QED
      BY <3>1 DEF Switch!Next, Switch!Connected
  <2>6. CASE CoreReconnecting(c)
    <3>1. SwitchInv' /\ Switch!Move({"connecting", "connected"}, "reconnecting")
      BY <1>4, <2>6, MovesSession, EventStatusesValue, StatusOfValue DEF CoreReconnecting
    <3> QED
      BY <3>1 DEF Switch!Next, Switch!Reconnect
  <2>7. CASE CoreExit(c)
    <3>1. PICK a \in BOOLEAN : Emit(c, "exiting", "EXITING", a)
      BY <2>7 DEF CoreExit
    <3>2. core[target[c]] \in Switch!Announced \cup {"started"}
      BY <2>7 DEF CoreExit, Running, Switch!Announced
    <3>3. EventStatuses("EXITING", a) \in {<<"DISCONNECTED">>,
                                           <<"AUTHENTICATION_FAILURE", "DISCONNECTED">>}
      BY EventStatusesValue
    <3>4. SwitchInv' /\ Switch!Move(Switch!Announced \cup {"started"}, "exiting")
      BY <1>4, <3>1, <3>2, <3>3, MovesSession
    <3> QED
      BY <3>4 DEF Switch!Next, Switch!Exit
  <2> QED
    BY <1>4, <2>1, <2>2, <2>3, <2>4, <2>5, <2>6, <2>7 DEF RunnerStep, CoreEvent
<1>5. ASSUME NEW d \in Disconnects, DisconnectorStep(d)
      PROVE  SwitchInv' /\ [Switch!Next]_Switch!switchVars
  BY <1>2, <1>5, DisconnectorLoops
<1>6. ASSUME NEW t \in Threads, ThreadNotifies(t)
      PROVE  SwitchInv' /\ [Switch!Next]_Switch!switchVars
  BY <1>6, TellsStatus DEF Switch!Next
<1>7. CASE Command
  BY <1>1, <1>7, CommandSwitch
<1>8. CASE OnDestroy \/ StickyRestart
  BY <1>2, <1>8, SystemLoops
<1>9. CASE ProcessDeath
  BY <1>9, DiesOff DEF Switch!Next
<1>10. CASE UNCHANGED vars
  <2>1. UNCHANGED handlerVars /\ UNCHANGED reporterVars
    BY <1>10 DEF vars
  <2> QED
    BY <1>2, <2>1, HandlersLeft
<1> QED
  BY <1>3, <1>4, <1>5, <1>6, <1>7, <1>8, <1>9, <1>10 DEF Next, ThreadStep

(* For a client that waits for what its last command set off, and          *)
(* disconnects before it connects again, the threads of PolarVpnService    *)
(* (250-305), the runners and the two copies of the report are one switch: *)
(* one session at a time, told of in the order of its states.              *)
THEOREM ServiceIsASwitch ==
  ASSUME Environment = "polite"
  PROVE  Spec => ImplementsVpnSwitch
<1>1. Spec => []WaitingInv
  BY PoliteInvariant DEF WaitingInv
<1>2. Init => SwitchInv
  BY InitSwitch
<1>3. Init => Switch!Init
  <2>1. ASSUME Init PROVE Switch!Init
    <3>1. \A h \in Handlers : ~Live(h)
      BY <2>1 DEF Init, HandlerInit, Live, Running
    <3>2. TheSession = "off" /\ Asked = FALSE
      BY <3>1, Zenon DEF TheSession, Asked
    <3> QED
      BY <2>1, <3>2 DEF Init, ReporterInit, Switch!Init
  <2> QED
    BY <2>1
<1>4. WaitingInv /\ WaitingInv' /\ SwitchInv /\ [Next]_vars
        => SwitchInv' /\ [Switch!Next]_Switch!switchVars
  BY NextSwitch
<1> QED
  BY <1>1, <1>2, <1>3, <1>4, PTL DEF Spec, ImplementsVpnSwitch, Switch!Spec

=============================================================================
