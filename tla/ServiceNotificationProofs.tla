---------------------- MODULE ServiceNotificationProofs ----------------------
(***************************************************************************)
(* Proofs about ServiceNotification, for any number of commands, instances *)
(* and deaths and in every environment: its threads are the threads of     *)
(* PolarVpnService, whose theorems hold of it therefore, and from Android  *)
(* 8 on a runner always finds the builder of the notification.             *)
(***************************************************************************)
EXTENDS ServiceNotification, PolarVpnServiceProofs

-----------------------------------------------------------------------------
(* The notification adds steps to the threads and takes none away. *)

(* A step of this module is a step of PolarVpnService, or invisible to it. *)
LEMMA NoticeStep == [NoticeNext]_allVars => [Next]_vars
<1> SUFFICES ASSUME [NoticeNext]_allVars PROVE [Next]_vars
    OBVIOUS
<1>1. ASSUME NEW c \in Connects, PrepareStep(c) PROVE [Next]_vars
      BY <1>1 DEF PrepareStep, AssignFields, PrepareThrows, Promote, StartForeground,
                  ConnectorStep, ThreadStep, Next
<1>2. ASSUME NEW c \in Connects, UpdateNotice(c) \/ PostNotice(c) PROVE [Next]_vars
      BY <1>2 DEF UpdateNotice, PostNotice
<1>3. ASSUME NEW c \in Connects,
             \/ ConnectorStep(c)
             \/ RunnerStep(c) /\ UNCHANGED serviceVars
      PROVE  [Next]_vars
      BY <1>3 DEF RunnerStep, ThreadStep, Next
<1>4. ASSUME NEW d \in Disconnects,
             CacheCustom(d) \/ DisconnectStop(d) \/ DisconnectSelf(d)
      PROVE  [Next]_vars
      BY <1>4 DEF CacheCustom, DisconnectorStep, ThreadStep, Next
<1>5. ASSUME NEW t \in Threads, NoticeNotifies(t) PROVE [Next]_vars
      BY <1>5 DEF NoticeNotifies, ThreadStep, Next
<1>6. CASE NoticeCommand
      BY <1>6 DEF NoticeCommand, Next
<1>7. CASE NoticeDestroy \/ NoticeDeath \/ StickyRestart
      BY <1>7 DEF NoticeDestroy, NoticeDeath, Next
<1>8. CASE UNCHANGED allVars
      BY <1>8 DEF allVars
<1> QED
    BY <1>1, <1>2, <1>3, <1>4, <1>5, <1>6, <1>7, <1>8 DEF NoticeNext

(* What the notification adds leaves the threads of PolarVpnService as     *)
(* they are: a behavior with notifications is one of PolarVpnService, with *)
(* all that is proved of it (PolarVpnService 389-419 after 377-387).       *)
THEOREM NoticeIsService == NoticeSpec => Spec
<1>1. NoticeInit => Init
      BY DEF NoticeInit
<1> QED
    BY <1>1, NoticeStep, PTL DEF NoticeSpec, Spec

(* So with notifications, too, the service is a switch to a client that    *)
(* waits (PolarVpnService 250-305, 377-387).                               *)
THEOREM NoticeIsASwitch ==
  ASSUME Environment = "polite"
  PROVE  NoticeSpec => ImplementsVpnSwitch
BY NoticeIsService, ServiceIsASwitch, PTL

-----------------------------------------------------------------------------
(* The inductive invariant of BuilderThere. *)

(* Connect c is past prepareConnection, in a process that lives. *)
Working(c) ==
  connector[c] \in {"init", "assign", "replace", "install"}
  \/ runner[c] \notin {"none", "dead"}

(* Instance i has a builder, or needs none. *)
Covered(i) == mNotificationBuilder[i] # "null" \/ currentCustomNotification

Steps == {"no", "fields", "build", "default", "custom", "nothing", "cached"}

NoticeShape ==
  /\ mNotificationBuilder \in [Instances -> Status \cup {"null"}]
  /\ currentCustomNotificationId \in {"default", "custom"}
  /\ step \in [Threads -> Steps]
  /\ showing \in [Connects -> [at: {"no", "test", "post", "exception"}, status: Status]]

(* What promoteToForeground leaves behind lasts as long as a runner can    *)
(* report, and a report that is not over belongs to such a runner.         *)
Prepared(c) ==
  /\ step[c] # "nothing"
  /\ step[c] # "no" => connector[c] # "none"
  /\ step[c] \in {"build", "default", "custom"} \/ Working(c) => Covered(svc[c])
  /\ pending[c] # <<>> \/ showing[c].at # "no" => runner[c] \notin {"none", "dead"}
  /\ showing[c].at # "exception"

NoticeInv == BaseInv /\ NoticeShape /\ \A c \in Connects : Prepared(c)

(* Nothing is prepared or reported in the first state. *)
LEMMA InitNotice == NoticeInit => NoticeInv
<1> SUFFICES ASSUME NoticeInit PROVE NoticeInv
    OBVIOUS
<1>1. BaseInv
      BY InitBase DEF NoticeInit
<1>2. NoticeShape
      BY DEF NoticeInit, NoticeShape, Steps, Idle, Status
<1>3. \A c \in Connects : Prepared(c)
      BY ConnectsAssumption
      DEF NoticeInit, Init, ReporterInit, HandlerInit, ServiceInit, Prepared, Working, Idle
<1> QED
    BY <1>1, <1>2, <1>3 DEF NoticeInv

-----------------------------------------------------------------------------
(* The steps of a connectThread that prepares, and of the update. *)

LEMMA PrepareNotice ==
  ASSUME Oreo, NoticeInv, NEW c \in Connects, PrepareStep(c)
  PROVE  NoticeShape' /\ \A k \in Connects : Prepared(k)'
<1> USE ConnectsAssumption DEF NoticeInv, NoticeShape, Prepared, Steps
<1> USE DEF BaseInv, TypeOK, ServiceTypeOK, Placed
<1>1. CASE AssignFields(c)
  <2>1. /\ connector[c] = "prepare"
        /\ step' = [step EXCEPT ![c] = "fields"]
        /\ UNCHANGED <<connector, runner, svc, pending, showing, mNotificationBuilder,
                       currentCustomNotification, currentCustomNotificationId>>
        BY <1>1 DEF AssignFields, vars, serviceVars, handlerVars, reporterVars, staticVars
  <2>2. NoticeShape'
        BY <2>1
  <2>3. ASSUME NEW k \in Connects PROVE Prepared(k)'
    <3>1. step'[k] \in {step[k], "fields"} /\ (step'[k] # step[k] => k = c)
          BY <2>1
    <3>2. step'[k] \in {"build", "default", "custom"} => step[k] = step'[k]
          BY <3>1
    <3>3. step'[k] # "nothing" /\ (step'[k] # "no" => connector[k] # "none")
          BY <2>1, <3>1
    <3>4. step'[k] \in {"build", "default", "custom"} \/ Working(k)' => Covered(svc[k])'
          BY <2>1, <3>2 DEF Working, Covered
    <3>5. /\ pending'[k] # <<>> \/ showing'[k].at # "no" => runner'[k] \notin {"none", "dead"}
          /\ showing'[k].at # "exception"
          BY <2>1
    <3> QED
        BY <2>1, <3>3, <3>4, <3>5
  <2> QED
      BY <2>2, <2>3
<1>2. CASE PrepareThrows(c)
  <2>1. /\ connector' = [connector EXCEPT ![c] = "failed"]
        /\ UNCHANGED <<runner, svc, pending, step, showing, mNotificationBuilder,
                       currentCustomNotification, currentCustomNotificationId>>
        BY <1>2 DEF PrepareThrows, PrepareConnection, Advance, noticeVars, handlerVars,
                    reporterVars
  <2>2. NoticeShape'
        BY <2>1
  <2>3. ASSUME NEW k \in Connects PROVE Prepared(k)'
    <3>1. connector'[k] \in {connector[k], "failed"}
          BY <2>1
    <3>2. Working(k)' => Working(k)
          BY <2>1, <3>1 DEF Working
    <3>3. step[k] # "no" => connector'[k] # "none"
          BY <3>1
    <3>4. (step[k] \in {"build", "default", "custom"} \/ Working(k)') => Covered(svc[k])'
          BY <2>1, <3>2 DEF Covered
    <3> QED
        BY <2>1, <3>3, <3>4
  <2> QED
      BY <2>2, <2>3
<1>3. CASE Promote(c)
  <2>1. /\ connector[c] = "prepare" /\ svc[c] \in Instances
        /\ UNCHANGED <<connector, runner, svc, pending, showing>>
        BY <1>3 DEF Promote, vars, serviceVars, handlerVars, reporterVars
  <2>2. /\ currentCustomNotification => currentCustomNotification'
        /\ currentCustomNotificationId' \in {"default", "custom"}
        /\ mNotificationBuilder' \in [Instances -> Status \cup {"null"}]
        /\ \A i \in Instances :
             mNotificationBuilder[i] # "null" => mNotificationBuilder'[i] # "null"
    <3>1. PICK found \in MayFind(svc[c]) :
            /\ currentCustomNotification' = (currentCustomNotification \/ found)
            /\ currentCustomNotificationId' =
                 IF found THEN "custom" ELSE currentCustomNotificationId
          BY <1>3 DEF Promote
    <3>2. \/ UNCHANGED mNotificationBuilder
          \/ mNotificationBuilder' = [mNotificationBuilder EXCEPT ![svc[c]] = "INITIALIZING"]
          BY <1>3 DEF Promote
    <3>3. currentCustomNotification => currentCustomNotification'
          BY <3>1, Zenon
    <3>4. currentCustomNotificationId' \in {"default", "custom"}
          BY <3>1
    <3>5. /\ mNotificationBuilder' \in [Instances -> Status \cup {"null"}]
          /\ \A i \in Instances :
               mNotificationBuilder[i] # "null" => mNotificationBuilder'[i] # "null"
          BY <2>1, <3>2 DEF Status
    <3> QED
        BY <3>3, <3>4, <3>5
  <2>3. /\ step' \in [Threads -> Steps]
        /\ \A k \in Connects : k # c => step'[k] = step[k]
        /\ step'[c] \in {"build", "default", "custom"}
        /\ mNotificationBuilder'[svc[c]] # "null" \/ currentCustomNotification'
    <3>1. PICK found \in MayFind(svc[c]) :
            LET custom == customNotificationId[svc[c]]
                          /\ (found \/ currentCustomNotification) IN
            /\ currentCustomNotification' = (currentCustomNotification \/ found)
            /\ \/ custom /\ step' = [step EXCEPT ![c] = currentCustomNotificationId']
               \/ /\ step' = [step EXCEPT ![c] = "build"]
                  /\ mNotificationBuilder' =
                       [mNotificationBuilder EXCEPT ![svc[c]] = "INITIALIZING"]
          BY <1>3 DEF Promote, BuildsDefault
    <3>2. CASE /\ found \/ currentCustomNotification
               /\ step' = [step EXCEPT ![c] = currentCustomNotificationId']
      <4>1. currentCustomNotification'
            BY <3>1, <3>2, Zenon
      <4> QED
          BY <2>2, <3>2, <4>1
    <3>3. CASE /\ step' = [step EXCEPT ![c] = "build"]
               /\ mNotificationBuilder' =
                    [mNotificationBuilder EXCEPT ![svc[c]] = "INITIALIZING"]
          BY <2>1, <3>3
    <3> QED
        BY <3>1, <3>2, <3>3, Zenon
  <2>4. ASSUME NEW k \in Connects PROVE Prepared(k)'
    <3>1. CASE k = c
          BY <2>1, <2>3, <3>1 DEF Working, Covered
    <3>2. CASE k # c
      <4>1. connector[k] # "none" => svc[k] \in Instances
            OBVIOUS
      <4>2. step[k] \in {"build", "default", "custom"} \/ Working(k)
              => connector[k] # "none"
            BY DEF Working
      <4> QED
          BY <2>1, <2>2, <2>3, <3>2, <4>1, <4>2 DEF Working, Covered
    <3> QED
        BY <3>1, <3>2
  <2> QED
      BY <2>1, <2>2, <2>3, <2>4
<1>4. CASE StartForeground(c)
      BY <1>4 DEF StartForeground, PrepareConnection, Advance, Working, Covered,
                  fieldVars, staticVars, handlerVars, reporterVars
<1> QED
    BY <1>1, <1>2, <1>3, <1>4 DEF PrepareStep

LEMMA UpdateNoticeInv ==
  ASSUME Oreo, NoticeInv, NEW c \in Connects, UpdateNotice(c) \/ PostNotice(c)
  PROVE  NoticeShape' /\ \A k \in Connects : Prepared(k)'
<1> USE ConnectsAssumption DEF NoticeInv, NoticeShape, Prepared
<1> USE DEF vars, serviceVars, handlerVars, reporterVars, staticVars, fieldVars, Idle
<1>1. CASE UpdateNotice(c)
  <2>1. /\ showing[c].at = "test" /\ Working(c)
        /\ Covered(svc[c])
        /\ UNCHANGED <<connector, runner, svc, pending, step, currentCustomNotification,
                       currentCustomNotificationId>>
        BY <1>1 DEF UpdateNotice, Working
  <2>2. /\ showing' \in [Connects -> [at: {"no", "test", "post", "exception"},
                                      status: Status]]
        /\ \A k \in Connects : k # c => showing'[k] = showing[k]
        /\ showing'[c].at # "exception"
        /\ mNotificationBuilder' \in [Instances -> Status \cup {"null"}]
        /\ \A i \in Instances :
             mNotificationBuilder[i] # "null" => mNotificationBuilder'[i] # "null"
    <3>1. CASE ~Shows(svc[c])
          BY <1>1, <2>1, <3>1 DEF UpdateNotice, Status
    <3>2. CASE Shows(svc[c])
      <4>1. mNotificationBuilder[svc[c]] # "null"
            BY <2>1, <3>2 DEF Covered, Shows
      <4>2. /\ showing' = [showing EXCEPT ![c].at = "post"]
            /\ mNotificationBuilder' =
                 [mNotificationBuilder EXCEPT ![svc[c]] = showing[c].status]
            BY <1>1, <3>2, <4>1 DEF UpdateNotice
      <4>3. showing[c].status \in Status /\ "null" \notin Status
            BY DEF Status
      <4>4. showing'[c] = [showing[c] EXCEPT !.at = "post"]
            BY <4>2
      <4>5. showing' \in [Connects -> [at: {"no", "test", "post", "exception"},
                                      status: Status]]
            BY <4>2, <4>3
      <4> QED
          BY <4>2, <4>3, <4>4, <4>5
    <3> QED
        BY <3>1, <3>2
  <2>3. \A k \in Connects :
          step[k] \in {"build", "default", "custom"} \/ Working(k) => svc[k] \in Instances
        BY DEF BaseInv, Placed, Working
  <2> QED
      BY <2>1, <2>2, <2>3 DEF Working, Covered
<1>2. CASE PostNotice(c)
      BY <1>2 DEF PostNotice, Working, Covered, Status
<1> QED
    BY <1>1, <1>2

-----------------------------------------------------------------------------
(* The steps of PolarVpnService that the notification takes no part in. *)

InProcess(c) == runner[c] \notin {"none", "dead"}

(* A connectThread keeps its instance, nothing begins to work out of order *)
(* and no runner goes while it has something to report.                    *)
Keeps ==
  \A k \in Connects :
    /\ connector[k] # "none" => connector'[k] # "none" /\ svc'[k] = svc[k]
    /\ Working(k)' => Working(k)
    /\ pending'[k] # <<>> => pending[k] # <<>> \/ InProcess(k)'
    /\ InProcess(k) => InProcess(k)'

LEMMA KeepsNotice ==
  ASSUME NoticeInv, Keeps,
         UNCHANGED <<mNotificationBuilder, currentCustomNotification,
                     currentCustomNotificationId, step, showing>>
  PROVE  NoticeShape' /\ \A k \in Connects : Prepared(k)'
<1>1. NoticeShape'
      BY DEF NoticeInv, NoticeShape
<1>2. ASSUME NEW k \in Connects PROVE Prepared(k)'
  <2>1. Working(k) \/ step[k] # "no" => connector[k] # "none"
        BY DEF NoticeInv, Prepared, BaseInv, Placed, Working
  <2>2. (step[k] \in {"build", "default", "custom"} \/ Working(k)') => Covered(svc[k])'
        BY <2>1 DEF NoticeInv, Prepared, Covered, Keeps
  <2>3. (pending'[k] # <<>> \/ showing[k].at # "no") => InProcess(k)'
        BY DEF NoticeInv, Prepared, InProcess, Keeps
  <2> QED
      BY <2>1, <2>2, <2>3 DEF NoticeInv, Prepared, InProcess, Keeps
<1> QED
    BY <1>1, <1>2

LEMMA ConnectorKeeps ==
  ASSUME BaseInv, NEW c \in Connects, connector[c] # "prepare", ConnectorStep(c)
  PROVE  Keeps
<1> USE DEF BaseInv, TypeOK, HandlerTypeOK, ServiceTypeOK, Keeps, Working, InProcess,
        reporterVars, handlerVars, Advance
<1>1. ~PrepareConnection(c)
      BY DEF PrepareConnection
<1>2. CASE PublishConfig(c)
      BY <1>2 DEF PublishConfig
<1>3. CASE InitConfig(c)
      BY <1>3 DEF InitConfig
<1>4. CASE Replace(c)
      BY <1>4 DEF Replace
<1>5. CASE Install(c)
      BY <1>5 DEF Install
<1>6. CASE ReadManagement(c)
      BY <1>6 DEF ReadManagement, serviceVars
<1>7. CASE ReportError(c)
      BY <1>7 DEF ReportError
<1>8. CASE InstallThrows(c)
      BY <1>8 DEF InstallThrows
<1> QED
    BY <1>1, <1>2, <1>3, <1>4, <1>5, <1>6, <1>7, <1>8 DEF ConnectorStep

LEMMA RunnerKeeps ==
  ASSUME BaseInv, NEW c \in Connects, RunnerStep(c), UNCHANGED serviceVars
  PROVE  Keeps
<1> USE DEF BaseInv, TypeOK, HandlerTypeOK, ReporterTypeOK, Keeps, Working, InProcess,
        serviceVars, reporterVars
<1>1. CASE EvalConfig(c)
      BY <1>1 DEF EvalConfig
<1>2. CASE CoreConnect(c)
      BY <1>2 DEF CoreConnect
<1>3. CASE CoreRefuse(c)
      BY <1>3 DEF CoreRefuse
<1>4. CASE ConnectReturns(c)
      BY <1>4 DEF ConnectReturns
<1>5. CASE PollerExit(c)
      BY <1>5 DEF PollerExit
<1>6. CASE CoreEvent(c)
  <2>1. ASSUME NEW state, NEW name, NEW a, Emit(c, state, name, a) PROVE Keeps
    <3>1. c \in Threads
          BY ConnectsAssumption
    <3>2. /\ runner[c] = "loop" /\ runner' = runner
          /\ pending' = [pending EXCEPT ![c] = EventStatuses(name, a)]
          BY <2>1 DEF Emit
    <3> QED
        BY <3>1, <3>2
  <2> QED
      BY <1>6, <2>1 DEF CoreEvent, CoreAttempt, CoreConnected, CoreReconnecting, CoreExit
<1> QED
    BY <1>1, <1>2, <1>3, <1>4, <1>5, <1>6 DEF RunnerStep

LEMMA CommandKeeps ==
  ASSUME BaseInv, Command
  PROVE  Keeps
<1> USE ThreadsAssumption
    DEF BaseInv, TypeOK, ReporterTypeOK, ServiceTypeOK, Placed, Keeps, Working, InProcess,
        handlerVars, reporterVars
<1>1. ASSUME NEW c \in Connects, StartConnect(c) PROVE Keeps
      BY <1>1 DEF StartConnect
<1>2. ASSUME NEW d \in Disconnects, StartDisconnect(d) \/ OnRevoke(d) PROVE Keeps
      BY <1>2 DEF StartDisconnect, OnRevoke, Disconnect
<1>3. CASE UpdateLogging
      BY <1>3 DEF UpdateLogging
<1> QED
    BY <1>1, <1>2, <1>3 DEF Command

LEMMA OtherKeeps ==
  ASSUME BaseInv,
         \/ \E d \in Disconnects : DisconnectStop(d) \/ DisconnectSelf(d)
         \/ OnDestroy \/ StickyRestart
         \/ UNCHANGED vars
  PROVE  Keeps
<1> USE DEF Keeps, Working, InProcess, vars, serviceVars, handlerVars, reporterVars
<1>1. ASSUME NEW d \in Disconnects, DisconnectStop(d) \/ DisconnectSelf(d) PROVE Keeps
      BY <1>1 DEF DisconnectStop, DisconnectSelf
<1>2. CASE OnDestroy
      BY <1>2 DEF OnDestroy
<1>3. CASE StickyRestart
      BY <1>3 DEF StickyRestart
<1>4. CASE UNCHANGED vars
      BY <1>4
<1> QED
    BY <1>1, <1>2, <1>3, <1>4

LEMMA NotifyKeeps ==
  ASSUME BaseInv, NEW t \in Threads, ThreadNotifies(t)
  PROVE  /\ Keeps
         /\ runner' = runner
         /\ notify[t] = "send" => pending[t] # <<>> /\ Head(pending[t]) \in Status
<1> USE DEF BaseInv, TypeOK, ReporterTypeOK, Keeps, Working, InProcess, Reporting
<1>1. /\ Notify(t)
      /\ UNCHANGED <<connector, svc, runner>>
      BY DEF ThreadNotifies, handlerVars, serviceVars
<1>2. \A k \in Threads : pending'[k] # <<>> => pending[k] # <<>>
  <2>1. CASE NotifySkip(t)
        BY <2>1 DEF NotifySkip
  <2>2. CASE NotifyPass(t) \/ NotifySet(t)
        BY <2>2 DEF NotifyPass, NotifySet
  <2>3. CASE NotifySend(t)
        BY <2>3 DEF NotifySend
  <2> QED
      BY <1>1, <2>1, <2>2, <2>3 DEF Notify
<1>3. Keeps
  <2>1. /\ UNCHANGED <<connector, svc, runner>>
        /\ \A k \in Connects : pending'[k] # <<>> => pending[k] # <<>>
        BY <1>1, <1>2, ConnectsAssumption
  <2> QED
      BY <2>1
<1>4. notify[t] = "send" => pending[t] # <<>> /\ Head(pending[t]) \in Status
      OBVIOUS
<1> QED
    BY <1>1, <1>3, <1>4

-----------------------------------------------------------------------------
(* The steps of the notification outside prepareConnection. *)

(* A runner that has sent an intent goes on to the notification. *)
LEMMA NotifyNotice ==
  ASSUME NoticeInv, NEW t \in Threads, NoticeNotifies(t)
  PROVE  NoticeShape' /\ \A k \in Connects : Prepared(k)'
<1>1. /\ ThreadNotifies(t) /\ Keeps /\ runner' = runner
      /\ notify[t] = "send" => pending[t] # <<>> /\ Head(pending[t]) \in Status
      /\ UNCHANGED <<mNotificationBuilder, currentCustomNotification,
                     currentCustomNotificationId, step>>
      BY NotifyKeeps DEF NoticeInv, NoticeNotifies, staticVars
<1>2. CASE UNCHANGED showing
      BY <1>1, <1>2, KeepsNotice
<1>3. CASE /\ t \in Connects /\ notify[t] = "send"
           /\ showing' = [showing EXCEPT ![t] = [at |-> "test", status |-> Head(pending[t])]]
  <2>1. NoticeShape'
        BY <1>1, <1>3 DEF NoticeInv, NoticeShape
  <2>2. ASSUME NEW k \in Connects PROVE Prepared(k)'
    <3>1. Working(k) \/ step[k] # "no" => connector[k] # "none"
          BY DEF NoticeInv, Prepared, BaseInv, Placed, Working
    <3>2. (step[k] \in {"build", "default", "custom"} \/ Working(k)') => Covered(svc[k])'
          BY <1>1, <3>1 DEF NoticeInv, Prepared, Covered, Keeps
    <3>3. showing'[k] = showing[k] \/ (k = t /\ showing'[k].at = "test")
          BY <1>3 DEF NoticeInv, NoticeShape
    <3>4. InProcess(t)
          BY <1>1, <1>3 DEF NoticeInv, Prepared, InProcess
    <3>5. (pending'[k] # <<>> \/ showing'[k].at # "no") => InProcess(k)'
          BY <1>1, <3>3, <3>4 DEF NoticeInv, Prepared, InProcess, Keeps
    <3>6. showing'[k].at # "exception"
          BY <3>3 DEF NoticeInv, Prepared
    <3> QED
        BY <1>1, <3>1, <3>2, <3>5, <3>6 DEF NoticeInv, Prepared, InProcess, Keeps
  <2> QED
      BY <2>1, <2>2
<1> QED
    BY <1>2, <1>3 DEF NoticeNotifies

(* A custom notification that is found on a disconnect only helps. *)
LEMMA CacheNotice ==
  ASSUME NoticeInv, NEW d \in Disconnects, CacheCustom(d)
  PROVE  NoticeShape' /\ \A k \in Connects : Prepared(k)'
<1>1. /\ step' = [step EXCEPT ![d] = "cached"]
      /\ currentCustomNotification => currentCustomNotification'
      /\ UNCHANGED <<connector, runner, svc, pending, showing, mNotificationBuilder,
                     currentCustomNotificationId>>
  <2>1. PICK found \in MayFind(svc[d]) :
          currentCustomNotification' = (currentCustomNotification \/ found)
        BY DEF CacheCustom
  <2>2. currentCustomNotification => currentCustomNotification'
        BY <2>1, Zenon
  <2> QED
      BY <2>2 DEF CacheCustom, vars, serviceVars, handlerVars, reporterVars
<1>2. \A k \in Connects : step'[k] = step[k]
      BY <1>1, ThreadsAssumption DEF NoticeInv, NoticeShape
<1>3. NoticeShape'
      BY <1>1 DEF NoticeInv, NoticeShape, Steps
<1>4. \A k \in Connects : Prepared(k)'
      BY <1>1, <1>2 DEF NoticeInv, Prepared, Working, Covered
<1> QED
    BY <1>3, <1>4

(* Nothing is at work in a process that has died. *)
LEMMA DeathNotice ==
  ASSUME NoticeInv, NoticeDeath
  PROVE  NoticeShape' /\ \A k \in Connects : Prepared(k)'
<1>1. NoticeShape'
      BY DEF NoticeInv, NoticeShape, NoticeDeath, Steps, Idle, Status
<1>2. ASSUME NEW k \in Connects PROVE Prepared(k)'
  <2>1. /\ step'[k] = "no" /\ showing'[k].at = "no" /\ pending'[k] = <<>>
        /\ runner'[k] \in {"none", "dead"}
        /\ connector'[k] \notin {"init", "assign", "replace", "install"}
        BY ConnectsAssumption
        DEF NoticeDeath, Idle, ProcessDeath, ReporterDies, HandlersDie, Preparing
  <2> QED
      BY <2>1 DEF Prepared, Working
<1> QED
    BY <1>1, <1>2

(* Every step keeps the invariant, from Android 8 on. *)
LEMMA NextNotice ==
  ASSUME Oreo, NoticeInv, [NoticeNext]_allVars
  PROVE  NoticeInv'
<1> DEFINE Rest == NoticeShape' /\ \A k \in Connects : Prepared(k)'
           Frame == UNCHANGED <<mNotificationBuilder, currentCustomNotification,
                                currentCustomNotificationId, step, showing>>
<1>1. BaseInv'
      BY NoticeStep, NextBase DEF NoticeInv
<1> SUFFICES Rest
    BY <1>1 DEF NoticeInv
<1>2. ASSUME NEW c \in Connects,
             \/ PrepareStep(c)
             \/ UpdateNotice(c) \/ PostNotice(c)
      PROVE  Rest
      BY <1>2, PrepareNotice, UpdateNoticeInv
<1>3. ASSUME NEW c \in Connects,
             \/ connector[c] # "prepare" /\ ConnectorStep(c) /\ UNCHANGED noticeVars
             \/ RunnerStep(c) /\ UNCHANGED <<serviceVars, noticeVars>>
      PROVE  Rest
  <2>1. Keeps
        BY <1>3, ConnectorKeeps, RunnerKeeps DEF NoticeInv
  <2>2. Frame
        BY <1>3 DEF noticeVars
  <2> QED
      BY <2>1, <2>2, KeepsNotice
<1>4. ASSUME NEW d \in Disconnects,
             (DisconnectStop(d) \/ DisconnectSelf(d)) /\ UNCHANGED noticeVars
      PROVE  Rest
  <2>1. Keeps
        BY <1>4, OtherKeeps DEF NoticeInv
  <2>2. Frame
        BY <1>4 DEF noticeVars
  <2> QED
      BY <2>1, <2>2, KeepsNotice
<1>5. ASSUME NEW d \in Disconnects, CacheCustom(d) PROVE Rest
      BY <1>5, CacheNotice
<1>6. ASSUME NEW t \in Threads, NoticeNotifies(t) PROVE Rest
      BY <1>6, NotifyNotice
<1>7. CASE NoticeCommand
  <2>1. Keeps
        BY <1>7, CommandKeeps DEF NoticeInv, NoticeCommand
  <2>2. Frame
        BY <1>7 DEF NoticeCommand, noticeVars
  <2> QED
      BY <2>1, <2>2, KeepsNotice
<1>8. CASE NoticeDestroy \/ (StickyRestart /\ UNCHANGED noticeVars) \/ UNCHANGED allVars
  <2>1. Keeps
        BY <1>8, OtherKeeps DEF NoticeInv, NoticeDestroy, allVars
  <2>2. Frame
        BY <1>8 DEF NoticeDestroy, noticeVars, fieldVars, staticVars, allVars
  <2> QED
      BY <2>1, <2>2, KeepsNotice
<1>9. CASE NoticeDeath
      BY <1>9, DeathNotice
<1> QED
    BY <1>2, <1>3, <1>4, <1>5, <1>6, <1>7, <1>8, <1>9 DEF NoticeNext

(* From Android 8 on a runner that updates the notification finds its      *)
(* builder, however commands, sessions and deaths interleave               *)
(* (PolarVpnService 392).                                                  *)
THEOREM BuilderIsThere ==
  ASSUME Oreo
  PROVE  NoticeSpec => []BuilderThere
<1>1. NoticeInv /\ [NoticeNext]_allVars => NoticeInv'
      BY NextNotice
<1>2. NoticeInv => BuilderThere
      BY DEF NoticeInv, Prepared, BuilderThere
<1> QED
    BY InitNotice, <1>1, <1>2, PTL DEF NoticeSpec
-----------------------------------------------------------------------------
(* NoticeFollows, from Android 8 on and for a polite client.               *)

(* What becomes of the recorded status of a session that goes on: it is in *)
(* the bar, or its runner is on the way there.                             *)
Shown(c) ==
  /\ showing[c].at = "no" =>
       \/ bar = sCurrentConnectionStatus
       \/ /\ Reporting(c)
          /\ notify[c] = "idle" => sCurrentConnectionStatus \in OfflineStatus
  /\ showing[c].at # "no" => ~Reporting(c)
  /\ showing[c].at = "test" => showing[c].status = sCurrentConnectionStatus
  /\ showing[c].at = "post" => mNotificationBuilder[svc[c]] = sCurrentConnectionStatus

LoopsShow == \A c \in Connects : showing[c].at # "no" => runner[c] = "loop"

(* A session that is being set up finds an offline status recorded. *)
OfflineBefore ==
  \A c \in Connects : Active(c) /\ runner[c] # "loop" =>
    sCurrentConnectionStatus \in OfflineStatus

OfflineAtStart ==
  \A c \in Connects : runner[c] = "loop" /\ core[target[c]] = "started" =>
    sCurrentConnectionStatus \in OfflineStatus /\ ~Reporting(c) /\ showing[c].at = "no"

AllShown == \A c \in Connects : GoesOn(c) /\ ~currentCustomNotification => Shown(c)

ShowInv == LoopsShow /\ OfflineBefore /\ OfflineAtStart /\ AllShown

(* All that is known of a polite client. *)
PoliteInv == NoticeInv /\ OrderInv /\ OfflineInv /\ TruthInv

(* Without a session nothing is shown. *)
LEMMA NoLoopShow ==
  ASSUME OfflineBefore', \A c \in Connects : runner'[c] # "loop" /\ showing'[c].at = "no"
  PROVE  ShowInv'
  BY DEF ShowInv, LoopsShow, OfflineAtStart, AllShown, GoesOn

LEMMA InitShow == NoticeInit => ShowInv
  BY ConnectsAssumption
  DEF NoticeInit, Init, ReporterInit, HandlerInit, ServiceInit, ShowInv, LoopsShow,
      OfflineBefore, OfflineAtStart, AllShown, GoesOn, Idle, OfflineStatus

(* What keeps it: the reports of the runners, the bar and the builders     *)
(* left alone, the same sessions and no stop taken back.                   *)
LEMMA ShowKept ==
  ASSUME ShowInv, BaseInv,
         \A c \in Connects : pending'[c] = pending[c] /\ notify'[c] = notify[c],
         UNCHANGED <<sCurrentConnectionStatus, target, showing, bar, mNotificationBuilder>>,
         currentCustomNotification => currentCustomNotification',
         \A c \in Connects : Active(c)' => Active(c),
         \A c \in Connects : runner'[c] = "loop" <=> runner[c] = "loop",
         \A c \in Connects : runner[c] = "loop" => svc'[c] = svc[c],
         \A h \in Handlers : Live(h) \/ Live(h)' => core'[h] = core[h],
         \A h \in Handlers : stopRequested[h] => stopRequested'[h]
  PROVE  ShowInv'
<1> USE DEF ShowInv
<1>1. LoopsShow' /\ OfflineBefore'
      BY DEF LoopsShow, OfflineBefore
<1>2. ASSUME NEW c \in Connects, runner'[c] = "loop", Live(target[c])'
      PROVE  runner[c] = "loop" /\ core'[target'[c]] = core[target[c]]
             /\ (stopRequested[target[c]] => stopRequested'[target'[c]])
      BY <1>2 DEF BaseInv, TypeOK, HandlerTypeOK, RunnerHasHandler, Handlers
<1>3. OfflineAtStart'
  <2>1. ASSUME NEW c \in Connects, runner'[c] = "loop", core'[target'[c]] = "started"
        PROVE  runner[c] = "loop" /\ core[target[c]] = "started"
        BY <1>2, <2>1 DEF Live, Running
  <2> QED
      BY <2>1 DEF OfflineAtStart, Reporting
<1>4. ASSUME NEW c \in Connects, GoesOn(c)', ~currentCustomNotification'
      PROVE  Shown(c)'
  <2>1. GoesOn(c)
        BY <1>2, <1>4 DEF GoesOn, Live, Running
  <2>2. Shown(c)
        BY <1>4, <2>1 DEF AllShown
  <2>3. svc'[c] = svc[c]
        BY <2>1 DEF GoesOn
  <2> QED
      BY <2>2, <2>3 DEF Shown, Reporting
<1> QED
    BY <1>1, <1>3, <1>4 DEF AllShown

(* A connectThread at work works alone, before there is a session.         *)
LEMMA SetupAlone ==
  ASSUME PoliteInv, ShowInv, NEW c \in Connects, Active(c), runner[c] # "loop"
  PROVE  \A k \in Connects : runner[k] # "loop" /\ showing[k].at = "no"
  BY DEF PoliteInv, TruthInv, OneActive, Active, ShowInv, LoopsShow

LEMMA ConnectorShow ==
  ASSUME PoliteInv, ShowInv, NEW c \in Connects, ConnectorStep(c), showing' = showing
  PROVE  ShowInv'
<1> USE DEF PoliteInv, NoticeInv, BaseInv
<1>1. Active(c) /\ runner[c] # "loop" /\ runner'[c] # "loop"
      /\ sCurrentConnectionStatus' = sCurrentConnectionStatus
      /\ (Active(c)' => Active(c))
      /\ \A k \in Connects : k # c => runner'[k] = runner[k] /\ connector'[k] = connector[k]
      BY DEF ConnectorStep, PrepareConnection, PublishConfig, InitConfig, Replace, Install,
             InstallThrows, ReadManagement, ReportError, Advance, reporterVars, handlerVars, serviceVars,
             Active, Preparing, SettingUp, Placed, TypeOK, HandlerTypeOK, ServiceTypeOK
<1>2. \A k \in Connects : Active(k)' => Active(k)
      BY <1>1 DEF Active, Preparing, SettingUp
<1>3. \A k \in Connects : runner'[k] # "loop" /\ showing'[k].at = "no"
      BY <1>1, SetupAlone
<1>4. OfflineBefore'
      BY <1>1, <1>2, <1>3 DEF ShowInv, OfflineBefore, Active
<1> QED
    BY <1>3, <1>4, NoLoopShow

LEMMA PrepareShow ==
  ASSUME PoliteInv, ShowInv, NEW c \in Connects, PrepareStep(c)
  PROVE  ShowInv'
<1>1. CASE PrepareThrows(c) \/ StartForeground(c)
      BY <1>1, ConnectorShow DEF PrepareThrows, StartForeground, noticeVars, ConnectorStep
<1>2. CASE AssignFields(c) \/ Promote(c)
  <2>1. /\ UNCHANGED vars /\ showing' = showing
        /\ connector[c] = "prepare"
        BY <1>2 DEF AssignFields, Promote
  <2>2. Active(c) /\ runner[c] # "loop"
        BY <2>1 DEF Active, Preparing, PoliteInv, NoticeInv, BaseInv, Placed
  <2>3. \A k \in Connects : runner'[k] # "loop" /\ showing'[k].at = "no"
        BY <2>1, <2>2, SetupAlone DEF vars, handlerVars
  <2>4. OfflineBefore'
        BY <2>1 DEF vars, handlerVars, serviceVars, reporterVars, ShowInv, OfflineBefore,
                    Active, Preparing, SettingUp
  <2> QED
      BY <2>3, <2>4, NoLoopShow
<1> QED
    BY <1>1, <1>2 DEF PrepareStep

(* The builder gets the recorded status, and the bar gets it from there.   *)
LEMMA UpdateShow ==
  ASSUME Oreo, PoliteInv, ShowInv, NEW c \in Connects, UpdateNotice(c) \/ PostNotice(c)
  PROVE  ShowInv'
<1> USE DEF PoliteInv, NoticeInv, NoticeShape
<1>1. /\ UNCHANGED <<vars, staticVars>>
      /\ showing[c].at # "no"
      /\ \A k \in Connects : k # c => showing'[k] = showing[k]
      BY DEF UpdateNotice, PostNotice
<1>2. /\ UNCHANGED <<sCurrentConnectionStatus, pending, notify, runner, target, core,
                     stopRequested, connector, svc, currentCustomNotification>>
      BY <1>1 DEF vars, reporterVars, handlerVars, serviceVars, staticVars
<1>3. runner[c] = "loop" /\ \A k \in Connects : runner[k] = "loop" => k = c
      BY <1>1 DEF ShowInv, LoopsShow, TruthInv, OneActive, Active
<1>4. LoopsShow' /\ OfflineBefore'
      BY <1>1, <1>2, <1>3 DEF ShowInv, LoopsShow, OfflineBefore, Active, Preparing, SettingUp
<1>5. OfflineAtStart'
      BY <1>1, <1>2, <1>3 DEF ShowInv, OfflineAtStart
<1>6. ASSUME GoesOn(c), ~currentCustomNotification
      PROVE  Shown(c)'
  <2>1. Shown(c) /\ ~Reporting(c) /\ ~Reporting(c)'
        BY <1>1, <1>2, <1>6 DEF ShowInv, AllShown, Shown, Reporting
  <2>2. CASE UpdateNotice(c)
    <3>1. svc[c] \in Instances
          BY <1>3 DEF BaseInv, Placed
    <3>2. Covered(svc[c])
          BY <1>3 DEF Prepared, Working
    <3>3. /\ showing[c].at = "test"
          /\ showing' = [showing EXCEPT ![c].at = "post"]
          /\ mNotificationBuilder' =
               [mNotificationBuilder EXCEPT ![svc[c]] = showing[c].status]
          BY <1>6, <2>2, <3>2 DEF UpdateNotice, Shows, Covered
    <3>4. showing'[c].at = "post"
          BY <3>3
    <3>5. mNotificationBuilder'[svc[c]] = sCurrentConnectionStatus
          BY <2>1, <3>1, <3>3 DEF Shown
    <3> QED
        BY <1>2, <2>1, <3>4, <3>5 DEF Shown
  <2>3. CASE PostNotice(c)
    <3>1. showing[c].at = "post" /\ showing' = [showing EXCEPT ![c] = Idle]
          /\ bar' = mNotificationBuilder[svc[c]]
          BY <2>3 DEF PostNotice
    <3>2. showing'[c].at = "no" /\ bar' = sCurrentConnectionStatus
          BY <2>1, <3>1 DEF Shown, Idle
    <3> QED
        BY <1>2, <3>2 DEF Shown
  <2> QED
      BY <2>2, <2>3
<1>7. AllShown'
      BY <1>2, <1>3, <1>6 DEF AllShown, GoesOn
<1> QED
    BY <1>4, <1>5, <1>7 DEF ShowInv

(* An event that keeps the session going finds the last status in the bar. *)
LEMMA OngoingShow ==
  ASSUME PoliteInv, ShowInv, NEW c \in Connects, Quiet(c),
         UNCHANGED <<serviceVars, noticeVars>>,
         NEW state \in {"connecting", "connected", "reconnecting"}, NEW name, NEW a,
         EventStatuses(name, a) = <<StatusOf(state)>>,
         Running(target[c]), Emit(c, state, name, a)
  PROVE  ShowInv'
<1> USE DEF PoliteInv, NoticeInv, BaseInv, TypeOK, HandlerTypeOK, ReporterTypeOK, Handlers
<1>1. /\ c \in Threads /\ runner[c] = "loop" /\ ~Reporting(c)
      /\ target[c] \in Handlers
      /\ core' = [core EXCEPT ![target[c]] = state]
      /\ pending' = [pending EXCEPT ![c] = <<StatusOf(state)>>]
      /\ UNCHANGED <<sCurrentConnectionStatus, notify, runner, target, stopRequested>>
      BY ConnectsAssumption DEF Emit, RunnerHasHandler
<1>2. showing[c].at = "no"
      BY DEF Quiet, Idle
<1>3. UNCHANGED <<showing, bar, mNotificationBuilder, currentCustomNotification, svc, connector>>
      BY DEF noticeVars, serviceVars, staticVars
<1>4. \A k \in Connects : runner[k] = "loop" => k = c
      BY <1>1 DEF TruthInv, OneActive, Active
<1>5. LoopsShow' /\ OfflineBefore'
      BY <1>1, <1>3 DEF ShowInv, LoopsShow, OfflineBefore, Active, Preparing, SettingUp
<1>6. OfflineAtStart'
      BY <1>1, <1>4 DEF OfflineAtStart
<1>7. Reporting(c)'
      BY <1>1 DEF Reporting
<1>8. ASSUME ~stopRequested[target[c]], ~currentCustomNotification
      PROVE  Shown(c)'
  <2>1. bar = sCurrentConnectionStatus \/ sCurrentConnectionStatus \in OfflineStatus
    <3>1. CASE core[target[c]] = "started"
          BY <1>1, <3>1 DEF ShowInv, OfflineAtStart
    <3>2. CASE GoesOn(c)
          BY <1>1, <1>2, <1>8, <3>2 DEF ShowInv, AllShown, Shown
    <3> QED
        BY <1>1, <1>8, <3>1, <3>2 DEF Running, GoesOn
  <2> QED
      BY <1>1, <1>2, <1>3, <1>7, <2>1 DEF Shown
<1>9. AllShown'
      BY <1>1, <1>3, <1>4, <1>8 DEF AllShown, GoesOn
<1> QED
    BY <1>5, <1>6, <1>9 DEF ShowInv

LEMMA RunnerShow ==
  ASSUME PoliteInv, ShowInv, NEW c \in Connects, Quiet(c), RunnerStep(c),
         UNCHANGED <<serviceVars, noticeVars>>
  PROVE  ShowInv'
<1> USE DEF PoliteInv, NoticeInv, BaseInv, TypeOK, HandlerTypeOK, Handlers
<1>1. /\ UNCHANGED <<showing, bar, mNotificationBuilder, currentCustomNotification, svc, connector>>
      /\ showing[c].at = "no"
      BY DEF noticeVars, serviceVars, staticVars, Quiet, Idle
<1>2. Active(c) => \A k \in Connects : Active(k) => k = c
      BY DEF TruthInv, OneActive
<1>3. \A k \in Connects : k # c => runner'[k] = runner[k]
      BY RunnerFrame
<1>4. ASSUME UNCHANGED <<sCurrentConnectionStatus>>, SettingUp(c), runner'[c] # "loop",
             SettingUp(c)' => SettingUp(c)
      PROVE  ShowInv'
  <2>1. \A k \in Connects : runner'[k] # "loop" /\ showing'[k].at = "no"
        BY <1>1, <1>3, <1>4, SetupAlone DEF Active, SettingUp
  <2>2. OfflineBefore'
        BY <1>1, <1>3, <1>4, <2>1 DEF ShowInv, OfflineBefore, Active, Preparing, SettingUp
  <2> QED
      BY <2>1, <2>2, NoLoopShow
<1>5. CASE EvalConfig(c)
      BY <1>4, <1>5 DEF EvalConfig, reporterVars, SettingUp
<1>6. CASE CoreRefuse(c)
      BY <1>4, <1>6 DEF CoreRefuse, reporterVars, SettingUp
<1>7. CASE CoreConnect(c)
  <2>1. /\ UNCHANGED <<reporterVars, target>>
        /\ runner[c] = "connect" /\ target[c] \in Handlers
        /\ core' = [core EXCEPT ![target[c]] = "started"]
        /\ runner' = [runner EXCEPT ![c] = "loop"]
        BY <1>7 DEF CoreConnect, RunnerHasHandler
  <2>2. /\ \A k \in Connects : runner[k] # "loop" /\ showing[k].at = "no"
        /\ sCurrentConnectionStatus \in OfflineStatus
        /\ ~Reporting(c)
        BY <2>1, SetupAlone
        DEF Active, SettingUp, ShowInv, OfflineBefore, TruthInv, LoopsReport
  <2>3. LoopsShow' /\ OfflineBefore'
        BY <1>1, <2>1, <2>2 DEF LoopsShow, OfflineBefore, reporterVars
  <2>4. OfflineAtStart' /\ AllShown'
        BY <1>1, <2>1, <2>2 DEF OfflineAtStart, AllShown, GoesOn, Reporting, reporterVars
  <2> QED
      BY <2>3, <2>4 DEF ShowInv
<1>8. CASE ConnectReturns(c)
  <2>1. /\ UNCHANGED <<reporterVars, target>>
        /\ runner[c] = "loop"
        /\ runner' = [runner EXCEPT ![c] = "ended"]
        BY <1>8 DEF ConnectReturns
  <2>2. \A k \in Connects : k # c => runner[k] # "loop" /\ ~Active(k)
        BY <1>2, <2>1 DEF Active
  <2>3. \A k \in Connects : ~Active(k)'
        BY <1>1, <2>1, <2>2 DEF Active, Preparing, SettingUp, Placed
  <2>4. \A k \in Connects : runner'[k] # "loop" /\ showing'[k].at = "no"
        BY <1>1, <2>1, <2>2 DEF ShowInv, LoopsShow
  <2> QED
      BY <2>3, <2>4, NoLoopShow DEF OfflineBefore
<1>9. CASE PollerExit(c)
  <2>1. UNCHANGED <<sCurrentConnectionStatus, pending, notify, runner, target, core, stopRequested>>
        BY <1>9 DEF PollerExit, reporterVars
  <2>2. \A k \in Connects : Active(k)' => Active(k)
        BY <1>1, <2>1 DEF Active, Preparing, SettingUp
  <2> QED
      BY <1>1, <2>1, <2>2, ShowKept
<1>10. CASE CoreExit(c)
  <2>1. PICK a \in BOOLEAN : Emit(c, "exiting", "EXITING", a)
        BY <1>10 DEF CoreExit
  <2>2. /\ UNCHANGED <<sCurrentConnectionStatus, target, runner>>
        /\ runner[c] = "loop" /\ target[c] \in Handlers
        /\ core' = [core EXCEPT ![target[c]] = "exiting"]
        BY <2>1 DEF Emit, RunnerHasHandler
  <2>3. \A k \in Connects : runner'[k] = "loop" => k = c
        BY <1>2, <2>2 DEF Active
  <2>4. LoopsShow' /\ OfflineBefore'
        BY <1>1, <2>2 DEF ShowInv, LoopsShow, OfflineBefore, Active, Preparing, SettingUp
  <2>5. OfflineAtStart' /\ AllShown'
        BY <2>2, <2>3 DEF OfflineAtStart, AllShown, GoesOn
  <2> QED
      BY <2>4, <2>5 DEF ShowInv
<1>11. CASE CoreAttempt(c)
       BY <1>11, OngoingShow, EventStatusesValue, StatusOfValue DEF CoreAttempt, Running
<1>12. CASE CoreConnected(c)
       BY <1>12, OngoingShow, EventStatusesValue, StatusOfValue DEF CoreConnected, Running
<1>13. CASE CoreReconnecting(c)
       BY <1>13, OngoingShow, EventStatusesValue, StatusOfValue DEF CoreReconnecting, Running
<1> QED
    BY <1>5, <1>6, <1>7, <1>8, <1>9, <1>10, <1>11, <1>12, <1>13 DEF RunnerStep, CoreEvent

(* A report that is passed on is shown next; one that is not says what the *)
(* bar says already.                                                       *)
LEMMA NotifyShow ==
  ASSUME PoliteInv, ShowInv, NEW t \in Threads, NoticeNotifies(t)
  PROVE  ShowInv'
<1> USE DEF PoliteInv, NoticeInv, NoticeShape, BaseInv, TypeOK, HandlerTypeOK,
            ReporterTypeOK, Handlers
<1>1. /\ ThreadNotifies(t) /\ Notify(t) /\ Quiet(t) /\ Reporting(t)
      /\ UNCHANGED <<runner, target, core, stopRequested, connector, svc,
                     bar, mNotificationBuilder, currentCustomNotification>>
      BY DEF NoticeNotifies, ThreadNotifies, Notify, NotifySkip, NotifyPass, NotifySet,
             NotifySend, handlerVars, serviceVars, staticVars
<1>2. /\ \A u \in Threads : u # t => pending'[u] = pending[u] /\ notify'[u] = notify[u]
      /\ \A k \in Connects : k # t => showing'[k] = showing[k]
      BY <1>1 DEF Notify, NotifySkip, NotifyPass, NotifySet, NotifySend, NoticeNotifies
<1>3. \A k \in Connects : Active(k)' <=> Active(k)
      BY <1>1 DEF Active, Preparing, SettingUp
<1>4. t \in Connects => runner[t] = "loop"
      BY <1>1 DEF TruthInv, LoopsReport
<1>5. LoopsShow'
      BY <1>1, <1>2, <1>4 DEF ShowInv, LoopsShow
<1>6. \/ sCurrentConnectionStatus' = sCurrentConnectionStatus
      \/ sCurrentConnectionStatus' = Head(pending[t])
      BY <1>1 DEF Notify, NotifySkip, NotifyPass, NotifySet, NotifySend
<1>7. SigningOff(t) => Head(pending[t]) \in OfflineStatus
      BY <1>1 DEF SigningOff, Reporting
<1>8. OfflineBefore'
  <2>1. SUFFICES ASSUME NEW c \in Connects, Active(c), runner[c] # "loop"
                 PROVE  sCurrentConnectionStatus' \in OfflineStatus
        BY <1>1, <1>3 DEF OfflineBefore
  <2>2. SigningOff(t)
        BY <1>1, <2>1, SetupAlone DEF OfflineInv, WillExit
  <2> QED
      BY <1>6, <1>7, <2>1, <2>2 DEF ShowInv, OfflineBefore
<1>9. ASSUME NEW c \in Connects, runner[c] = "loop"
      PROVE  t \notin Disconnects => t = c
      BY <1>4, <1>9, ThreadsAssumption DEF TruthInv, OneActive, Active
<1>10. OfflineAtStart'
  <2>1. SUFFICES ASSUME NEW c \in Connects, runner[c] = "loop", core[target[c]] = "started"
                 PROVE  sCurrentConnectionStatus' \in OfflineStatus /\ ~Reporting(c)'
                        /\ showing'[c].at = "no"
        BY <1>1 DEF OfflineAtStart
  <2>2. /\ sCurrentConnectionStatus \in OfflineStatus /\ ~Reporting(c)
        /\ showing[c].at = "no" /\ c # t
        BY <1>1, <2>1 DEF ShowInv, OfflineAtStart
  <2>3. t \in Disconnects /\ t \notin Connects
        BY <1>9, <2>1, <2>2, ThreadsAssumption
  <2>4. SigningOff(t)
        BY <1>1, <2>3 DEF OfflineInv
  <2> QED
      BY <1>2, <1>6, <1>7, <2>2, <2>4, ConnectsAssumption DEF Reporting
<1>11. ASSUME NEW c \in Connects, GoesOn(c), ~currentCustomNotification
       PROVE  Shown(c)'
  <2>1. Shown(c) /\ Recorded(c) /\ runner[c] = "loop"
        BY <1>11 DEF ShowInv, AllShown, TruthInv, AllRecorded, GoesOn
  <2>2. t = c
    <3>1. target[c] \in Handlers /\ CanRun(target[c]) /\ ~stopRequested[target[c]]
          BY <1>11 DEF GoesOn, RunnerHasHandler, CanRun, Live, Running
    <3>2. t \notin Disconnects
          BY <1>1, <3>1 DEF ThreadNotifies, TruthInv, StopsTaken
    <3> QED
        BY <1>9, <2>1, <3>2
  <2> DEFINE status == StatusOf(core[target[c]])
  <2>3. /\ pending[c] = <<status>>
        /\ notify[c] = "send" => sCurrentConnectionStatus = status
        /\ showing[c] = Idle /\ c \in Threads
        BY <1>1, <2>1, <2>2 DEF Recorded, Quiet
  <2>4. Head(pending[c]) = status /\ Tail(pending[c]) = <<>>
        BY <2>3
  <2>5. status \notin OfflineStatus
        BY <1>11, StatusOfValue DEF GoesOn, OfflineStatus
  <2>6. showing[c].at = "no"
        BY <2>3 DEF Idle
  <2>7. CASE NotifySkip(c)
    <3>1. /\ sCurrentConnectionStatus = status /\ notify[c] = "idle"
          /\ sCurrentConnectionStatus' = sCurrentConnectionStatus
          BY <2>4, <2>7 DEF NotifySkip, Differs
    <3>2. bar = sCurrentConnectionStatus
          BY <2>1, <2>5, <2>6, <3>1 DEF Shown
    <3>3. showing'[c].at = "no"
          BY <2>2, <2>6, <2>7 DEF NotifySkip, NoticeNotifies
    <3> QED
        BY <1>1, <3>1, <3>2, <3>3 DEF Shown
  <2>8. CASE NotifyPass(c) \/ NotifySet(c)
    <3>1. pending'[c] = pending[c] /\ notify'[c] # "idle" /\ notify[c] # "send"
          BY <2>2, <2>3, <2>8 DEF NotifyPass, NotifySet
    <3>2. showing'[c].at = "no"
          BY <2>2, <2>6, <3>1 DEF NoticeNotifies
    <3>3. Reporting(c)'
          BY <1>1, <2>2, <3>1 DEF Reporting
    <3> QED
        BY <3>1, <3>2, <3>3 DEF Shown
  <2>9. CASE NotifySend(c)
    <3>1. /\ notify[c] = "send" /\ pending'[c] = <<>>
          /\ sCurrentConnectionStatus' = status
          BY <2>3, <2>4, <2>9 DEF NotifySend
    <3>2. showing'[c] = [at |-> "test", status |-> status]
          BY <2>2, <2>4, <3>1 DEF NoticeNotifies
    <3> QED
        BY <3>1, <3>2 DEF Shown, Reporting
  <2> QED
      BY <1>1, <2>2, <2>7, <2>8, <2>9 DEF Notify
<1>12. AllShown'
       BY <1>1, <1>11 DEF AllShown, GoesOn
<1> QED
    BY <1>5, <1>8, <1>10, <1>12 DEF ShowInv

(* A connect finds an offline status: things have settled, with no session. *)
LEMMA CommandShow ==
  ASSUME Environment = "polite", PoliteInv, ShowInv, Command, UNCHANGED noticeVars
  PROVE  ShowInv'
<1> USE DEF PoliteInv, NoticeInv, BaseInv, TypeOK, ReporterTypeOK, ServiceTypeOK, Handlers
<1>1. /\ UNCHANGED <<handlerVars, sCurrentConnectionStatus, notify>>
      /\ \A c \in Connects : pending'[c] = pending[c]
      BY ThreadsAssumption
      DEF Command, StartConnect, StartDisconnect, OnRevoke, UpdateLogging, Disconnect,
          reporterVars
<1>2. \A c \in Connects : runner[c] # "none" => svc'[c] = svc[c]
      BY ThreadsAssumption
      DEF Command, StartConnect, StartDisconnect, OnRevoke, UpdateLogging, Disconnect, Placed
<1>3. UNCHANGED <<showing, bar, mNotificationBuilder, currentCustomNotification>>
      BY DEF noticeVars, staticVars
<1>4. CASE \A c \in Connects : connector'[c] = connector[c]
  <2>1. \A c \in Connects : Active(c)' => Active(c)
        BY <1>1, <1>4 DEF Active, Preparing, SettingUp, handlerVars
  <2> QED
      BY <1>1, <1>2, <1>3, <2>1, ShowKept DEF handlerVars, Live, Running
<1>5. ASSUME NEW c \in Connects, StartConnect(c)
      PROVE  ShowInv'
  <2>1. Settled /\ \A h \in Handlers : ~Live(h)
        BY <1>5 DEF StartConnect, MayConnect, MayCommand
  <2>2. \A t \in Threads : ~Reporting(t)
        BY <2>1 DEF Settled
  <2>3. \A k \in Connects : runner[k] # "loop"
        BY <2>1 DEF OfflineInv, OneLoop, RunnerHasHandler, HandlerTypeOK
  <2>4. sCurrentConnectionStatus \in OfflineStatus
        BY <2>2, <2>3 DEF OfflineInv, SigningOff, WillExit
  <2>5. \A k \in Connects : runner'[k] # "loop" /\ showing'[k].at = "no"
        BY <1>1, <1>3, <2>3 DEF ShowInv, LoopsShow, handlerVars
  <2> QED
      BY <1>1, <2>4, <2>5, NoLoopShow DEF OfflineBefore
<1> QED
    BY <1>4, <1>5 DEF Command, StartDisconnect, OnRevoke, UpdateLogging, Disconnect

LEMMA SystemShow ==
  ASSUME Environment = "polite", PoliteInv, ShowInv, OrderInv',
         \/ NoticeDestroy \/ NoticeDeath
         \/ StickyRestart /\ UNCHANGED noticeVars
         \/ UNCHANGED allVars
         \/ \E d \in Disconnects :
              \/ CacheCustom(d)
              \/ (DisconnectStop(d) \/ DisconnectSelf(d)) /\ UNCHANGED noticeVars
  PROVE  ShowInv'
<1> USE DEF PoliteInv, NoticeInv, BaseInv, TypeOK, HandlerTypeOK, Handlers
<1>1. ASSUME UNCHANGED <<reporterVars, runner, target, core, connector, svc, showing, bar,
                         mNotificationBuilder>>,
             currentCustomNotification => currentCustomNotification',
             \A h \in Handlers : stopRequested[h] => stopRequested'[h]
      PROVE  ShowInv'
  <2>1. \A k \in Connects : Active(k)' => Active(k)
        BY <1>1 DEF Active, Preparing, SettingUp
  <2> QED
      BY <1>1, <2>1, ShowKept DEF reporterVars
<1>2. CASE NoticeDestroy
  <2>1. /\ UNCHANGED <<reporterVars, runner, target, core, connector, svc, showing>>
        /\ alive' = 0
        BY <1>2 DEF NoticeDestroy, OnDestroy
  <2>2. LoopsShow' /\ OfflineBefore' /\ OfflineAtStart'
        BY <2>1 DEF ShowInv, LoopsShow, OfflineBefore, OfflineAtStart, Active, Preparing,
                    SettingUp, Reporting, reporterVars
  <2>3. ASSUME NEW c \in Connects, GoesOn(c)' PROVE FALSE
    <3>1. target'[c] \in Handlers /\ CanRun(target[c])'
          BY <2>1, <2>3 DEF GoesOn, RunnerHasHandler, CanRun, Live, Running
    <3>2. ~stopRequested'[target'[c]]
          BY <2>3 DEF GoesOn
    <3> QED
        BY <2>1, <3>1, <3>2 DEF OrderInv, NoOrphan
  <2> QED
      BY <2>2, <2>3 DEF ShowInv, AllShown
<1>3. CASE NoticeDeath
  <2>1. \A k \in Connects : ~Active(k)'
        BY <1>3 DEF NoticeDeath, ProcessDeath, HandlersDie, Active, Preparing, SettingUp
  <2>2. \A k \in Connects : runner'[k] # "loop" /\ showing'[k].at = "no"
        BY <1>3, <2>1 DEF NoticeDeath, Idle, Active
  <2> QED
      BY <2>1, <2>2, NoLoopShow DEF OfflineBefore
<1>4. CASE StickyRestart /\ UNCHANGED noticeVars
      BY <1>1, <1>4 DEF StickyRestart, handlerVars, noticeVars, staticVars
<1>5. CASE UNCHANGED allVars
      BY <1>1, <1>5
      DEF allVars, vars, reporterVars, handlerVars, serviceVars, noticeVars, staticVars
<1>6. ASSUME NEW d \in Disconnects, CacheCustom(d)
      PROVE  ShowInv'
  <2>1. PICK found \in MayFind(svc[d]) :
          currentCustomNotification' = (currentCustomNotification \/ found)
        BY <1>6 DEF CacheCustom
  <2>2. currentCustomNotification => currentCustomNotification'
        BY <2>1, Zenon
  <2> QED
      BY <1>1, <1>6, <2>2
      DEF CacheCustom, vars, reporterVars, handlerVars, serviceVars
<1>7. ASSUME NEW d \in Disconnects, DisconnectStop(d) \/ DisconnectSelf(d),
             UNCHANGED noticeVars
      PROVE  ShowInv'
      BY <1>1, <1>7
      DEF DisconnectStop, DisconnectSelf, Stopped, handlerVars, noticeVars, staticVars
<1> QED
    BY <1>2, <1>3, <1>4, <1>5, <1>6, <1>7

LEMMA NextShow ==
  ASSUME Oreo, Environment = "polite", PoliteInv, ShowInv, [NoticeNext]_allVars
  PROVE  PoliteInv' /\ ShowInv'
<1>1. PoliteInv'
      BY NoticeStep, NextNotice, NextOrder, NextOffline, NextTruth DEF PoliteInv, NoticeInv
<1>2. OrderInv'
      BY <1>1 DEF PoliteInv
<1>3. ASSUME NEW c \in Connects,
             \/ PrepareStep(c)
             \/ UpdateNotice(c) \/ PostNotice(c)
             \/ ConnectorStep(c) /\ UNCHANGED noticeVars
             \/ Quiet(c) /\ RunnerStep(c) /\ UNCHANGED <<serviceVars, noticeVars>>
      PROVE  ShowInv'
      BY <1>3, PrepareShow, UpdateShow, ConnectorShow, RunnerShow DEF noticeVars
<1>4. ASSUME NEW t \in Threads, NoticeNotifies(t) PROVE ShowInv'
      BY <1>4, NotifyShow
<1>5. ASSUME NoticeCommand PROVE ShowInv'
      BY <1>5, CommandShow DEF NoticeCommand
<1> QED
    BY <1>1, <1>2, <1>3, <1>4, <1>5, SystemShow DEF NoticeNext

(* From Android 8 on, and under a polite client, a default notification    *)
(* shows the recorded status of the session once things have settled       *)
(* (PolarVpnService 391-416).                                              *)
THEOREM NoticeShowsStatus ==
  ASSUME Oreo, Environment = "polite"
  PROVE  NoticeSpec => []NoticeFollows
<1>1. NoticeInit => PoliteInv /\ ShowInv
      BY InitNotice, InitOrder, InitOffline, InitTruth, InitShow DEF NoticeInit, PoliteInv
<1>2. PoliteInv /\ ShowInv /\ [NoticeNext]_allVars => (PoliteInv /\ ShowInv)'
      BY NextShow
<1>3. PoliteInv /\ ShowInv => NoticeFollows
  <2>1. SUFFICES ASSUME PoliteInv, ShowInv, NoticeSettled, NEW h \in Handlers, Announced(h),
                        ~currentCustomNotification
                 PROVE  bar = sCurrentConnectionStatus
        BY DEF NoticeFollows
  <2>2. PICK c \in Connects : runner[c] = "loop" /\ target[c] = h
        BY <2>1 DEF PoliteInv, TruthInv, SessionsHaveLoop, Announced, Live, Running
  <2>3. GoesOn(c) /\ ~Reporting(c) /\ showing[c].at = "no"
        BY <2>1, <2>2, ConnectsAssumption
        DEF NoticeSettled, Settled, GoesOn, Announced, Quiet, Idle
  <2> QED
      BY <2>1, <2>3 DEF ShowInv, AllShown, Shown
<1> QED
    BY <1>1, <1>2, <1>3, PTL DEF NoticeSpec
=============================================================================
