------------------------- MODULE ServiceNotification -------------------------
(***************************************************************************)
(* The notification of PolarVpnService and its place in the foreground.    *)
(*                                                                         *)
(* A connectThread that prepares a connection assigns the options of the   *)
(* request to fields of the service, then promotes it to the foreground    *)
(* with a notification: the client's own (a custom one, found by its id in *)
(* the notification bar, or the last one found) or a default one that it   *)
(* builds.  A runner that has reported a status updates the default one,   *)
(* on its own thread and with no lock, as long as no custom one was ever   *)
(* found.  This module adds those steps to the threads of PolarVpnService. *)
(*                                                                         *)
(* The bar has two places: "default", the id the service posts under, and  *)
(* "custom", the id of the client's notification.  What is posted at       *)
(* "default" is told apart by the status in its text.                      *)
(***************************************************************************)
EXTENDS PolarVpnServiceProperties

CONSTANTS
  Oreo,           \* is the system Android 8 or later?
  AppPosts,       \* does the client ever post a notification of its own?
  AlwaysShow      \* the values requests give to "always show the default one"

ASSUME OreoAssumption == Oreo \in BOOLEAN /\ AppPosts \in BOOLEAN
ASSUME AlwaysShowAssumption == AlwaysShow \subseteq BOOLEAN

VARIABLES
  customNotificationId,         \* per instance: the field is not -1
  alwaysShowDefaultNotification, \* per instance: the field
  mNotificationBuilder,         \* per instance: the status in its text, or "null"
  currentCustomNotification,    \* the static is not null
  currentCustomNotificationId,  \* the static: the place it names
  step,           \* per thread: how far its work on the notification is
  showing,        \* per runner: the update that follows a report
  foreground,     \* per instance: the place of its foreground notification, or "no"
  bar             \* what is posted at "default", or "none"

noticeVars ==
  <<customNotificationId, alwaysShowDefaultNotification, mNotificationBuilder,
    currentCustomNotification, currentCustomNotificationId, step, showing,
    foreground, bar>>

fieldVars ==
  <<customNotificationId, alwaysShowDefaultNotification>>

staticVars == <<currentCustomNotification, currentCustomNotificationId>>

allVars == <<vars, noticeVars>>

Idle == [at |-> "no", status |-> "DISCONNECTED"]

(* An int field starts at 0, which is not -1. *)
NoticeInit ==
  /\ Init
  /\ customNotificationId = [i \in Instances |-> TRUE]
  /\ alwaysShowDefaultNotification = [i \in Instances |-> FALSE]
  /\ mNotificationBuilder = [i \in Instances |-> "null"]
  /\ currentCustomNotification = FALSE
  /\ currentCustomNotificationId = "default"
  /\ step = [t \in Threads |-> "no"]
  /\ showing = [c \in Connects |-> Idle]
  /\ foreground = [i \in Instances |-> "no"]
  /\ bar = "none"

-----------------------------------------------------------------------------

(* getCustomNotification: what a search of the bar may say to instance i.  *)
MayFind(i) ==
  IF Oreo /\ AppPosts /\ customNotificationId[i] THEN BOOLEAN ELSE {FALSE}

(***************************************************************************)
(* prepareConnection and promoteToForeground, on a connectThread.          *)
(***************************************************************************)

AssignFields(c) ==
  /\ connector[c] = "prepare"
  /\ step[c] = "no"
  /\ step' = [step EXCEPT ![c] = "fields"]
  /\ \E id \in {FALSE, AppPosts}, always \in AlwaysShow :
       /\ customNotificationId' = [customNotificationId EXCEPT ![svc[c]] = id]
       /\ alwaysShowDefaultNotification' =
            [alwaysShowDefaultNotification EXCEPT ![svc[c]] = always]
  /\ UNCHANGED <<vars, staticVars, mNotificationBuilder, showing, foreground, bar>>

(* buildConfigureIntent throws: the class is not known. *)
PrepareThrows(c) ==
  /\ step[c] = "fields"
  /\ PrepareConnection(c)
  /\ connector'[c] = "failed"
  /\ UNCHANGED noticeVars

(* A mutant: new systems get a default notification only on request. *)
BuildsDefaultLazily(i) == alwaysShowDefaultNotification[i]

(* The test of promoteToForeground for a default notification. *)
BuildsDefault(i) == Oreo \/ alwaysShowDefaultNotification[i]

(* promoteToForeground up to startForeground: which notification it is,    *)
(* and the builder of a default one.  A custom one is taken for a request  *)
(* that names one, found now or at some earlier time.                      *)
Promote(c) ==
  LET i == svc[c] IN
  /\ connector[c] = "prepare"
  /\ step[c] = "fields"
  /\ \E found \in MayFind(i) :
       LET custom == customNotificationId[i] /\ (found \/ currentCustomNotification) IN
       /\ currentCustomNotification' = (currentCustomNotification \/ found)
       /\ currentCustomNotificationId' =
            IF found THEN "custom" ELSE currentCustomNotificationId
       /\ IF Oreo /\ custom
          THEN /\ step' = [step EXCEPT ![c] = currentCustomNotificationId']
               /\ UNCHANGED mNotificationBuilder
          ELSE IF BuildsDefault(i)
          THEN /\ step' = [step EXCEPT ![c] = "build"]
               /\ mNotificationBuilder' = [mNotificationBuilder EXCEPT ![i] = "INITIALIZING"]
          ELSE /\ step' = [step EXCEPT ![c] = "nothing"]
               /\ UNCHANGED mNotificationBuilder
  /\ UNCHANGED <<vars, fieldVars, showing, foreground, bar>>

(* startForeground, and prepareConnection returns.  The system has no      *)
(* place for an instance that is gone, and takes back the notification an  *)
(* instance had in the other place.                                        *)
StartForeground(c) ==
  LET i == svc[c]
      place == IF step[c] = "custom" THEN "custom" ELSE "default"
  IN
  /\ step[c] \in {"build", "default", "custom", "nothing"}
  /\ PrepareConnection(c)
  /\ connector'[c] = "init"
  /\ step' = [step EXCEPT ![c] = "no"]
  /\ IF step[c] = "nothing" \/ i # alive
     THEN UNCHANGED <<foreground, bar>>
     ELSE /\ foreground' = [foreground EXCEPT ![i] = place]
          /\ bar' = CASE step[c] = "build"   -> "INITIALIZING"
                      [] step[c] = "default" -> "custom"
                      [] step[c] = "custom"  ->
                           IF foreground[i] = "default" THEN "none" ELSE bar
  /\ UNCHANGED <<fieldVars, staticVars, mNotificationBuilder, showing>>

PrepareStep(c) ==
  AssignFields(c) \/ PrepareThrows(c) \/ Promote(c) \/ StartForeground(c)

(***************************************************************************)
(* disconnect(): the custom notification is cached, without its id.        *)
(***************************************************************************)
CacheCustom(d) ==
  /\ disconnector[d] = "notify"
  /\ step[d] = "no"
  /\ step' = [step EXCEPT ![d] = "cached"]
  /\ \E found \in MayFind(svc[d]) :
       currentCustomNotification' = (currentCustomNotification \/ found)
  /\ UNCHANGED <<vars, fieldVars, mNotificationBuilder, currentCustomNotificationId,
                 showing, foreground, bar>>

(***************************************************************************)
(* onNotifyConnectionStatus, after the intent, on a runner.                *)
(***************************************************************************)

(* Thread t has no update of the notification to finish. *)
Quiet(t) == t \in Connects => showing[t] = Idle

Shows(i) ==
  ~currentCustomNotification /\ (alwaysShowDefaultNotification[i] \/ Oreo)

(* The test, and the calls on mNotificationBuilder that set the new text:  *)
(* with no builder the runner gets an exception in the middle of event().  *)
UpdateNotice(c) ==
  LET i == svc[c] IN
  /\ showing[c].at = "test"
  /\ IF ~Shows(i)
     THEN /\ showing' = [showing EXCEPT ![c] = Idle]
          /\ UNCHANGED mNotificationBuilder
     ELSE IF mNotificationBuilder[i] = "null"
     THEN /\ showing' = [showing EXCEPT ![c].at = "exception"]
          /\ UNCHANGED mNotificationBuilder
     ELSE /\ showing' = [showing EXCEPT ![c].at = "post"]
          /\ mNotificationBuilder' = [mNotificationBuilder EXCEPT ![i] = showing[c].status]
  /\ UNCHANGED <<vars, fieldVars, staticVars, step, foreground, bar>>

(* A mutant: the text is set and not posted. *)
PostNoticeNot(c) ==
  /\ showing[c].at = "post"
  /\ showing' = [showing EXCEPT ![c] = Idle]
  /\ UNCHANGED <<vars, fieldVars, staticVars, mNotificationBuilder, step, foreground, bar>>

(* NotificationManagerCompat.notify with what the field holds by now. *)
PostNotice(c) ==
  /\ showing[c].at = "post"
  /\ showing' = [showing EXCEPT ![c] = Idle]
  /\ bar' = mNotificationBuilder[svc[c]]
  /\ UNCHANGED <<vars, fieldVars, staticVars, mNotificationBuilder, step, foreground>>

(* The steps of StatusReporter; a runner that has sent an intent goes on   *)
(* to the notification, a disconnectThread has been there before.          *)
NoticeNotifies(t) ==
  /\ Quiet(t)
  /\ t \in Disconnects => step[t] = "cached"
  /\ ThreadNotifies(t)
  /\ showing' = IF t \in Connects /\ notify[t] = "send"
                THEN [showing EXCEPT ![t] = [at |-> "test", status |-> Head(pending[t])]]
                ELSE showing
  /\ UNCHANGED <<fieldVars, mNotificationBuilder, staticVars, step, foreground, bar>>

(***************************************************************************)
(* The system.                                                             *)
(***************************************************************************)

(* What is in the bar for instance alive when it is gone. *)
WithoutForeground == IF alive # 0 /\ foreground[alive] = "default" THEN "none" ELSE bar

NoticeDestroy ==
  /\ OnDestroy
  /\ bar' = WithoutForeground
  /\ foreground' = [i \in Instances |-> "no"]
  /\ UNCHANGED <<fieldVars, mNotificationBuilder, staticVars, step, showing>>

(* With the process go its fields and statics.  A notification that is in  *)
(* the bar for no service stays.                                           *)
NoticeDeath ==
  /\ ProcessDeath
  /\ bar' = WithoutForeground
  /\ foreground' = [i \in Instances |-> "no"]
  /\ currentCustomNotification' = FALSE
  /\ currentCustomNotificationId' = "default"
  /\ step' = [t \in Threads |-> "no"]
  /\ showing' = [c \in Connects |-> Idle]
  /\ UNCHANGED <<fieldVars, mNotificationBuilder>>

(* A client that waits, waits for the bar too. *)
NoticeSettled ==
  /\ Settled
  /\ \A c \in Connects : Quiet(c)

NoticeCommand ==
  /\ Environment = "hasty" \/ \A c \in Connects : Quiet(c)
  /\ Command
  /\ UNCHANGED noticeVars

NoticeNext ==
  \/ \E c \in Connects :
       \/ PrepareStep(c)
       \/ UpdateNotice(c) \/ PostNotice(c)
       \/ /\ connector[c] # "prepare" /\ ConnectorStep(c)
          /\ UNCHANGED noticeVars
       \/ /\ Quiet(c)
          /\ RunnerStep(c)
          /\ UNCHANGED <<serviceVars, noticeVars>>
  \/ \E d \in Disconnects :
       \/ CacheCustom(d)
       \/ /\ DisconnectStop(d) \/ (step[d] = "cached" /\ DisconnectSelf(d))
          /\ UNCHANGED noticeVars
  \/ \E t \in Threads : NoticeNotifies(t)
  \/ NoticeCommand
  \/ NoticeDestroy \/ NoticeDeath
  \/ StickyRestart /\ UNCHANGED noticeVars

NoticeSpec == NoticeInit /\ [][NoticeNext]_allVars

-----------------------------------------------------------------------------

(* A runner that updates the notification of its service finds a builder   *)
(* (PolarVpnService 392), although another thread makes it, only when no   *)
(* custom notification is at hand, and the runner asks a static and two    *)
(* fields that other requests may have changed since.                      *)
BuilderThere == \A c \in Connects : showing[c].at # "exception"

(* The state of a session that its events have announced. *)
Announced(h) == core[h] \in {"connecting", "connected", "reconnecting"}

(* Once things have settled, a default notification in the foreground      *)
(* shows the recorded status of the session (PolarVpnService 391-416),     *)
(* unless a custom one was ever found.                                     *)
NoticeFollows ==
  (/\ NoticeSettled /\ \E h \in Handlers : Announced(h)
   /\ alive # 0 /\ foreground[alive] = "default" /\ ~currentCustomNotification)
  => bar = sCurrentConnectionStatus
=============================================================================
