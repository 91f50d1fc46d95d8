-------------------------- MODULE VpnRemoteService --------------------------
(***************************************************************************)
(* VpnRemoteService: the bound service between the client and              *)
(* PolarVpnService, in a process of its own.                               *)
(*                                                                         *)
(* The client's calls are one-way: the system runs them one after another  *)
(* on a binder thread, in the order they were made.  startVpn stores its   *)
(* callback in the one field of the service before it does anything else,  *)
(* and sends a command to PolarVpnService.  The statuses that come back as *)
(* intents are handled by the main thread, which passes each to whatever   *)
(* callback the field holds by then.  The field is that of one instance of *)
(* the service: the next instance begins with none, whether a death of the *)
(* process or an unbind has ended the one before.  PolarVpnService is seen *)
(* through its StatusReporter and its reportError only.                    *)
(***************************************************************************)
EXTENDS StatusReporter, SequencesExt

CONSTANTS
  OnExternal,     \* is the application installed on external memory?
  MaxCalls,       \* bound on the client's calls
  MaxReports,     \* bound on the statuses and errors of PolarVpnService
  MaxEnds         \* bound on the instances that end, by a death or an unbind

ASSUME RemoteAssumption == OnExternal \in BOOLEAN
ASSUME RemoteBounds == {MaxCalls, MaxReports, MaxEnds} \subseteq Nat

VARIABLES
  callback,       \* the field: the startVpn it came with, 0 = null
  made,           \* the calls the client has made
  calls,          \* those the binder has yet to run: <<operation, number>>
  serving,        \* the call on the binder thread, and where it is
  commands,       \* the commands sent to PolarVpnService
  answer,         \* per startVpn: what became of it
  intents,        \* the intents the main thread has yet to handle
  told,           \* per callback: the last status it was told
  sentSince,      \* history: a status was sent since the field was last assigned
  dropped,        \* history: the intents handled with no callback to tell
  reports,        \* the reports of PolarVpnService so far (bounded)
  deaths,         \* the deaths of the process so far
  unbinds         \* the instances that an unbind has ended

binderVars == <<calls, serving, commands, answer>>
absences == <<deaths, unbinds>>
remoteVars ==
  <<callback, made, binderVars, intents, told, sentSince, dropped, reports, absences>>
vars == <<reporterVars, remoteVars>>

Calls == 1..MaxCalls
Operations == {"start", "stop", "logging"}
NoCall == [call |-> 0, at |-> "none"]

Init ==
  /\ ReporterInit
  /\ callback = 0
  /\ made = 0
  /\ calls = <<>>
  /\ serving = NoCall
  /\ commands = <<>>
  /\ answer = [n \in Calls |-> "none"]
  /\ intents = <<>>
  /\ told = [n \in Calls |-> "nothing"]
  /\ sentSince = FALSE
  /\ dropped = {}
  /\ reports = 0
  /\ deaths = 0
  /\ unbinds = 0

-----------------------------------------------------------------------------
(* The client. *)

(* A call, on a binding that is made anew where it has to be. *)
MakeCall(operation) ==
  /\ made < MaxCalls
  /\ made' = made + 1
  /\ calls' = Append(calls, <<operation, made + 1>>)
  /\ UNCHANGED <<reporterVars, callback, serving, commands, answer, intents, told,
                 sentSince, dropped, reports, absences>>

-----------------------------------------------------------------------------
(* The binder thread. *)

BinderFrame ==
  UNCHANGED <<reporterVars, made, intents, dropped, reports, absences>>

(* A mutant: the field is left for a request that is accepted. *)
TakeStartLate(n) ==
  /\ serving = NoCall /\ calls # <<>> /\ Head(calls) = <<"start", n>>
  /\ calls' = Tail(calls)
  /\ serving' = [call |-> n, at |-> "prepare"]
  /\ UNCHANGED <<callback, sentSince, commands, answer, told>>
  /\ BinderFrame

(* startVpn: the field first. *)
TakeStart(n) ==
  /\ serving = NoCall /\ calls # <<>> /\ Head(calls) = <<"start", n>>
  /\ calls' = Tail(calls)
  /\ serving' = [call |-> n, at |-> "prepare"]
  /\ callback' = n
  /\ sentSince' = FALSE
  /\ UNCHANGED <<commands, answer, told>>
  /\ BinderFrame

Ends(n, what) ==
  /\ serving' = NoCall
  /\ answer' = [answer EXCEPT ![n] = what]

(* VpnService.prepare: the user has to consent, or not.  That is told to   *)
(* the callback of this call, by the binder thread, while the main thread  *)
(* may be telling statuses to the same callback.                           *)
Prepare(n) ==
  /\ serving = [call |-> n, at |-> "prepare"]
  /\ \/ /\ Ends(n, "NEEDS_VPN_PERMISSION")
        /\ told' = [told EXCEPT ![n] = "NEEDS_VPN_PERMISSION"]
     \/ /\ serving' = [serving EXCEPT !.at = IF OnExternal THEN "install" ELSE "build"]
        /\ UNCHANGED <<answer, told>>
  /\ UNCHANGED <<callback, sentSince, calls, commands>>
  /\ BinderFrame

(* A mutant: the setup error is logged. *)
InstallQuietly(n) ==
  /\ serving = [call |-> n, at |-> "install"]
  /\ \/ /\ serving' = [serving EXCEPT !.at = "build"]
     \/ serving' = NoCall
  /\ UNCHANGED <<callback, sentSince, calls, commands, answer, told>>
  /\ BinderFrame

(* checkOrMoveBinaries, see CacheInstall: every exception in it becomes a  *)
(* VpnSetupError, which is passed to the callback in the field.            *)
Install(n) ==
  /\ serving = [call |-> n, at |-> "install"]
  /\ \/ /\ serving' = [serving EXCEPT !.at = "build"]
        /\ UNCHANGED answer
     \/ Ends(callback, "error")
  /\ UNCHANGED <<callback, sentSince, calls, commands, told>>
  /\ BinderFrame

(* The intent is built and sent.  Only VpnSetupError is caught: any other  *)
(* exception is left to the binder, which drops that of a one-way call.    *)
Forward(n) ==
  /\ serving = [call |-> n, at |-> "build"]
  /\ \/ /\ commands' = Append(commands, "connect")
        /\ Ends(n, "forwarded")
     \/ /\ Ends(n, "unanswered")
        /\ UNCHANGED commands
  /\ UNCHANGED <<callback, sentSince, calls, told>>
  /\ BinderFrame

(* stopVpn and updateLoggingEnabled send their command at once. *)
TakeOther(operation, n) ==
  /\ serving = NoCall /\ calls # <<>> /\ Head(calls) = <<operation, n>>
  /\ operation # "start"
  /\ calls' = Tail(calls)
  /\ commands' = Append(commands, operation)
  /\ UNCHANGED <<callback, sentSince, serving, answer, told>>
  /\ BinderFrame

BinderStep ==
  \E n \in Calls :
    \/ TakeStart(n) \/ Prepare(n) \/ Install(n) \/ Forward(n)
    \/ \E operation \in Operations : TakeOther(operation, n)

-----------------------------------------------------------------------------
(* PolarVpnService. *)

PolarFrame ==
  UNCHANGED <<callback, made, binderVars, told, dropped, absences>>

Send(intent) == intents' = Append(intents, intent)

(* A session has something to say once a connect has reached the service. *)
Report(t, status) ==
  /\ Contains(commands, "connect")
  /\ ~Reporting(t)
  /\ reports < MaxReports
  /\ reports' = reports + 1
  /\ pending' = [pending EXCEPT ![t] = <<status>>]
  /\ UNCHANGED <<sCurrentConnectionStatus, reported, notify, intents, sentSince>>
  /\ PolarFrame

(* The steps of StatusReporter; its send is an intent for this service. *)
ReportStep(t) ==
  /\ Notify(t)
  /\ IF notify[t] = "send"
     THEN /\ Send([type |-> "status", status |-> Head(pending[t])])
          /\ sentSince' = TRUE
     ELSE UNCHANGED <<intents, sentSince>>
  /\ UNCHANGED reports
  /\ PolarFrame

(* reportError, and the intents of onNotifySpeed and onNotifyData, which   *)
(* have the type of a status and none in them.                             *)
OtherIntent ==
  /\ Contains(commands, "connect")
  /\ reports < MaxReports
  /\ reports' = reports + 1
  /\ \E type \in {"error", "speed"} : Send([type |-> type, status |-> "nothing"])
  /\ UNCHANGED <<reporterVars, sentSince>>
  /\ PolarFrame

-----------------------------------------------------------------------------
(* The main thread: onStartCommand. *)

(* A mutant: an intent with no status in it is passed on too. *)
HasStatusAlways(intent) == intent.type \in {"status", "speed"}

(* intent.hasExtra(EXTRA_BROADCAST_VPN_STATUS). *)
HasStatus(intent) == intent.type = "status"

Handle ==
  /\ intents # <<>>
  /\ intents' = Tail(intents)
  /\ LET intent == Head(intents) IN
     /\ told' = IF callback # 0 /\ HasStatus(intent)
                THEN [told EXCEPT ![callback] = intent.status] ELSE told
     /\ dropped' = IF callback = 0 /\ (HasStatus(intent) \/ intent.type = "error")
                   THEN dropped \cup {intent} ELSE dropped
  /\ UNCHANGED <<reporterVars, callback, made, binderVars, sentSince, reports, absences>>

(* The process dies: the field is null in the next, the call under way is  *)
(* lost, those not begun fail in the client, intents wait for the restart. *)
Death ==
  /\ deaths + unbinds < MaxEnds
  /\ deaths' = deaths + 1
  /\ callback' = 0
  /\ sentSince' = FALSE
  /\ calls' = <<>>
  /\ serving' = NoCall
  /\ answer' = [n \in Calls |->
                  IF n <= made /\ answer[n] = "none" THEN "dead" ELSE answer[n]]
  /\ UNCHANGED <<reporterVars, made, commands, intents, told, dropped, reports, unbinds>>

(* The client unbinds, and that ends the instance: no intent has started   *)
(* it, or the system has stopped it since.  The process lives on, and the  *)
(* next intent or the next call makes an instance with no callback.  The   *)
(* steps of a call that the old instance still serves touch nothing of the *)
(* new one, so the unbind is taken to come after them.                     *)
Unbind ==
  /\ deaths + unbinds < MaxEnds
  /\ calls = <<>> /\ serving = NoCall /\ intents = <<>>
  /\ unbinds' = unbinds + 1
  /\ callback' = 0
  /\ sentSince' = FALSE
  /\ UNCHANGED <<reporterVars, made, binderVars, intents, told, dropped, reports, deaths>>

Next ==
  \/ \E operation \in Operations : MakeCall(operation)
  \/ BinderStep
  \/ \E t \in Threads : ReportStep(t)
  \/ \E t \in Threads, status \in {"CONNECTING", "CONNECTED", "DISCONNECTED"} :
       Report(t, status)
  \/ OtherIntent
  \/ Handle
  \/ Death
  \/ Unbind

Spec == Init /\ [][Next]_vars

(* The binder thread, the main thread and the reporting threads run. *)
FairSpec ==
  /\ Spec
  /\ WF_vars(BinderStep)
  /\ WF_vars(Handle)
  /\ \A t \in Threads : WF_vars(ReportStep(t))

-----------------------------------------------------------------------------

(* No call of the client and no intent is under way. *)
Quiescent ==
  /\ calls = <<>> /\ serving = NoCall /\ intents = <<>>
  /\ \A t \in Threads : ~Reporting(t)

(* The startVpn whose callback is in the field was refused: the user has   *)
(* to consent, and its callback was told so last.                          *)
Refused ==
  answer[callback] = "NEEDS_VPN_PERMISSION" /\ told[callback] = "NEEDS_VPN_PERMISSION"

(* When nothing is under way the client that called startVpn last believes *)
(* what PolarVpnService has recorded, if a status was sent since: although *)
(* statuses wait in a queue while calls assign the field, and intents      *)
(* without a status come between them.  Or its startVpn was refused: that  *)
(* is told by another thread, past the queue, and may be the last word it  *)
(* gets after a status of an earlier session (VpnRemoteService 82-90, 110, *)
(* 118, 217).                                                              *)
ClientFollows ==
  Quiescent /\ callback # 0 /\ sentSince =>
    told[callback] = sCurrentConnectionStatus \/ Refused

(* The command that brings intents about leaves for PolarVpnService after  *)
(* the callback has been stored (VpnRemoteService 110, 171), so an intent  *)
(* without a callback is one that a death of the process, or an unbind     *)
(* that ended the instance, came before: the field is the instance's (78). *)
DroppedWhenGone == dropped # {} => deaths > 0 \/ unbinds > 0

(* A startVpn the binder thread takes up comes to an end: a command, a     *)
(* word to its own callback, an exception that the binder drops because    *)
(* the call is one-way, or the process dies (VpnRemoteService 105-180).    *)
StartEnds == \A n \in Calls : (serving.call = n) ~> (answer[n] # "none")
=============================================================================
