------------------------- MODULE RemoteInstallProofs -------------------------
(***************************************************************************)
(* Proofs about VpnRemoteService, for any number of calls, reports, ends   *)
(* of an instance and reporting threads: an intent finds no callback only  *)
(* after a death or an unbind, and the last status sent is the last a      *)
(* client is told, unless its call was refused.  RemoteInstall implements  *)
(* VpnRemoteService and CacheInstall, so that what is proved of each holds *)
(* of the two together; and a copy error is told once.                     *)
(***************************************************************************)
EXTENDS RemoteInstall, TLAPS, FiniteSetTheorems

-----------------------------------------------------------------------------
(* The cache.                                                              *)

(* Only the caller that checks binaries touches the executable, only while *)
(* it copies, and only while the executable has no permission.             *)
BinaryInv ==
  /\ opener[Binary] \in {"nobody", "remote"}
  /\ copying["config"] # Binary
  /\ at["remote"] \notin {"copy", "recopy"} => copying["remote"] # Binary
  /\ at["remote"] \in {"copy", "recopy"} => copying["remote"] = Binary /\ ~executable
  /\ at["remote"] \in {"permit", "repermit"} => file[Binary] \in {"complete", "none"}

CacheInv == CacheTypeOK /\ BinaryInv /\ ExecutableIsWhole

(* All the files are there, or none is. *)
LEMMA InitCache == CacheInit => CacheInv
<1> SUFFICES ASSUME CacheInit PROVE CacheInv
    OBVIOUS
<1>1. CacheTypeOK
  <2>1. /\ interruptions \in 0..MaxInterruptions /\ evictions \in 0..MaxEvictions
        /\ result \in {"none", "ok", "error"}
        BY CacheBounds DEF CacheInit
  <2>5. executable \in BOOLEAN /\ unopened \in BOOLEAN
        BY Zenon DEF CacheInit
  <2>2. /\ file \in [Files -> {"none", "partial", "complete"}]
        /\ opener \in [Files -> Callers \cup {"nobody"}]
        BY DEF CacheInit, Callers
  <2>3. /\ at \in [Callers -> Places]
        /\ todo \in [Callers -> SUBSET Assets]
        /\ copying \in [Callers -> Files \cup {"none"}]
        BY DEF CacheInit, Places
  <2>4. /\ \A c \in Callers : copying[c] = "none"
        /\ \A f \in Files : opener[f] = "nobody" <=> file[f] = "none"
        BY DEF CacheInit
  <2> QED
      BY <2>1, <2>5, <2>2, <2>3, <2>4 DEF CacheTypeOK
<1>2. BinaryInv /\ ExecutableIsWhole
      BY FilesAssumption DEF CacheInit, BinaryInv, ExecutableIsWhole, Files, Callers
<1> QED
    BY <1>1, <1>2 DEF CacheInv

(* The invariant does not depend on what is not a variable of a step. *)
LEMMA CacheStutter == CacheInv /\ UNCHANGED cacheVars => CacheInv'
BY DEF cacheVars, cacheCounts, CacheInv, CacheTypeOK, BinaryInv, ExecutableIsWhole

(* The steps of the first half, for the executable. *)
LEMMA BinaryInvariant == CacheInv /\ (CheckBinaries \/ BinaryStep) => CacheInv'
<1> SUFFICES ASSUME CacheInv, CheckBinaries \/ BinaryStep PROVE CacheInv'
    OBVIOUS
<1> USE FilesAssumption DEF CacheInv, CacheTypeOK, BinaryInv, ExecutableIsWhole, Files,
        Callers, Places, Goes, cacheCounts
<1>1. CASE CheckBinaries
      BY <1>1 DEF CheckBinaries
<1>2. CASE SkipBinary
      BY <1>2 DEF SkipBinary
<1>3. CASE OpenBinary
      BY <1>3 DEF OpenBinary, Open, Present
<1>4. CASE CopyBinary
      BY <1>4 DEF CopyBinary, Close
<1>5. CASE BinaryFails
      BY <1>5 DEF BinaryFails, Fails, Answers, Close
<1>6. CASE Permit
      BY <1>6 DEF Permit
<1>7. CASE BinaryUnopened \/ PermitFails
      BY <1>7 DEF BinaryUnopened, PermitFails, Fails, Answers
<1> QED
    BY <1>1, <1>2, <1>3, <1>4, <1>5, <1>6, <1>7 DEF BinaryStep

(* The steps of the second half, of either caller, for the assets. *)
LEMMA AssetInvariant ==
  ASSUME NEW c \in Callers, CacheInv, AssetStep(c)
  PROVE CacheInv'
<1> USE FilesAssumption DEF CacheInv, CacheTypeOK, BinaryInv, ExecutableIsWhole, Files,
        Callers, Places, Goes, Answers, cacheCounts
<1>1. CASE NothingMissing(c)
      BY <1>1 DEF NothingMissing
<1>2. CASE SomeMissing(c)
      BY <1>2 DEF SomeMissing, Missing
<1>3. CASE OpenAsset(c)
      BY <1>3 DEF OpenAsset, Open
<1>6. CASE SkipAsset(c)
      BY <1>6 DEF SkipAsset
<1>4. CASE CopyAsset(c)
      BY <1>4 DEF CopyAsset, Close
<1>5. CASE MoveReturns(c)
      BY <1>5 DEF MoveReturns
<1> QED
    BY <1>1, <1>2, <1>3, <1>4, <1>5, <1>6 DEF AssetStep

(* The constructor of VpnConfig begins, a process dies, a file goes. *)
LEMMA OtherInvariant ==
  ASSUME NEW c \in Callers, NEW f \in Files, CacheInv,
         ConfigMoves \/ Interrupt(c) \/ Evict(f)
  PROVE CacheInv'
<1> USE FilesAssumption, CacheBounds
    DEF CacheInv, CacheTypeOK, BinaryInv, ExecutableIsWhole, Files, Callers, Places, Goes,
        Answers, cacheCounts
<1>1. CASE ConfigMoves
      BY <1>1 DEF ConfigMoves
<1>2. CASE Interrupt(c)
      BY <1>2 DEF Interrupt
<1>3. CASE Evict(f)
  <2>1. /\ file' \in [Files -> {"none", "partial", "complete"}]
        /\ opener' \in [Files -> Callers \cup {"nobody"}]
        /\ \A g \in Files : opener'[g] = "nobody" <=> file'[g] = "none"
        BY <1>3 DEF Evict
  <2>2. executable' \in BOOLEAN
        BY <1>3 DEF Evict
  <2>3. UNCHANGED <<at, todo, copying, result, unopened, interruptions>>
        BY <1>3 DEF Evict
  <2>4. evictions' \in 0..MaxEvictions
        BY <1>3 DEF Evict
  <2>5. CacheTypeOK'
        BY <2>1, <2>2, <2>3, <2>4
  <2>6. BinaryInv' /\ ExecutableIsWhole'
        BY <1>3, <2>3 DEF Evict
  <2> QED
      BY <2>5, <2>6
<1> QED
    BY <1>1, <1>2, <1>3

(* Every step keeps the invariant. *)
LEMMA NextCache == CacheInv /\ [CacheNext]_cacheVars => CacheInv'
<1> SUFFICES ASSUME CacheInv, [CacheNext]_cacheVars PROVE CacheInv'
    OBVIOUS
<1>1. CASE CheckBinaries \/ BinaryStep
      BY <1>1, BinaryInvariant
<1>2. CASE ConfigMoves
      BY <1>2, OtherInvariant DEF Callers, Files
<1>3. CASE \E c \in Callers : AssetStep(c) \/ Interrupt(c)
      BY <1>3, AssetInvariant, OtherInvariant DEF Files
<1>4. CASE \E f \in Files : Evict(f)
      BY <1>4, OtherInvariant DEF Callers
<1>5. CASE UNCHANGED cacheVars
      BY <1>5, CacheStutter
<1> QED
    BY <1>1, <1>2, <1>3, <1>4, <1>5 DEF CacheNext

(* The invariant holds in every state of every behavior. *)
LEMMA AlwaysCache == CacheSpec => []CacheInv
BY InitCache, NextCache, PTL DEF CacheSpec

(* Types, and that who writes a file is in a loop that copies. *)
THEOREM CacheTypes == CacheSpec => []CacheTypeOK
<1>1. CacheInv => CacheTypeOK
      BY DEF CacheInv
<1> QED
    BY AlwaysCache, <1>1, PTL

(* Whatever copies fail and whenever a process dies, a file that passes    *)
(* for the executable of OpenVPN is whole (VpnHelper 41, IOHelper 65-68).  *)
THEOREM ExecutableWhole == CacheSpec => []ExecutableIsWhole
<1>1. CacheInv => ExecutableIsWhole
      BY DEF CacheInv
<1> QED
    BY AlwaysCache, <1>1, PTL

-----------------------------------------------------------------------------
(* The callbacks.                                                          *)

(* A startVpn is on the binder thread, has reached PolarVpnService, or     *)
(* comes back from it.                                                     *)
Underway ==
  \/ serving # NoCall
  \/ Contains(commands, "connect")
  \/ intents # <<>>
  \/ \E t \in Threads : pending[t] # <<>>

(* While the first instance lives, all that needs a callback has one.      *)
CallbackInv ==
  deaths = 0 /\ unbinds = 0 =>
    /\ dropped = {}
    /\ Underway => callback # 0

(* What the steps of the proof need to know of the other variables.        *)
Shape ==
  /\ commands \in Seq(Operations \cup {"connect"})
  /\ deaths \in Nat /\ unbinds \in Nat
  /\ \A t \in Threads : notify[t] # "idle" => pending[t] # <<>>
  /\ pending \in [Threads -> Seq(Status)]
  /\ notify \in [Threads -> {"idle", "set", "send"}]

RemoteInv == Shape /\ CallbackInv

-----------------------------------------------------------------------------

(* A command other than a connect adds no connect. *)
LEMMA NoConnectAdded ==
  ASSUME NEW s \in Seq(Operations \cup {"connect"}), NEW e \in Operations \ {"start"},
         Contains(Append(s, e), "connect")
  PROVE  Contains(s, "connect")
<1>1. PICK i \in 1..Len(Append(s, e)) : Append(s, e)[i] = "connect"
      BY DEF Contains
<1>2. i \in 1..Len(s) /\ s[i] = "connect"
      BY <1>1 DEF Operations
<1> QED
    BY <1>2 DEF Contains

(* Nothing is under way in the first state. *)
LEMMA InitRemote == Init => RemoteInv
<1> SUFFICES ASSUME Init PROVE RemoteInv
    OBVIOUS
<1>1. Shape
      BY DEF Init, ReporterInit, Shape
<1>2. ~Contains(commands, "connect")
      BY DEF Init, Contains
<1>3. CallbackInv
      BY <1>2 DEF Init, ReporterInit, CallbackInv, Underway, NoCall
<1> QED
    BY <1>1, <1>3 DEF RemoteInv

(* A step that finds something under way, keeps the field and drops        *)
(* nothing, keeps the invariant.                                           *)
LEMMA FieldKept ==
  ASSUME CallbackInv, Underway \/ ~Underway', callback' = callback,
         dropped' = dropped, UNCHANGED absences
  PROVE  CallbackInv'
BY DEF CallbackInv, absences

(* The steps of the client and of the binder thread. *)
LEMMA BinderInvariant ==
  ASSUME RemoteInv, (\E operation \in Operations : MakeCall(operation)) \/ BinderStep
  PROVE  RemoteInv'
<1> USE DEF RemoteInv
<1>1. CASE \E operation \in Operations : MakeCall(operation)
  <2>1. UNCHANGED <<reporterVars, callback, serving, commands, intents, dropped, absences>>
        BY <1>1 DEF MakeCall
  <2>2. Shape' /\ Underway' = Underway
        BY <2>1 DEF Shape, Underway, reporterVars, absences
  <2> QED
      BY <2>1, <2>2, FieldKept
<1>2. ASSUME NEW n \in Calls, TakeStart(n) PROVE RemoteInv'
  <2>1. /\ UNCHANGED <<reporterVars, commands, dropped, absences>>
        /\ callback' # 0
        BY <1>2 DEF TakeStart, BinderFrame, Calls
  <2>2. Shape'
        BY <2>1 DEF Shape, reporterVars, absences
  <2> QED
      BY <2>1, <2>2 DEF CallbackInv, absences
<1>3. ASSUME NEW n \in Calls, Prepare(n) \/ Install(n) \/ Forward(n) PROVE RemoteInv'
  <2>1. /\ UNCHANGED <<reporterVars, callback, dropped, absences>>
        /\ \/ commands' = commands
           \/ commands' = Append(commands, "connect")
        /\ serving # NoCall
    <3>1. UNCHANGED <<reporterVars, callback, dropped, absences>>
          BY <1>3 DEF Prepare, Install, Forward, BinderFrame
    <3>2. commands' = commands \/ commands' = Append(commands, "connect")
          BY <1>3 DEF Prepare, Install, Forward
    <3>3. \E where \in {"prepare", "install", "build"} : serving = [call |-> n, at |-> where]
          BY <1>3 DEF Prepare, Install, Forward
    <3>4. serving.call = n
          BY <3>3
    <3>5. n # 0
          BY DEF Calls
    <3>6. NoCall.call = 0
          BY DEF NoCall
    <3>7. serving # NoCall
          BY <3>4, <3>5, <3>6
    <3> QED
        BY <3>1, <3>2, <3>7
  <2>2. Shape'
    <3>1. commands' \in Seq(Operations \cup {"connect"})
      <4>1. CASE commands' = commands
            BY <4>1 DEF Shape
      <4>2. CASE commands' = Append(commands, "connect")
            BY <4>2 DEF Shape
      <4> QED
          BY <2>1, <4>1, <4>2
    <3> QED
        BY <2>1, <3>1 DEF Shape, reporterVars, absences
  <2>3. Underway
        BY <2>1 DEF Underway
  <2> QED
      BY <2>1, <2>2, <2>3, FieldKept
<1>4. ASSUME NEW n \in Calls, NEW operation \in Operations, TakeOther(operation, n)
      PROVE  RemoteInv'
  <2>1. /\ UNCHANGED <<reporterVars, callback, serving, intents, dropped, absences>>
        /\ operation # "start"
        /\ commands' = Append(commands, operation)
        BY <1>4 DEF TakeOther, BinderFrame
  <2>2. Shape'
        BY <2>1 DEF Shape, reporterVars, absences
  <2>3. Contains(commands', "connect") => Contains(commands, "connect")
        BY <2>1, NoConnectAdded DEF Shape
  <2>4. Underway \/ ~Underway'
        BY <2>1, <2>3 DEF Underway, reporterVars
  <2> QED
      BY <2>1, <2>2, <2>4, FieldKept
<1> QED
    BY <1>1, <1>2, <1>3, <1>4 DEF BinderStep

(* The steps of PolarVpnService: it reports when it was told to connect. *)
LEMMA PolarInvariant ==
  ASSUME RemoteInv,
         \/ \E t \in Threads : ReportStep(t)
         \/ \E t \in Threads, status \in Status : Report(t, status)
         \/ OtherIntent
  PROVE  RemoteInv'
<1> USE DEF RemoteInv
<1>1. ASSUME NEW t \in Threads, ReportStep(t) PROVE RemoteInv'
  <2>1. /\ Notify(t)
        /\ UNCHANGED <<callback, commands, dropped, absences>>
        BY <1>1 DEF ReportStep, PolarFrame, binderVars
  <2>2. pending[t] # <<>>
        BY <2>1 DEF Notify, NotifySkip, NotifyPass, NotifySet, NotifySend, Reporting, Shape
  <2>3. Shape'
    <3>1. CASE NotifySkip(t)
          BY <3>1, <2>1 DEF NotifySkip, Reporting, Shape, absences
    <3>2. CASE NotifyPass(t)
          BY <3>2, <2>1 DEF NotifyPass, Reporting, Shape, absences
    <3>3. CASE NotifySet(t)
          BY <3>3, <2>1 DEF NotifySet, Shape, absences
    <3>4. CASE NotifySend(t)
          BY <3>4, <2>1, <2>2 DEF NotifySend, Shape, absences
    <3> QED
        BY <2>1, <3>1, <3>2, <3>3, <3>4 DEF Notify
  <2>4. Underway
        BY <2>2 DEF Underway
  <2> QED
      BY <2>1, <2>3, <2>4, FieldKept
<1>2. ASSUME NEW t \in Threads, NEW status \in Status, Report(t, status) PROVE RemoteInv'
  <2>1. /\ Contains(commands, "connect")
        /\ pending' = [pending EXCEPT ![t] = <<status>>]
        /\ UNCHANGED <<callback, commands, notify, dropped, absences>>
        BY <1>2 DEF Report, PolarFrame, binderVars
  <2>2. Shape'
        BY <2>1 DEF Shape, absences
  <2>3. Underway
        BY <2>1 DEF Underway
  <2> QED
      BY <2>1, <2>2, <2>3, FieldKept
<1>3. CASE OtherIntent
  <2>1. /\ Contains(commands, "connect")
        /\ UNCHANGED <<reporterVars, callback, commands, dropped, absences>>
        BY <1>3 DEF OtherIntent, PolarFrame, binderVars
  <2>2. Shape'
        BY <2>1 DEF Shape, reporterVars, absences
  <2>3. Underway
        BY <2>1 DEF Underway
  <2> QED
      BY <2>1, <2>2, <2>3, FieldKept
<1> QED
    BY <1>1, <1>2, <1>3

(* The main thread finds a callback for the intent it handles. *)
LEMMA HandleInvariant ==
  ASSUME RemoteInv, Handle
  PROVE  RemoteInv'
<1> USE DEF RemoteInv
<1>1. /\ intents # <<>>
      /\ dropped' = IF callback = 0 /\ (HasStatus(Head(intents))
                                        \/ Head(intents).type = "error")
                    THEN dropped \cup {Head(intents)} ELSE dropped
      /\ UNCHANGED <<reporterVars, callback, commands, absences>>
      BY DEF Handle, binderVars
<1>2. Shape'
      BY <1>1 DEF Shape, reporterVars, absences
<1>3. Underway
      BY <1>1 DEF Underway
<1>4. CallbackInv'
      BY <1>1, <1>3 DEF CallbackInv, absences
<1> QED
    BY <1>2, <1>4

(* A death is counted, and so is an unbind. *)
LEMMA EndInvariant ==
  ASSUME RemoteInv, Death \/ Unbind
  PROVE  RemoteInv'
<1> USE DEF RemoteInv
<1>1. Shape'
      BY DEF Death, Unbind, Shape, reporterVars, binderVars
<1>2. deaths' # 0 \/ unbinds' # 0
      BY DEF Death, Unbind, Shape
<1> QED
    BY <1>1, <1>2 DEF CallbackInv

LEMMA StutterInvariant ==
  ASSUME RemoteInv, UNCHANGED vars
  PROVE  RemoteInv'
BY DEF RemoteInv, Shape, CallbackInv, Underway, vars, remoteVars, binderVars, reporterVars,
       absences

(* Every step keeps the invariant. *)
LEMMA NextRemote == RemoteInv /\ [Next]_vars => RemoteInv'
<1> SUFFICES ASSUME RemoteInv, [Next]_vars PROVE RemoteInv'
    OBVIOUS
<1>1. CASE (\E operation \in Operations : MakeCall(operation)) \/ BinderStep
      BY <1>1, BinderInvariant
<1>2. CASE \/ \E t \in Threads : ReportStep(t)
           \/ \E t \in Threads, status \in {"CONNECTING", "CONNECTED", "DISCONNECTED"} :
                Report(t, status)
           \/ OtherIntent
      BY <1>2, PolarInvariant DEF Status
<1>3. CASE Handle
      BY <1>3, HandleInvariant
<1>4. CASE Death \/ Unbind
      BY <1>4, EndInvariant
<1>5. CASE UNCHANGED vars
      BY <1>5, StutterInvariant
<1> QED
    BY <1>1, <1>2, <1>3, <1>4, <1>5 DEF Next

-----------------------------------------------------------------------------

(* Only a death of the process or an unbind that ended an instance makes   *)
(* an intent find the field empty (VpnRemoteService 78, 204, 218), however *)
(* calls, commands and statuses interleave: the callback is stored before  *)
(* the command leaves.                                                     *)
THEOREM OnlyAbsenceDrops == Spec => []DroppedWhenGone
<1>1. RemoteInv => DroppedWhenGone
      BY DEF RemoteInv, Shape, CallbackInv, DroppedWhenGone
<1> QED
    BY InitRemote, NextRemote, <1>1, PTL DEF Spec

-----------------------------------------------------------------------------
(* What a client is told. *)

Intents == [type : {"status", "error", "speed"}, status : Status \cup {"nothing"}]

Outcomes ==
  {"none", "NEEDS_VPN_PERMISSION", "error", "forwarded", "unanswered", "dead"}

RemoteTypeOK ==
  /\ ReporterTypeOK
  /\ callback \in Calls \cup {0}
  /\ intents \in Seq(Intents)
  /\ told \in [Calls -> Status \cup {"nothing"}]
  /\ answer \in [Calls -> Outcomes]

(* No intent from place i of the queue on has a status in it. *)
NoStatusFrom(i) == \A j \in i..Len(intents) : ~HasStatus(intents[j])

(* What the callback in the field was told last, when no status is queued. *)
Settled == told[callback] = reported \/ Refused

(* A status sent since the field was assigned is in the queue, with no     *)
(* other behind it, or is the last that the callback in the field got, but *)
(* for a refusal.                                                          *)
ToldInv ==
  callback # 0 /\ sentSince =>
    \/ Settled /\ NoStatusFrom(1)
    \/ \E i \in 1..Len(intents) :
         /\ HasStatus(intents[i]) /\ intents[i].status = reported
         /\ NoStatusFrom(i + 1)

(* The calls are numbered in the order they are made and served in, the    *)
(* one that is served has its callback in the field, and it and those to   *)
(* come have no answer yet.                                                *)
Numbered ==
  /\ made \in Nat /\ calls \in Seq(Operations \X Nat) /\ Len(calls) <= made
  /\ \A i \in 1..Len(calls) : calls[i][2] = made - Len(calls) + i
  /\ \A n \in Calls : n > made - Len(calls) => answer[n] = "none"
  /\ serving.call \in 0..(made - Len(calls))
  /\ serving.call # 0 => callback = serving.call /\ answer[callback] = "none"

(* While one thread reports, the status sent last is the recorded one,     *)
(* unless this thread is about to send that.                               *)
SentInv ==
  /\ (\A t \in Threads : notify[t] # "send") => reported = sCurrentConnectionStatus
  /\ \A t \in Threads : notify[t] = "send" => Head(pending[t]) = sCurrentConnectionStatus

-----------------------------------------------------------------------------

LEMMA InitTold == Init => RemoteTypeOK /\ Numbered /\ ToldInv /\ SentInv
<1> SUFFICES ASSUME Init PROVE RemoteTypeOK /\ Numbered /\ ToldInv /\ SentInv
    OBVIOUS
<1>1. RemoteTypeOK
      BY DEF Init, ReporterInit, RemoteTypeOK, ReporterTypeOK, Status, Outcomes
<1>2. ToldInv /\ SentInv
      BY DEF Init, ReporterInit, ToldInv, SentInv
<1>3. Numbered
      BY DEF Init, Numbered, NoCall
<1> QED
    BY <1>1, <1>2, <1>3

(* The types are kept by the steps of the client and the binder thread. *)
LEMMA BinderTypes ==
  ASSUME RemoteTypeOK,
         \/ \E operation \in Operations : MakeCall(operation)
         \/ BinderStep \/ Death \/ Unbind
  PROVE  RemoteTypeOK'
<1> USE DEF RemoteTypeOK
<1>1. ASSUME UNCHANGED <<reporterVars, intents>>,
             told' \in [Calls -> Status \cup {"nothing"}],
             callback' \in Calls \cup {0}, answer' \in [Calls -> Outcomes]
      PROVE  RemoteTypeOK'
      BY <1>1 DEF ReporterTypeOK, reporterVars, Reporting
<1>2. ASSUME NEW operation \in Operations, MakeCall(operation) PROVE RemoteTypeOK'
      BY <1>1, <1>2 DEF MakeCall
<1>3. ASSUME NEW n \in Calls, TakeStart(n) PROVE RemoteTypeOK'
      BY <1>1, <1>3 DEF TakeStart, BinderFrame
<1>4. ASSUME NEW n \in Calls, Prepare(n) PROVE RemoteTypeOK'
      BY <1>1, <1>4 DEF Prepare, BinderFrame, Ends, Outcomes, Status
<1>5. ASSUME NEW n \in Calls, Install(n) PROVE RemoteTypeOK'
      BY <1>1, <1>5 DEF Install, BinderFrame, Ends, Outcomes
<1>6. ASSUME NEW n \in Calls, Forward(n) PROVE RemoteTypeOK'
      BY <1>1, <1>6 DEF Forward, BinderFrame, Ends, Outcomes
<1>7. ASSUME NEW n \in Calls, NEW operation \in Operations, TakeOther(operation, n)
      PROVE  RemoteTypeOK'
      BY <1>1, <1>7 DEF TakeOther, BinderFrame
<1>8. CASE Death
      BY <1>1, <1>8 DEF Death, Outcomes
<1>9. CASE Unbind
      BY <1>1, <1>9 DEF Unbind, binderVars
<1> QED
    BY <1>2, <1>3, <1>4, <1>5, <1>6, <1>7, <1>8, <1>9 DEF BinderStep

(* One step of a report keeps the types of StatusReporter. *)
LEMMA NotifyTypes ==
  ASSUME ReporterTypeOK, NEW t \in Threads, Notify(t)
  PROVE  /\ ReporterTypeOK'
         /\ pending[t] # <<>> /\ Head(pending[t]) \in Status
<1> USE DEF ReporterTypeOK, Reporting
<1>1. pending[t] # <<>> /\ pending[t] \in Seq(Status)
      BY DEF Notify, NotifySkip, NotifyPass, NotifySet, NotifySend
<1>2. Head(pending[t]) \in Status /\ Tail(pending[t]) \in Seq(Status)
      BY <1>1
<1>3. CASE NotifySkip(t)
      BY <1>1, <1>2, <1>3 DEF NotifySkip
<1>4. CASE NotifyPass(t)
      BY <1>1, <1>2, <1>4 DEF NotifyPass
<1>5. CASE NotifySet(t)
      BY <1>1, <1>2, <1>5 DEF NotifySet
<1>6. CASE NotifySend(t)
      BY <1>1, <1>2, <1>6 DEF NotifySend
<1> QED
    BY <1>1, <1>2, <1>3, <1>4, <1>5, <1>6 DEF Notify

(* The types are kept by the steps of PolarVpnService and the main thread. *)
LEMMA PolarTypes ==
  ASSUME RemoteTypeOK,
         \/ \E t \in Threads : ReportStep(t)
         \/ \E t \in Threads, status \in Status : Report(t, status)
         \/ OtherIntent
         \/ Handle
  PROVE  RemoteTypeOK'
<1> USE DEF RemoteTypeOK
<1>1. ASSUME NEW t \in Threads, ReportStep(t) PROVE RemoteTypeOK'
  <2>1. Notify(t) /\ UNCHANGED <<callback, told, answer>>
        BY <1>1 DEF ReportStep, PolarFrame, binderVars
  <2>2. ReporterTypeOK' /\ Head(pending[t]) \in Status
        BY <2>1, NotifyTypes
  <2>3. intents' \in Seq(Intents)
    <3>1. [type |-> "status", status |-> Head(pending[t])] \in Intents
          BY <2>2 DEF Intents
    <3> QED
        BY <1>1, <3>1 DEF ReportStep, Send
  <2> QED
      BY <2>1, <2>2, <2>3
<1>2. ASSUME NEW t \in Threads, NEW status \in Status, Report(t, status) PROVE RemoteTypeOK'
      BY <1>2 DEF Report, Reporting, PolarFrame, binderVars, ReporterTypeOK
<1>3. CASE OtherIntent
  <2>1. UNCHANGED <<reporterVars, callback, told, answer>>
        BY <1>3 DEF OtherIntent, PolarFrame, binderVars
  <2>2. PICK type \in {"error", "speed"} : Send([type |-> type, status |-> "nothing"])
        BY <1>3 DEF OtherIntent
  <2>3. [type |-> type, status |-> "nothing"] \in Intents
        BY DEF Intents
  <2> QED
      BY <2>1, <2>2, <2>3 DEF Send, ReporterTypeOK, reporterVars, Reporting
<1>4. CASE Handle
  <2>1. /\ UNCHANGED <<reporterVars, callback, answer>>
        /\ intents # <<>> /\ intents' = Tail(intents)
        BY <1>4 DEF Handle, binderVars
  <2>2. Head(intents) \in Intents /\ intents' \in Seq(Intents)
        BY <2>1
  <2>3. told' \in [Calls -> Status \cup {"nothing"}]
        BY <1>4, <2>2 DEF Handle, Intents
  <2> QED
      BY <2>1, <2>2, <2>3 DEF ReporterTypeOK, reporterVars, Reporting
<1> QED
    BY <1>1, <1>2, <1>3, <1>4

LEMMA NextTypes == RemoteTypeOK /\ [Next]_vars => RemoteTypeOK'
<1> SUFFICES ASSUME RemoteTypeOK, [Next]_vars PROVE RemoteTypeOK'
    OBVIOUS
<1>1. CASE \/ \E operation \in Operations : MakeCall(operation)
           \/ BinderStep \/ Death \/ Unbind
      BY <1>1, BinderTypes
<1>2. CASE \/ \E t \in Threads : ReportStep(t)
           \/ \E t \in Threads, status \in {"CONNECTING", "CONNECTED", "DISCONNECTED"} :
                Report(t, status)
           \/ OtherIntent
           \/ Handle
      BY <1>2, PolarTypes DEF Status
<1>3. CASE UNCHANGED vars
      BY <1>3 DEF vars, remoteVars, binderVars, reporterVars, RemoteTypeOK,
                  ReporterTypeOK, Reporting
<1> QED
    BY <1>1, <1>2, <1>3 DEF Next

-----------------------------------------------------------------------------

(* The calls are numbered. *)
LEMMA NextNumbered == RemoteTypeOK /\ Numbered /\ [Next]_vars => Numbered'
<1> SUFFICES ASSUME RemoteTypeOK, Numbered, [Next]_vars PROVE Numbered'
    OBVIOUS
<1> USE DEF Numbered
<1>1. ASSUME UNCHANGED <<made, calls, serving, answer, callback>> PROVE Numbered'
      BY <1>1
<1>2. ASSUME NEW operation \in Operations, MakeCall(operation) PROVE Numbered'
  <2>1. /\ made' = made + 1 /\ calls' = Append(calls, <<operation, made + 1>>)
        /\ UNCHANGED <<serving, answer, callback>>
        BY <1>2 DEF MakeCall
  <2>2. /\ calls' \in Seq(Operations \X Nat) /\ Len(calls') = Len(calls) + 1
        /\ Len(calls) \in Nat
        BY <2>1
  <2>3. \A i \in 1..Len(calls') : calls'[i][2] = made' - Len(calls') + i
        BY <2>1, <2>2
  <2> QED
      BY <2>1, <2>2, <2>3
<1>3. ASSUME NEW operation \in Operations, NEW n \in Calls,
             calls # <<>>, Head(calls) = <<operation, n>>, calls' = Tail(calls),
             made' = made, serving.call = 0
      PROVE  /\ calls' \in Seq(Operations \X Nat) /\ Len(calls') <= made'
             /\ \A i \in 1..Len(calls') : calls'[i][2] = made' - Len(calls') + i
             /\ n = made' - Len(calls') /\ answer[n] = "none"
             /\ \A m \in Calls : m > made' - Len(calls') => answer[m] = "none"
  <2>1. /\ Len(calls) \in Nat \ {0} /\ Len(calls') = Len(calls) - 1
        /\ calls' \in Seq(Operations \X Nat) /\ Head(calls) = calls[1]
        /\ \A i \in 1..Len(calls') : calls'[i] = calls[i + 1]
        BY <1>3
  <2>2. n = made - Len(calls) + 1
        BY <1>3, <2>1
  <2> QED
      BY <1>3, <2>1, <2>2 DEF Calls
<1>4. ASSUME NEW n \in Calls, TakeStart(n) PROVE Numbered'
  <2>1. /\ serving.call = 0 /\ made' = made /\ answer' = answer
        /\ calls # <<>> /\ Head(calls) = <<"start", n>> /\ calls' = Tail(calls)
        /\ serving'.call = n /\ callback' = n
        BY <1>4 DEF TakeStart, BinderFrame, NoCall
  <2>2. "start" \in Operations
        BY DEF Operations
  <2> QED
      BY <1>3, <2>1, <2>2 DEF Calls
<1>5. ASSUME NEW n \in Calls, NEW operation \in Operations, TakeOther(operation, n)
      PROVE  Numbered'
  <2>1. /\ serving.call = 0 /\ made' = made /\ UNCHANGED <<answer, serving, callback>>
        /\ calls # <<>> /\ Head(calls) = <<operation, n>> /\ calls' = Tail(calls)
        BY <1>5 DEF TakeOther, BinderFrame, NoCall
  <2> QED
      BY <1>3, <2>1 DEF Calls
<1>6. ASSUME NEW n \in Calls, Prepare(n) \/ Install(n) \/ Forward(n) PROVE Numbered'
  <2>1. serving.call = n /\ n # 0 /\ callback = n
        BY <1>6 DEF Prepare, Install, Forward, Calls
  <2>2. UNCHANGED <<made, calls, callback>>
        BY <1>6 DEF Prepare, Install, Forward, BinderFrame
  <2>3. \/ answer' = answer /\ serving'.call = n
        \/ serving'.call = 0 /\ \E what \in Outcomes : answer' = [answer EXCEPT ![n] = what]
        BY <1>6, <2>1 DEF Prepare, Install, Forward, Ends, NoCall, Outcomes
  <2>4. Len(calls) \in Nat /\ n \in Nat /\ n <= made - Len(calls)
        BY <2>1 DEF Calls
  <2>5. \A m \in Calls : m > made - Len(calls) => answer'[m] = "none"
    <3>1. ASSUME NEW m \in Calls, m > made - Len(calls) PROVE answer'[m] = answer[m]
      <4>1. m # n
            BY <2>4, <3>1 DEF Calls
      <4> QED
          BY <2>3, <4>1 DEF RemoteTypeOK
    <3> QED
        BY <3>1
  <2>6. serving'.call # 0 => answer' = answer /\ serving'.call = n
        BY <2>3
  <2>7. serving'.call \in 0..(made - Len(calls))
        BY <2>3, <2>4
  <2> QED
      BY <2>1, <2>2, <2>5, <2>6, <2>7
<1>7. CASE Death
      BY <1>7 DEF Death, NoCall, RemoteTypeOK, Calls
<1>8. CASE Unbind
      BY <1>8 DEF Unbind, NoCall, binderVars
<1>9. CASE \/ \E t \in Threads : ReportStep(t)
           \/ \E t \in Threads, status \in {"CONNECTING", "CONNECTED", "DISCONNECTED"} :
                Report(t, status)
           \/ OtherIntent \/ Handle \/ UNCHANGED vars
      BY <1>1, <1>9 DEF ReportStep, Report, OtherIntent, Handle, PolarFrame, binderVars,
                        vars, remoteVars
<1> QED
    BY <1>2, <1>4, <1>5, <1>6, <1>7, <1>8, <1>9 DEF Next, BinderStep

(* With the queue and the last status sent as they are nothing changes: a  *)
(* callback that is settled stays so, or the field was assigned.           *)
LEMMA ToldKept ==
  ASSUME ToldInv, UNCHANGED <<intents, reported>>,
         \/ UNCHANGED <<callback, sentSince>> /\ (Settled => Settled')
         \/ ~sentSince'
  PROVE  ToldInv'
BY DEF ToldInv, NoStatusFrom

(* The same where no call gets an answer. *)
LEMMA ToldStays ==
  ASSUME ToldInv, UNCHANGED <<intents, reported, told, answer, callback, sentSince>>
  PROVE  ToldInv'
<1>1. Settled' = Settled
      BY DEF Settled, Refused
<1> QED
    BY <1>1, ToldKept

(* An intent joins the queue: a status, which is then the last one sent,   *)
(* or one without.                                                         *)
LEMMA ToldAppended ==
  ASSUME RemoteTypeOK, ToldInv, NEW intent \in Intents,
         intents' = Append(intents, intent),
         UNCHANGED <<callback, told, answer>>,
         \/ HasStatus(intent) /\ reported' = intent.status
         \/ ~HasStatus(intent) /\ UNCHANGED <<reported, sentSince>>
  PROVE  ToldInv'
<1>1. /\ Len(intents') = Len(intents) + 1 /\ Len(intents) \in Nat
      /\ intents'[Len(intents) + 1] = intent
      /\ \A i \in 1..Len(intents) : intents'[i] = intents[i]
      BY DEF RemoteTypeOK
<1>2. CASE HasStatus(intent) /\ reported' = intent.status
  <2> DEFINE k == Len(intents) + 1
  <2>1. NoStatusFrom(k + 1)'
        BY <1>1 DEF NoStatusFrom
  <2>2. k \in 1..Len(intents') /\ intents'[k] = intent
        BY <1>1
  <2> HIDE DEF k
  <2>3. \E i \in 1..Len(intents') : /\ HasStatus(intents'[i]) /\ intents'[i].status = reported'
                                   /\ NoStatusFrom(i + 1)'
        BY <1>2, <2>1, <2>2 DEF NoStatusFrom
  <2> QED
      BY <2>3 DEF ToldInv
<1>3. CASE ~HasStatus(intent) /\ UNCHANGED <<reported, sentSince>>
  <2>1. ASSUME NEW i \in Nat \ {0}, NoStatusFrom(i) PROVE NoStatusFrom(i)'
    <3>1. SUFFICES ASSUME NEW j \in i..Len(intents') PROVE ~HasStatus(intents'[j])
          BY DEF NoStatusFrom
    <3>2. CASE j = Len(intents) + 1
          BY <1>1, <1>3, <3>2
    <3>3. CASE j # Len(intents) + 1
      <4>1. j \in i..Len(intents) /\ j \in 1..Len(intents)
            BY <1>1, <3>3
      <4> QED
          BY <1>1, <2>1, <4>1 DEF NoStatusFrom
    <3> QED
        BY <3>2, <3>3
  <2>2. SUFFICES ASSUME callback # 0, sentSince
                 PROVE  \/ Settled /\ NoStatusFrom(1)'
                        \/ \E i \in 1..Len(intents)' :
                             /\ HasStatus(intents'[i]) /\ intents'[i].status = reported
                             /\ NoStatusFrom(i + 1)'
        BY <1>3 DEF ToldInv, Settled, Refused
  <2>3. CASE Settled /\ NoStatusFrom(1)
        BY <2>1, <2>3
  <2>4. ASSUME NEW i \in 1..Len(intents), HasStatus(intents[i]),
               intents[i].status = reported, NoStatusFrom(i + 1)
        PROVE  \E k \in 1..Len(intents)' :
                 /\ HasStatus(intents'[k]) /\ intents'[k].status = reported
                 /\ NoStatusFrom(k + 1)'
    <3>1. i \in 1..Len(intents)' /\ intents'[i] = intents[i] /\ i + 1 \in Nat \ {0}
          BY <1>1
    <3>2. NoStatusFrom(i + 1)'
          BY <2>1, <2>4, <3>1
    <3> QED
        BY <2>4, <3>1, <3>2
  <2> QED
      BY <2>2, <2>3, <2>4 DEF ToldInv
<1> QED
    BY <1>2, <1>3

(* The main thread tells the callback what the first intent says. *)
LEMMA ToldHandled ==
  ASSUME RemoteTypeOK, ToldInv, Handle
  PROVE  ToldInv'
<1>1. /\ UNCHANGED <<reporterVars, callback, sentSince, answer>>
      /\ intents # <<>> /\ intents' = Tail(intents)
      /\ told' = IF callback # 0 /\ HasStatus(Head(intents))
                 THEN [told EXCEPT ![callback] = Head(intents).status] ELSE told
      BY DEF Handle, binderVars
<1>2. /\ Len(intents) \in Nat \ {0} /\ Len(intents') = Len(intents) - 1
      /\ Head(intents) = intents[1]
      /\ \A i \in 1..Len(intents') : intents'[i] = intents[i + 1]
      BY <1>1 DEF RemoteTypeOK
<1>3. ASSUME NEW i \in Nat \ {0}, NoStatusFrom(i + 1) PROVE NoStatusFrom(i)'
      BY <1>2, <1>3 DEF NoStatusFrom
<1>4. SUFFICES ASSUME callback # 0, sentSince
               PROVE  \/ Settled' /\ NoStatusFrom(1)'
                      \/ \E i \in 1..Len(intents)' :
                           /\ HasStatus(intents'[i]) /\ intents'[i].status = reported
                           /\ NoStatusFrom(i + 1)'
      BY <1>1 DEF ToldInv, reporterVars
<1>5. CASE Settled /\ NoStatusFrom(1)
  <2>1. ~HasStatus(Head(intents))
        BY <1>2, <1>5 DEF NoStatusFrom
  <2>2. NoStatusFrom(1 + 1)
        BY <1>2, <1>5 DEF NoStatusFrom
  <2> QED
      BY <1>1, <1>3, <1>5, <2>1, <2>2 DEF Settled, Refused, reporterVars
<1>6. ASSUME NEW i \in 1..Len(intents), HasStatus(intents[i]),
             intents[i].status = reported, NoStatusFrom(i + 1)
      PROVE  \/ Settled' /\ NoStatusFrom(1)'
             \/ \E k \in 1..Len(intents)' :
                  /\ HasStatus(intents'[k]) /\ intents'[k].status = reported
                  /\ NoStatusFrom(k + 1)'
  <2>1. CASE i = 1
    <3>1. told'[callback] = reported
          BY <1>1, <1>2, <1>4, <1>6, <2>1 DEF RemoteTypeOK
    <3> QED
        BY <1>1, <1>3, <1>6, <2>1, <3>1 DEF Settled, reporterVars
  <2>2. CASE i # 1
    <3> DEFINE k == i - 1
    <3>1. k \in 1..Len(intents') /\ intents'[k] = intents[i] /\ k + 1 = i
          BY <1>2, <2>2
    <3>2. NoStatusFrom(k + 1)'
          BY <1>3, <1>6, <3>1
    <3> QED
        BY <1>6, <3>1, <3>2
  <2> QED
      BY <2>1, <2>2
<1> QED
    BY <1>4, <1>5, <1>6 DEF ToldInv

(* Every step keeps it. *)
LEMMA NextTold == RemoteTypeOK /\ Numbered /\ ToldInv /\ [Next]_vars => ToldInv'
<1> SUFFICES ASSUME RemoteTypeOK, Numbered, ToldInv, [Next]_vars PROVE ToldInv'
    OBVIOUS
<1>1. ASSUME NEW operation \in Operations, MakeCall(operation) PROVE ToldInv'
      BY <1>1, ToldStays DEF MakeCall, reporterVars
<1>2. CASE BinderStep
  <2>1. UNCHANGED <<intents, reported>>
        BY <1>2 DEF BinderStep, TakeStart, Prepare, Install, Forward, TakeOther,
                    BinderFrame, reporterVars
  <2>2. ASSUME NEW n \in Calls, TakeStart(n) PROVE ToldInv'
        BY <2>1, <2>2, ToldKept DEF TakeStart
  <2>3. ASSUME NEW n \in Calls, Prepare(n) \/ Install(n) \/ Forward(n) PROVE ToldInv'
    <3>1. /\ serving.call = n /\ n # 0
          /\ UNCHANGED <<callback, sentSince>>
          BY <2>3 DEF Prepare, Install, Forward, Calls
    <3>2. callback = n /\ answer[n] = "none"
          BY <3>1 DEF Numbered
    <3>3. \/ told' = told
          \/ /\ told' = [told EXCEPT ![n] = "NEEDS_VPN_PERMISSION"]
             /\ answer' = [answer EXCEPT ![n] = "NEEDS_VPN_PERMISSION"]
          BY <2>3 DEF Prepare, Install, Forward, Ends
    <3>4. Settled => Settled'
          BY <2>1, <3>1, <3>2, <3>3 DEF Settled, Refused, RemoteTypeOK
    <3> QED
        BY <2>1, <3>1, <3>4, ToldKept
  <2>4. ASSUME NEW n \in Calls, NEW operation \in Operations, TakeOther(operation, n)
        PROVE  ToldInv'
        BY <2>1, <2>4, ToldStays DEF TakeOther
  <2> QED
      BY <1>2, <2>2, <2>3, <2>4 DEF BinderStep
<1>3. ASSUME NEW t \in Threads, ReportStep(t) PROVE ToldInv'
  <2>1. Notify(t) /\ UNCHANGED <<callback, told, answer>>
        BY <1>3 DEF ReportStep, PolarFrame, binderVars
  <2>2. CASE notify[t] = "send"
    <3> DEFINE intent == [type |-> "status", status |-> Head(pending[t])]
    <3>1. Head(pending[t]) \in Status
          BY <2>1, NotifyTypes DEF RemoteTypeOK
    <3>2. intent \in Intents
          BY <3>1 DEF Intents
    <3>3. HasStatus(intent) /\ reported' = intent.status
          BY <2>1, <2>2 DEF HasStatus, Notify, NotifySkip, NotifyPass, NotifySet, NotifySend
    <3>4. intents' = Append(intents, intent)
          BY <1>3, <2>2 DEF ReportStep, Send
    <3> HIDE DEF intent
    <3> QED
        BY <2>1, <3>2, <3>3, <3>4, ToldAppended
  <2>3. CASE notify[t] # "send"
    <3>1. UNCHANGED <<intents, sentSince>>
          BY <1>3, <2>3 DEF ReportStep
    <3>2. reported' = reported
          BY <2>1, <2>3 DEF Notify, NotifySkip, NotifyPass, NotifySet, NotifySend
    <3> QED
        BY <2>1, <3>1, <3>2, ToldStays
  <2> QED
      BY <2>2, <2>3
<1>4. ASSUME NEW t \in Threads, NEW status, Report(t, status) PROVE ToldInv'
      BY <1>4, ToldStays DEF Report, PolarFrame, binderVars
<1>5. CASE OtherIntent
  <2>1. UNCHANGED <<reported, callback, told, answer, sentSince>>
        BY <1>5 DEF OtherIntent, PolarFrame, reporterVars, binderVars
  <2>2. PICK type \in {"error", "speed"} : Send([type |-> type, status |-> "nothing"])
        BY <1>5 DEF OtherIntent
  <2>3. /\ [type |-> type, status |-> "nothing"] \in Intents
        /\ ~HasStatus([type |-> type, status |-> "nothing"])
        BY DEF Intents, HasStatus
  <2> QED
      BY <2>1, <2>2, <2>3, ToldAppended DEF Send
<1>6. CASE Handle
      BY <1>6, ToldHandled
<1>7. CASE Death \/ Unbind
      BY <1>7, ToldKept DEF Death, Unbind, reporterVars
<1>8. CASE UNCHANGED vars
      BY <1>8, ToldStays DEF vars, remoteVars, reporterVars, binderVars
<1> QED
    BY <1>1, <1>2, <1>3, <1>4, <1>5, <1>6, <1>7, <1>8 DEF Next

(* The status sent last and the recorded one, while one thread reports.    *)
LEMMA NextSent ==
  ASSUME \A s, t \in Threads : s = t
  PROVE  RemoteTypeOK /\ SentInv /\ [Next]_vars => SentInv'
<1> SUFFICES ASSUME RemoteTypeOK, SentInv, [Next]_vars PROVE SentInv'
    OBVIOUS
<1>1. ASSUME UNCHANGED reporterVars PROVE SentInv'
      BY <1>1 DEF SentInv, reporterVars
<1>2. ASSUME NEW t \in Threads, ReportStep(t) PROVE SentInv'
  <2>1. Notify(t) /\ \A s \in Threads : s = t
        BY <1>2 DEF ReportStep
  <2>2. CASE NotifySkip(t)
        BY <2>1, <2>2 DEF NotifySkip, SentInv, RemoteTypeOK, ReporterTypeOK
  <2>3. CASE NotifyPass(t)
        BY <2>1, <2>3 DEF NotifyPass, SentInv, RemoteTypeOK, ReporterTypeOK
  <2>4. CASE NotifySet(t)
        BY <2>1, <2>4 DEF NotifySet, SentInv, RemoteTypeOK, ReporterTypeOK
  <2>5. CASE NotifySend(t)
        BY <2>1, <2>5 DEF NotifySend, SentInv, RemoteTypeOK, ReporterTypeOK
  <2> QED
      BY <2>1, <2>2, <2>3, <2>4, <2>5 DEF Notify
<1>3. ASSUME NEW t \in Threads, NEW status, Report(t, status) PROVE SentInv'
  <2>1. /\ pending[t] = <<>>
        /\ pending' = [pending EXCEPT ![t] = <<status>>]
        /\ UNCHANGED <<sCurrentConnectionStatus, reported, notify>>
        BY <1>3 DEF Report, Reporting
  <2> QED
      BY <2>1 DEF SentInv, RemoteTypeOK, ReporterTypeOK, Reporting
<1>4. CASE \/ \E operation \in Operations : MakeCall(operation)
           \/ BinderStep \/ OtherIntent \/ Handle \/ Death \/ Unbind \/ UNCHANGED vars
      BY <1>1, <1>4 DEF MakeCall, BinderStep, TakeStart, Prepare, Install, Forward,
                        TakeOther, BinderFrame, OtherIntent, Handle, Death, Unbind, vars
<1> QED
    BY <1>2, <1>3, <1>4 DEF Next

(* However many threads report, and whatever intents without a status come *)
(* between: once the queue is empty the callback in the field was told     *)
(* last the last status that was sent, or that its own call was refused    *)
(* (VpnRemoteService 82-90, 118, 217).                                     *)
THEOREM LastSentIsTold ==
  Spec => [](intents = <<>> /\ callback # 0 /\ sentSince =>
               told[callback] = reported \/ Refused)
<1>1. ToldInv => (intents = <<>> /\ callback # 0 /\ sentSince =>
                    told[callback] = reported \/ Refused)
      BY DEF ToldInv, Settled
<1> QED
    BY InitTold, NextTypes, NextNumbered, NextTold, <1>1, PTL DEF Spec

(* With one thread that reports, the client believes what is recorded, or  *)
(* was told last that it has to ask the user first (118).  The             *)
(* hypothesis is needed, as two threads may assign the field in one order  *)
(* and send in the other (PolarVpnService 292-297, 378-383).               *)
THEOREM ClientIsTold ==
  ASSUME \A s, t \in Threads : s = t
  PROVE  Spec => []ClientFollows
<1>1. RemoteTypeOK /\ ToldInv /\ SentInv => ClientFollows
      BY DEF RemoteTypeOK, ReporterTypeOK, ToldInv, SentInv, ClientFollows, Quiescent,
             Reporting, Settled
<1> QED
    BY InitTold, NextTypes, NextNumbered, NextTold, NextSent, <1>1, PTL DEF Spec

-----------------------------------------------------------------------------
(* RemoteInstall, seen through each of the modules it is made of. *)

(* Step by step, VpnRemoteService does what its own module says. *)
LEMMA StepOfRemote == [InstallNext]_installVars => [Next]_vars
<1> SUFFICES ASSUME [InstallNext]_installVars PROVE [Next]_vars
    OBVIOUS
<1>1. CASE InstallStep
      BY <1>1 DEF InstallStep, InstallBegins, InstallGoesOn, InstallReturns, Next, BinderStep
<1>2. CASE ServeStep
      BY <1>2 DEF ServeStep, Next
<1>3. CASE ConfigStep \/ FileGoes
      BY <1>3 DEF ConfigStep, FileGoes
<1>4. CASE RemoteDeath
      BY <1>4 DEF RemoteDeath, Next
<1>5. CASE OtherStep
      BY <1>5 DEF OtherStep, Next
<1>6. CASE UNCHANGED installVars
      BY <1>6 DEF installVars
<1> QED
    BY <1>1, <1>2, <1>3, <1>4, <1>5, <1>6 DEF InstallNext

(* And the files change as CacheInstall says. *)
LEMMA StepOfCache == [InstallNext]_installVars => [CacheNext]_cacheVars
<1> SUFFICES ASSUME [InstallNext]_installVars PROVE [CacheNext]_cacheVars
    OBVIOUS
<1>1. "remote" \in Callers /\ "config" \in Callers
      BY DEF Callers
<1>2. CASE InstallStep
      BY <1>1, <1>2 DEF InstallStep, InstallBegins, InstallGoesOn, InstallReturns, CacheNext
<1>3. CASE ServeStep \/ OtherStep
      BY <1>3 DEF ServeStep, OtherStep
<1>4. CASE ConfigStep
      BY <1>1, <1>4 DEF ConfigStep, CacheNext
<1>5. CASE RemoteDeath
      BY <1>1, <1>5 DEF RemoteDeath, CacheNext
<1>6. CASE FileGoes
      BY <1>6 DEF FileGoes, CacheNext
<1>7. CASE UNCHANGED installVars
      BY <1>7 DEF installVars
<1> QED
    BY <1>2, <1>3, <1>4, <1>5, <1>6, <1>7 DEF InstallNext

(* RemoteInstall implements VpnRemoteService, in which a startVpn installs *)
(* or fails to in one step (VpnRemoteService 105-180).                     *)
THEOREM ImplementsRemote == InstallSpec => Spec
<1>1. InstallInit => Init
      BY DEF InstallInit
<1> QED
    BY <1>1, StepOfRemote, PTL DEF InstallSpec, Spec

(* RemoteInstall implements CacheInstall, in which anything may happen     *)
(* between the steps of a copy.                                            *)
THEOREM ImplementsCache == InstallSpec => CacheSpec
<1>1. InstallInit => CacheInit
      BY DEF InstallInit
<1> QED
    BY <1>1, StepOfCache, PTL DEF InstallSpec, CacheSpec

(* What holds of the parts holds of the two together, whatever copies and  *)
(* deletions come between the steps of a call: with one thread that        *)
(* reports, the client believes what is recorded or was refused, an intent *)
(* finds no callback only after an absence, and the executable is whole.   *)
THEOREM PartsStaySafe ==
  ASSUME \A s, t \in Threads : s = t
  PROVE  InstallSpec => [](ClientFollows /\ DroppedWhenGone /\ ExecutableIsWhole)
<1>1. Spec => []ClientFollows
      BY ClientIsTold
<1> QED
    BY <1>1, ImplementsRemote, OnlyAbsenceDrops, ImplementsCache, ExecutableWhole, PTL

-----------------------------------------------------------------------------
(* How often a client is told of a copy error. *)

(* The calls whose callback was told of an error. *)
Errors == {n \in Calls : answer[n] = "error"}

(* The assets that are missing, and not about to be copied by startVpn. *)
Lost == Missing \ todo["remote"]

(* The executable was there and is gone, or is copied a second time. *)
Refetched ==
  \/ at["remote"] \in {"recopy", "repermit"}
  \/ at["remote"] = "again" /\ ~Present

One(fact) == IF fact THEN 1 ELSE 0

(* The errors told, the one that a copying loop is about to tell, the one  *)
(* that a later call will come to if an asset is missing, and the one that *)
(* a second copy of the executable may come to: all of them are paid for   *)
(* by the fresh installation and by deletions.                             *)
Budget ==
  ~unopened =>
    Cardinality(Errors) + One(at["remote"] = "move") + One(Lost # {}) + One(Refetched)
      <= 1 + evictions

ErrorInv ==
  /\ answer \in [Calls -> Outcomes]
  /\ callback \in Calls \cup {0}
  /\ at["remote"] # "move" => todo["remote"] = {}
  /\ Budget

LEMMA ErrorsFinite == IsFiniteSet(Errors) /\ Cardinality(Errors) \in Nat
<1>1. MaxCalls \in Nat
      BY RemoteBounds
<1>2. IsFiniteSet(Calls)
      BY <1>1, FS_Interval DEF Calls
<1>3. Errors \subseteq Calls
      BY DEF Errors
<1> QED
    BY <1>2, <1>3, FS_Subset, FS_CardinalityType

LEMMA InitErrors == InstallInit => ErrorInv
<1> SUFFICES ASSUME InstallInit PROVE ErrorInv
    OBVIOUS
<1>1. Errors = {}
      BY DEF InstallInit, Init, Errors
<1>2. Cardinality(Errors) = 0
      BY <1>1, FS_EmptySet
<1>3. at["remote"] = "idle" /\ todo["remote"] = {} /\ evictions = 0
      BY DEF InstallInit, CacheInit, Callers
<1>4. Budget
      BY <1>2, <1>3 DEF Budget, One, Refetched
<1> QED
    BY <1>3, <1>4 DEF ErrorInv, InstallInit, Init, Outcomes

(* No new error, no new loop, no asset lost: nothing to pay for. *)
LEMMA BudgetKept ==
  ASSUME CacheTypeOK, Budget, evictions' = evictions, unopened' = unopened,
         Errors' \subseteq Errors, Lost' \subseteq Lost,
         at'["remote"] = "move" => at["remote"] = "move",
         Refetched' => Refetched
  PROVE  Budget'
<1>1. Cardinality(Errors') <= Cardinality(Errors)
      BY ErrorsFinite, FS_Subset
<1>2. Cardinality(Errors)' = Cardinality(Errors') /\ Cardinality(Errors') \in Nat
      BY ErrorsFinite, FS_Subset, FS_CardinalityType
<1>3. evictions \in Nat
      BY CacheBounds DEF CacheTypeOK
<1> QED
    BY <1>1, <1>2, <1>3, ErrorsFinite DEF Budget, One

(* The steps of either loop that are not the last one, nor the first. *)
LEMMA AssetLosesNone ==
  ASSUME CacheTypeOK, NEW c \in Callers, OpenAsset(c) \/ SkipAsset(c) \/ CopyAsset(c)
  PROVE  /\ UNCHANGED <<at, evictions>> /\ \A d \in Callers : todo'[d] \subseteq todo[d]
         /\ ~unopened' => UNCHANGED unopened /\ Missing' \ todo'["remote"] \subseteq Lost
<1> USE DEF CacheTypeOK
<1>1. CASE OpenAsset(c)
  <2>1. PICK f \in todo[c] : Open(c, f) /\ todo' = [todo EXCEPT ![c] = @ \ {f}]
        BY <1>1 DEF OpenAsset
  <2>2. file' = [file EXCEPT ![f] = "partial"] /\ f \in Assets /\ f \in Files
        BY <2>1 DEF Open, Files
  <2>3. Missing' \subseteq Missing \ {f}
        BY <2>2 DEF Missing
  <2>4. todo["remote"] \ {f} \subseteq todo'["remote"]
        BY <2>1 DEF Callers
  <2> QED
      BY <1>1, <2>1, <2>3, <2>4 DEF OpenAsset, Open, cacheCounts, Lost
<1>2. CASE SkipAsset(c)
      BY <1>2 DEF SkipAsset, cacheCounts
<1>3. CASE CopyAsset(c)
  <2>1. PICK ok \in BOOLEAN : Close(c, ok)
        BY <1>3 DEF CopyAsset
  <2>2. Missing' \subseteq Missing
        BY <2>1 DEF Close, Missing
  <2> QED
      BY <1>3, <2>1, <2>2 DEF CopyAsset, Close, cacheCounts, Lost
<1> QED
    BY <1>1, <1>2, <1>3

(* What the first half of checkOrMoveBinaries does is none of the assets'. *)
LEMMA BinaryLosesNone ==
  ASSUME CacheTypeOK, CheckBinaries \/ BinaryStep
  PROVE  /\ UNCHANGED <<todo, unopened, evictions>>
         /\ at["remote"] # "move" /\ at'["remote"] # "move"
         /\ Missing' \subseteq Missing
         /\ at'["remote"] # "idle" => (Refetched' => Refetched)
         /\ at'["remote"] = "idle" => Refetched /\ ~Refetched' /\ result' = "error"
<1> USE DEF CacheTypeOK, Goes, Callers, cacheCounts, Refetched
<1>1. CASE CheckBinaries
      BY <1>1 DEF CheckBinaries, Missing
<1>2. CASE SkipBinary \/ Permit
      BY <1>2 DEF SkipBinary, Permit, Missing, Present
<1>3. CASE OpenBinary
      BY <1>3 DEF OpenBinary, Open, Missing
<1>4. CASE CopyBinary
      BY <1>4 DEF CopyBinary, Close, Missing
<1>5. CASE BinaryFails
      BY <1>5 DEF BinaryFails, Fails, Answers, Close, Missing
<1>6. CASE BinaryUnopened \/ PermitFails
      BY <1>6 DEF BinaryUnopened, PermitFails, Fails, Answers, Missing
<1> QED
    BY <1>1, <1>2, <1>3, <1>4, <1>5, <1>6 DEF BinaryStep

(* The copying of startVpn, up to the last step. *)
LEMMA InstallErrors ==
  ASSUME CacheTypeOK, ErrorInv, InstallBegins \/ InstallGoesOn
  PROVE  ErrorInv'
<1> USE DEF ErrorInv
<1>1. UNCHANGED <<answer, callback>> /\ Errors' = Errors
      BY DEF InstallBegins, InstallGoesOn, vars, remoteVars, binderVars, Errors
<1>2. CASE CheckBinaries \/ BinaryStep
  <2>1. /\ UNCHANGED <<todo, unopened, evictions>>
        /\ at["remote"] # "move" /\ at'["remote"] # "move"
        /\ Lost' \subseteq Lost
        BY <1>2, BinaryLosesNone DEF Lost
  <2>2. at'["remote"] # "idle"
        BY DEF InstallBegins, InstallGoesOn, CheckBinaries, Goes, CacheTypeOK, Callers
  <2>3. Refetched' => Refetched
        BY <1>2, <2>2, BinaryLosesNone
  <2> QED
      BY <1>1, <2>1, <2>3, BudgetKept
<1>3. CASE SomeMissing("remote")
  <2>1. /\ at["remote"] # "move" /\ at'["remote"] = "move"
        /\ todo["remote"] = {} /\ todo'["remote"] = Missing
        /\ UNCHANGED <<file, unopened, evictions>> /\ Missing # {}
        BY <1>3 DEF SomeMissing, Goes, CacheTypeOK, Callers, cacheCounts
  <2>2. Lost # {} /\ Lost' = {}
        BY <2>1 DEF Lost, Missing
  <2>3. ~Refetched'
        BY <2>1 DEF Refetched
  <2>4. Budget'
        BY <1>1, <2>1, <2>2, <2>3, ErrorsFinite, CacheBounds DEF Budget, One, CacheTypeOK
  <2> QED
      BY <1>1, <2>1, <2>4
<1>4. CASE OpenAsset("remote") \/ SkipAsset("remote") \/ CopyAsset("remote")
  <2>1. /\ UNCHANGED <<at, evictions>> /\ todo'["remote"] \subseteq todo["remote"]
        /\ ~unopened' => UNCHANGED unopened /\ Lost' \subseteq Lost
        BY <1>4, AssetLosesNone DEF Callers, Lost
  <2>2. CASE unopened'
        BY <1>1, <2>1, <2>2 DEF Budget
  <2>4. ~Refetched'
        BY <1>4, <2>1 DEF OpenAsset, SkipAsset, CopyAsset, Refetched
  <2>3. CASE ~unopened'
        BY <1>1, <2>1, <2>3, <2>4, BudgetKept
  <2> QED
      BY <1>1, <2>1, <2>2, <2>3
<1>5. (~NothingMissing("remote") /\ ~MoveReturns("remote")) \/ at'["remote"] = "idle"
      BY DEF NothingMissing, MoveReturns, Goes, CacheTypeOK, Callers
<1> QED
    BY <1>2, <1>3, <1>4, <1>5 DEF InstallBegins, InstallGoesOn, AssetStep

(* The last step: the error of a loop is told, and no other. *)
LEMMA ReturnErrors ==
  ASSUME CacheTypeOK, ErrorInv, InstallReturns
  PROVE  ErrorInv'
<1> USE DEF ErrorInv
<1>1. PICK n \in Calls : Install(n)
      BY DEF InstallReturns
<1>2. BinaryStep \/ NothingMissing("remote") \/ MoveReturns("remote")
  <2>1. ~SomeMissing("remote")
        BY DEF InstallReturns, SomeMissing, Goes, CacheTypeOK, Callers
  <2>2. ~OpenAsset("remote") /\ ~SkipAsset("remote") /\ ~CopyAsset("remote")
        BY DEF InstallReturns, OpenAsset, SkipAsset, CopyAsset
  <2> QED
      BY <2>1, <2>2 DEF InstallReturns, AssetStep
<1>3. /\ callback' = callback
      /\ answer' = answer \/ answer' = [answer EXCEPT ![callback] = "error"]
      /\ \/ answer' = [answer EXCEPT ![callback] = "error"] /\ serving'.at = "none"
         \/ answer' = answer
      BY <1>1 DEF Install, Ends, NoCall
<1>4. answer' \in [Calls -> Outcomes]
      BY <1>3 DEF Outcomes
<1>5. CASE NothingMissing("remote")
  <2>1. result' = "ok"
        BY <1>5 DEF NothingMissing, Answers
  <2>2. answer' = answer
        BY <1>3, <2>1 DEF InstallReturns
  <2>3. Errors' \subseteq Errors
        BY <2>2 DEF Errors
  <2>4. /\ UNCHANGED <<todo, unopened, evictions>> /\ Lost' \subseteq Lost
        /\ at["remote"] # "move" /\ at'["remote"] # "move"
        BY <1>5 DEF NothingMissing, Goes, CacheTypeOK, Callers, cacheCounts, Lost, Missing
  <2>5. ~Refetched'
        BY DEF InstallReturns, Refetched
  <2> QED
      BY <1>3, <1>4, <2>3, <2>4, <2>5, BudgetKept
<1>6. CASE BinaryStep \/ MoveReturns("remote")
  <2>1. /\ UNCHANGED <<unopened, evictions>>
        /\ at["remote"] = "move" \/ Refetched
        /\ at'["remote"] # "move" /\ ~Refetched' /\ Lost' \subseteq Lost
        /\ at'["remote"] # "move" => todo'["remote"] = {}
    <3>1. CASE BinaryStep
          BY <3>1, BinaryLosesNone DEF InstallReturns, Lost
    <3>2. CASE MoveReturns("remote")
          BY <3>2 DEF MoveReturns, Goes, CacheTypeOK, Callers, cacheCounts, Lost, Missing,
                      Refetched
    <3> QED
        BY <1>6, <3>1, <3>2
  <2>2. Errors' \subseteq Errors \cup {callback}
        BY <1>3 DEF Errors
  <2>3. /\ IsFiniteSet(Errors \cup {callback})
        /\ Cardinality(Errors \cup {callback}) <= Cardinality(Errors) + 1
        /\ Cardinality(Errors \cup {callback}) \in Nat
    <3>1. /\ IsFiniteSet(Errors \cup {callback})
          /\ Cardinality(Errors \cup {callback}) =
               IF callback \in Errors THEN Cardinality(Errors) ELSE Cardinality(Errors) + 1
          BY ErrorsFinite, FS_AddElement
    <3> QED
        BY <3>1, ErrorsFinite
  <2>4. Cardinality(Errors') <= Cardinality(Errors) + 1 /\ Cardinality(Errors') \in Nat
    <3> DEFINE S == Errors \cup {callback}
               T == Errors'
    <3>1. T \in SUBSET S /\ IsFiniteSet(S)
          BY <2>2, <2>3
    <3> HIDE DEF S, T
    <3>2. IsFiniteSet(T) /\ Cardinality(T) <= Cardinality(S)
          BY <3>1, FS_Subset
    <3>3. Cardinality(T) \in Nat
          BY <3>2, FS_CardinalityType
    <3> QED
        BY <2>3, <3>2, <3>3, ErrorsFinite DEF S, T
  <2>5. evictions \in Nat
        BY CacheBounds DEF CacheTypeOK
  <2>6. Budget'
        BY <2>1, <2>4, <2>5, ErrorsFinite DEF Budget, One
  <2> QED
      BY <1>3, <1>4, <2>1, <2>6
<1> QED
    BY <1>2, <1>5, <1>6

(* The rest of the binder thread's steps, the client, PolarVpnService and  *)
(* the main thread tell nobody of an error.                                *)
LEMMA ServeErrors ==
  ASSUME CacheTypeOK, ErrorInv, ServeStep \/ OtherStep
  PROVE  ErrorInv'
<1> USE DEF ErrorInv
<1>1. /\ answer' = answer
         \/ \E n \in Calls, what \in Outcomes \ {"error"} :
              answer' = [answer EXCEPT ![n] = what]
      /\ callback' \in Calls \cup {0}
  <2>1. CASE OtherStep
    <3>1. answer' = answer /\ callback' \in {callback, 0}
          BY <2>1 DEF OtherStep, MakeCall, ReportStep, Report, OtherIntent, Handle, Unbind,
                      PolarFrame, binderVars
    <3> QED
        BY <3>1
  <2>2. CASE ServeStep
    <3>1. PICK n \in Calls :
            \/ TakeStart(n) \/ Prepare(n) \/ Install(n) \/ Forward(n)
            \/ \E operation \in Operations : TakeOther(operation, n)
          BY <2>2 DEF ServeStep, BinderStep
    <3>2. ~Install(n)
          BY <2>2 DEF ServeStep, Install
    <3>3. CASE TakeStart(n)
          BY <3>3 DEF TakeStart
    <3>4. CASE Prepare(n)
      <4>1. "NEEDS_VPN_PERMISSION" \in Outcomes \ {"error"}
            BY DEF Outcomes
      <4> QED
          BY <3>4, <4>1 DEF Prepare, Ends
    <3>5. CASE Forward(n)
      <4>1. "forwarded" \in Outcomes \ {"error"} /\ "unanswered" \in Outcomes \ {"error"}
            BY DEF Outcomes
      <4> QED
          BY <3>5, <4>1 DEF Forward, Ends
    <3>6. CASE \E operation \in Operations : TakeOther(operation, n)
          BY <3>6 DEF TakeOther
    <3> QED
        BY <3>1, <3>2, <3>3, <3>4, <3>5, <3>6
  <2> QED
      BY <2>1, <2>2
<1>2. answer' \in [Calls -> Outcomes] /\ Errors' \subseteq Errors
      BY <1>1 DEF Errors
<1>3. UNCHANGED <<file, executable, at, todo, unopened, evictions>>
      BY DEF ServeStep, OtherStep, cacheVars, cacheCounts
<1>4. Lost' \subseteq Lost /\ Refetched' = Refetched
      BY <1>3 DEF Lost, Missing, Refetched, Present
<1> QED
    BY <1>1, <1>2, <1>3, <1>4, BudgetKept

(* The copying of VpnConfig loses no asset, and has no error to tell. *)
LEMMA ConfigErrors ==
  ASSUME CacheTypeOK, ErrorInv, ConfigStep
  PROVE  ErrorInv'
<1> USE DEF ErrorInv
<1>1. UNCHANGED <<answer, callback>> /\ Errors' = Errors
      BY DEF ConfigStep, vars, remoteVars, binderVars, Errors
<1>2. /\ at'["remote"] = at["remote"] /\ todo'["remote"] = todo["remote"]
      /\ evictions' = evictions
      /\ ~unopened' => unopened' = unopened /\ Missing' \subseteq Missing
      /\ Refetched' => Refetched
  <2> USE DEF CacheTypeOK, Callers, cacheCounts, Refetched, Present
  <2>1. CASE ConfigMoves
        BY <2>1 DEF ConfigMoves, Goes, Missing
  <2>2. CASE Interrupt("config")
        BY <2>2 DEF Interrupt, Missing
  <2>3. CASE NothingMissing("config") \/ SomeMissing("config") \/ MoveReturns("config")
        BY <2>3 DEF NothingMissing, SomeMissing, MoveReturns, Goes, Missing
  <2>4. CASE OpenAsset("config")
        BY <2>4 DEF OpenAsset, Open, Missing
  <2>5. CASE SkipAsset("config")
        BY <2>5 DEF SkipAsset
  <2>6. CASE CopyAsset("config")
        BY <2>6 DEF CopyAsset, Close, Missing
  <2> QED
      BY <2>1, <2>2, <2>3, <2>4, <2>5, <2>6 DEF ConfigStep, AssetStep
<1>3. CASE unopened'
      BY <1>1, <1>2, <1>3 DEF Budget
<1>4. CASE ~unopened'
      BY <1>1, <1>2, <1>4, BudgetKept DEF Lost
<1> QED
    BY <1>1, <1>2, <1>3, <1>4

(* A death takes the error of a loop with it, and leaves the assets lost   *)
(* that the loop had before it.                                            *)
LEMMA DeathErrors ==
  ASSUME CacheTypeOK, ErrorInv, RemoteDeath
  PROVE  ErrorInv'
<1> USE DEF ErrorInv
<1>1. /\ callback' = 0
      /\ answer' = [n \in Calls |->
                      IF n <= made /\ answer[n] = "none" THEN "dead" ELSE answer[n]]
      BY DEF RemoteDeath, Death
<1>2. answer' \in [Calls -> Outcomes] /\ Errors' \subseteq Errors
      BY <1>1 DEF Outcomes, Errors
<1>3. /\ at'["remote"] = "idle" /\ todo'["remote"] = {}
      /\ UNCHANGED <<file, unopened, evictions>>
      BY DEF RemoteDeath, Interrupt, CacheTypeOK, Callers
<1>4. CASE at["remote"] = "move"
  <2>1. Cardinality(Errors') <= Cardinality(Errors) /\ Cardinality(Errors') \in Nat
        BY <1>2, ErrorsFinite, FS_Subset, FS_CardinalityType
  <2>2. Budget'
        BY <1>3, <1>4, <2>1, ErrorsFinite, CacheBounds DEF Budget, One, CacheTypeOK, Refetched
  <2> QED
      BY <1>1, <1>2, <1>3, <2>2
<1>5. CASE at["remote"] # "move"
  <2>1. Lost' = Lost /\ ~Refetched'
        BY <1>3, <1>5 DEF Lost, Missing, Refetched
  <2> QED
      BY <1>1, <1>2, <1>3, <1>5, <2>1, BudgetKept
<1> QED
    BY <1>4, <1>5

(* What a deletion loses, it pays for. *)
LEMMA EvictErrors ==
  ASSUME CacheTypeOK, ErrorInv, FileGoes
  PROVE  ErrorInv'
<1> USE DEF ErrorInv
<1>1. UNCHANGED <<answer, callback, at, todo, unopened>> /\ evictions' = evictions + 1
      BY DEF FileGoes, Evict, vars, remoteVars, binderVars
<1>2. Errors' = Errors
      BY <1>1 DEF Errors
<1>3. (Lost' = {} \/ Lost # {}) \/ (~Refetched' \/ Refetched)
  <2>1. PICK f \in Files : Evict(f)
        BY DEF FileGoes
  <2>2. CASE f = Binary
    <3>1. file' = [file EXCEPT ![Binary] = "none"]
          BY <2>1, <2>2 DEF Evict
    <3>2. Missing' = Missing
          BY <3>1, FilesAssumption DEF Missing
    <3> QED
        BY <1>1, <3>2 DEF Lost
  <2>3. CASE f # Binary
    <3>1. executable' = executable /\ file'[Binary] = file[Binary]
          BY <2>1, <2>3 DEF Evict, CacheTypeOK, Files
    <3> QED
        BY <1>1, <3>1 DEF Refetched, Present
  <2> QED
      BY <2>2, <2>3
<1>4. Budget'
      BY <1>1, <1>2, <1>3, ErrorsFinite, CacheBounds DEF Budget, One, CacheTypeOK
<1> QED
    BY <1>1, <1>4

LEMMA NextErrors == CacheInv /\ ErrorInv /\ [InstallNext]_installVars => ErrorInv'
<1> SUFFICES ASSUME CacheTypeOK, ErrorInv, [InstallNext]_installVars PROVE ErrorInv'
    BY DEF CacheInv
<1>1. CASE InstallStep
      BY <1>1, InstallErrors, ReturnErrors DEF InstallStep
<1>2. CASE ServeStep \/ OtherStep
      BY <1>2, ServeErrors
<1>3. CASE ConfigStep
      BY <1>3, ConfigErrors
<1>4. CASE RemoteDeath
      BY <1>4, DeathErrors
<1>5. CASE FileGoes
      BY <1>5, EvictErrors
<1>6. CASE UNCHANGED installVars
  <2>1. UNCHANGED <<answer, callback, file, executable, at, todo, unopened, evictions>>
        BY <1>6 DEF installVars, vars, remoteVars, binderVars, cacheVars, cacheCounts
  <2>2. Errors' = Errors /\ Lost' = Lost /\ Refetched' = Refetched
        BY <2>1 DEF Errors, Lost, Missing, Refetched, Present
  <2> QED
      BY <2>1, <2>2 DEF ErrorInv, Budget
<1> QED
    BY <1>1, <1>2, <1>3, <1>4, <1>5, <1>6 DEF InstallNext

(* For any number of calls, deaths and deletions: a client hears of a copy *)
(* error once for the fresh installation, and once for each deletion       *)
(* (IOHelper 36-60, VpnConfig 160-168).                                    *)
THEOREM ErrorOnce == InstallSpec => []OneError
<1>1. CacheInv /\ ErrorInv => OneError
  <2> SUFFICES ASSUME CacheInv, ErrorInv, ~unopened
               PROVE  Cardinality(Errors) <= 1 + evictions
      BY DEF OneError, Errors
  <2> QED
      BY ErrorsFinite, CacheBounds DEF ErrorInv, Budget, One, CacheInv, CacheTypeOK
<1>2. InstallInit => CacheInv
      BY InitCache DEF InstallInit
<1>3. CacheInv /\ [InstallNext]_installVars => CacheInv'
      BY StepOfCache, NextCache
<1> QED
    BY InitErrors, NextErrors, <1>1, <1>2, <1>3, PTL DEF InstallSpec
=============================================================================
