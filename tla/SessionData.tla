---------------------------- MODULE SessionData ----------------------------
(***************************************************************************)
(* The native data of a session.  connect_new() fills structs of the core  *)
(* through their Java proxies and hands them over, the core lends a struct *)
(* to each event() and log(), and the StatusPoller fetches a struct every  *)
(* five seconds.  A proxy is the address of the struct and the duty to     *)
(* delete it; the garbage collector takes the proxy as soon as no variable *)
(* that is still used holds it, which may be while the native function it  *)
(* was passed to is running, unless that function was given the proxy too. *)
(*                                                                         *)
(* The core is external: here it evaluates the configuration, keeps the    *)
(* credentials, counts bytes and calls event() and log().                  *)
(***************************************************************************)
EXTENDS NativeStructs, Integers, Sequences

CONSTANTS
  Addresses,    \* where structs may be; the next `new` waits for a free one
  NoAddress,
  Contents,     \* the contents of the profile: "profile", or Null
  Tokens,       \* the VPN token: "token", or Null
  MaxBytes      \* bound: bytes counted per direction

ASSUME SessionDataAssumption ==
  /\ NoAddress \notin Addresses
  /\ MaxBytes \in Nat

VARIABLES
  vpnConfig,    \* the content and the token of VpnConfig
  heap,         \* the struct at each address
  owned,        \* addresses some proxy has to delete (swigCMemOwn)
  var,          \* local variables: the address in the proxy they hold
  pc,           \* of each activity
  arg,          \* of each activity: the address its native function was given
  got,          \* what the getters returned
  core,         \* what the core was told
  bytes,        \* the counters of the core
  poll          \* the fields of the StatusPoller, and what it reported

vars == <<vpnConfig, heap, owned, var, pc, arg, got, core, bytes, poll>>

-----------------------------------------------------------------------------
(* The native functions each activity calls, in order.                     *)

New(struct, result) ==
  [op |-> "new", args |-> {}, field |-> struct, value |-> "none", result |-> result]

Set(variable, field, value) ==
  [op |-> "set", args |-> {variable}, field |-> field, value |-> value, result |-> "none"]

Get(variable, field) ==
  [op |-> "get", args |-> {variable}, field |-> field, value |-> "none", result |-> "none"]

Core(function, args, result) ==
  [op |-> function, args |-> args, field |-> "none", value |-> "none", result |-> result]

ConnectNew == <<
  New("Config", "config"), Set("config", "content", vpnConfig.content),
  Core("eval_config", {"config"}, "ec"),
  Get("ec", "externalPki"), Get("ec", "error"), Get("ec", "message"),
  New("ProvideCreds", "creds"), Set("creds", "cachePassword", TRUE),
  Set("creds", "password", vpnConfig.token), Set("creds", "username", vpnConfig.token),
  Core("provide_creds", {"creds"}, "provided"),
  Core("connect", {}, "status"),
  Get("status", "status"), Get("status", "message"), Get("status", "error")>>

Poll == <<
  Core("transport_stats", {}, "t"), Get("t", "bytesIn"), Get("t", "bytesOut")>>

HandleEvent == <<Get("event", "name"), Get("event", "info")>>

HandleLog == <<Get("logInfo", "text")>>

Program(a) ==
  CASE a = "runner" -> ConnectNew
    [] a = "poller" -> Poll
    [] a = "event"  -> HandleEvent
    [] a = "log"    -> HandleLog

Activities == {"runner", "poller", "event", "log"}

Upcalls == {"event", "log"}

VarType ==
  [config |-> "Config", ec |-> "EvalConfig", creds |-> "ProvideCreds",
   provided |-> "Status", status |-> "Status", t |-> "TransportStats",
   event |-> "Event", logInfo |-> "LogInfo"]

Lent == [event |-> "event", log |-> "logInfo"]

Idle == 0

Done(a) == Len(Program(a)) + 1

Call(a) == Program(a)[pc[a]]

MayCall(a) == pc[a] \in DOMAIN Program(a)

NotCalling == [in |-> FALSE, address |-> NoAddress]

Connecting == arg["runner"].in /\ Call("runner").op = "connect"

-----------------------------------------------------------------------------
(* Memory.                                                                 *)

FreeCell == [type |-> "free", lent |-> FALSE, val |-> Null]

Struct(type, val) == [type |-> type, lent |-> FALSE, val |-> val]

IsFree(x) == heap[x].type = "free"

(* An activity still uses a variable if it passes it to a function before  *)
(* it assigns it again.                                                    *)
Uses(a, v) ==
  \E i \in pc[a] .. Len(Program(a)) :
    /\ i > 0 /\ v \in Program(a)[i].args
    /\ (arg[a].in => i > pc[a])
    /\ \A j \in pc[a] .. i - 1 : j > 0 => Program(a)[j].result # v

(* A mutant: the native functions have the address only. *)
HeldOnlyByVariables(x) ==
  \E a \in Activities : \E v \in DOMAIN VarType : Uses(a, v) /\ var[v] = x

(* What keeps a proxy: a variable, or a native function that has it as     *)
(* jargN_ beside its address.                                              *)
Held(x) ==
  \E a \in Activities :
    \/ \E v \in DOMAIN VarType : Uses(a, v) /\ var[v] = x
    \/ arg[a].in /\ arg[a].address = x

(* The collector finds the proxy, and finalize() calls delete().           *)
Finalize(x) ==
  /\ x \in owned /\ ~Held(x)
  /\ heap' = [heap EXCEPT ![x] = FreeCell]
  /\ owned' = owned \ {x}
  /\ UNCHANGED <<vpnConfig, var, pc, arg, got, core, bytes, poll>>

(* A native function makes a struct, and Java its proxy that owns it.      *)
Allocate(v, val) ==
  \E x \in Addresses :
    /\ IsFree(x)
    /\ heap' = [heap EXCEPT ![x] = Struct(VarType[v], val)]
    /\ owned' = owned \cup {x}
    /\ var' = [var EXCEPT ![v] = x]

-----------------------------------------------------------------------------
(* Native functions.                                                       *)

(* getCPtr of the arguments, and the call.  connect_new starts the poller  *)
(* before it calls connect().                                              *)
Enter(a) ==
  /\ MayCall(a) /\ ~arg[a].in
  /\ arg' = [arg EXCEPT ![a] =
               [in |-> TRUE,
                address |-> IF Call(a).args = {} THEN NoAddress
                            ELSE var[CHOOSE v \in Call(a).args : TRUE]]]
  /\ poll' = IF Call(a).op = "connect" THEN [poll EXCEPT !.started = TRUE] ELSE poll
  /\ UNCHANGED <<vpnConfig, heap, owned, var, pc, got, core, bytes>>

GoOn(a) ==
  /\ pc' = [pc EXCEPT ![a] = @ + 1]
  /\ arg' = [arg EXCEPT ![a] = NotCalling]

Returns(a, op) == MayCall(a) /\ arg[a].in /\ Call(a).op = op

NewReturns(a) ==
  /\ Returns(a, "new")
  /\ Allocate(Call(a).result, Fresh(Call(a).field))
  /\ GoOn(a)
  /\ UNCHANGED <<vpnConfig, got, core, bytes, poll>>

(* A null string: the NullPointerException ends connect_new.               *)
SetReturns(a) ==
  /\ Returns(a, "set")
  /\ LET c == Call(a)
         x == arg[a].address
     IN IF Refused(heap[x].type, c.field, c.value)
        THEN /\ pc' = [pc EXCEPT ![a] = Done(a)]
             /\ arg' = [arg EXCEPT ![a] = NotCalling]
             /\ UNCHANGED heap
        ELSE /\ heap' = [heap EXCEPT ![x].val[c.field] = c.value]
             /\ GoOn(a)
  /\ UNCHANGED <<vpnConfig, owned, var, got, core, bytes, poll>>

(* A mutant: the error of the evaluation is logged, and that is all. *)
GoesOnAfterError(a, value) == pc[a] + 1

(* setConfig logs the message of an error and connect_new returns; without *)
(* an error the message is not read.                                       *)
AfterGet(a, value) ==
  CASE a = "runner" /\ Call(a).args = {"ec"} /\ Call(a).field = "message" -> Done(a)
    [] a = "runner" /\ Call(a).args = {"ec"} /\ Call(a).field = "error" ->
         IF value THEN pc[a] + 1 ELSE pc[a] + 2
    [] OTHER -> pc[a] + 1

GetReturns(a) ==
  /\ Returns(a, "get")
  /\ LET c == Call(a)
         value == heap[arg[a].address].val[c.field]
     IN /\ got' = IF c.field \in {"bytesIn", "bytesOut"}
                  THEN [got EXCEPT ![c.field] = value] ELSE got
        /\ pc' = [pc EXCEPT ![a] = AfterGet(a, value)]
  /\ arg' = [arg EXCEPT ![a] = NotCalling]
  /\ poll' = IF a = "runner" /\ pc'[a] = Done(a) /\ Call(a).args = {"status"}
             THEN [poll EXCEPT !.mStopped = TRUE] ELSE poll
  /\ UNCHANGED <<vpnConfig, heap, owned, var, core, bytes>>

(* The core copies the configuration and says whether it has an error.     *)
EvalConfigReturns(a) ==
  /\ Returns(a, "eval_config")
  /\ \E error \in BOOLEAN :
       /\ core' = [core EXCEPT !.config = heap[arg[a].address].val, !.valid = ~error]
       /\ Allocate(Call(a).result, [Fresh("EvalConfig") EXCEPT !.error = error])
  /\ GoOn(a)
  /\ UNCHANGED <<vpnConfig, got, bytes, poll>>

(* The core copies the credentials.  connect_new ignores the Status.       *)
ProvideCredsReturns(a) ==
  /\ Returns(a, "provide_creds")
  /\ core' = [core EXCEPT !.creds = heap[arg[a].address].val]
  /\ Allocate(Call(a).result, Fresh("Status"))
  /\ GoOn(a)
  /\ UNCHANGED <<vpnConfig, got, bytes, poll>>

ConnectReturns(a) ==
  /\ Returns(a, "connect")
  /\ \A u \in Upcalls : pc[u] = Idle
  /\ Allocate(Call(a).result, Fresh("Status"))
  /\ GoOn(a)
  /\ UNCHANGED <<vpnConfig, got, core, bytes, poll>>

(* A mutant: without a session the counters are undefined. *)
UndefinedCounters == IF Connecting THEN {bytes} ELSE {bytes, [in |-> -1, out |-> -1]}

(* Without a session the core reports its counters or zeros.               *)
Counters == IF Connecting THEN {bytes} ELSE {bytes, [in |-> 0, out |-> 0]}

TransportStatsReturns(a) ==
  /\ Returns(a, "transport_stats")
  /\ \E now \in Counters :
       Allocate(Call(a).result,
                [Fresh("TransportStats") EXCEPT !.bytesIn = now.in, !.bytesOut = now.out])
  /\ GoOn(a)
  /\ UNCHANGED <<vpnConfig, got, core, bytes, poll>>

-----------------------------------------------------------------------------
(* The core calls event() and log() with a struct of its own: the proxy    *)
(* does not own it.                                                        *)

(* A mutant: the proxy is made like those of results. *)
OwnedByProxy(x) == owned \cup {x}

OwnedByCore(x) == owned

StartUpcall(a) ==
  /\ Connecting
  /\ \A u \in Upcalls : pc[u] = Idle
  /\ \E x \in Addresses :
       /\ IsFree(x)
       /\ heap' = [heap EXCEPT ![x] =
                     [Struct(VarType[Lent[a]], Fresh(VarType[Lent[a]])) EXCEPT !.lent = TRUE]]
       /\ var' = [var EXCEPT ![Lent[a]] = x]
       /\ owned' = OwnedByCore(x)
  /\ pc' = [pc EXCEPT ![a] = 1]
  /\ UNCHANGED <<vpnConfig, arg, got, core, bytes, poll>>

EndUpcall(a) ==
  /\ pc[a] = Done(a)
  /\ heap' = [heap EXCEPT ![var[Lent[a]]] = FreeCell]
  /\ var' = [var EXCEPT ![Lent[a]] = NoAddress]
  /\ pc' = [pc EXCEPT ![a] = Idle]
  /\ UNCHANGED <<vpnConfig, owned, arg, got, core, bytes, poll>>

Traffic ==
  /\ Connecting
  /\ \/ bytes.in < MaxBytes /\ bytes' = [bytes EXCEPT !.in = @ + 1]
     \/ bytes.out < MaxBytes /\ bytes' = [bytes EXCEPT !.out = @ + 1]
  /\ UNCHANGED <<vpnConfig, heap, owned, var, pc, arg, got, core, poll>>

-----------------------------------------------------------------------------
(* StatusPoller.run: mStopped is not volatile, so FALSE may still be read  *)
(* after stop().                                                           *)
TestStopped ==
  /\ poll.started /\ pc["poller"] = Idle
  /\ \E seen \in {FALSE, poll.mStopped} :
       pc' = [pc EXCEPT !["poller"] = IF seen THEN Done("poller") + 1 ELSE 1]
  /\ UNCHANGED <<vpnConfig, heap, owned, var, arg, got, core, bytes, poll>>

(* A mutant: the bytes of the last round are not kept. *)
Remember(fields) == [fields EXCEPT !.mLastBytesOut = got.bytesOut]

Remembered(fields) ==
  [fields EXCEPT !.mLastBytesIn = got.bytesIn, !.mLastBytesOut = got.bytesOut]

(* onNotifyData and onNotifySpeed.                                         *)
Report ==
  /\ pc["poller"] = Done("poller")
  /\ LET speed == (got.bytesIn - poll.mLastBytesIn) + (got.bytesOut - poll.mLastBytesOut)
     IN poll' = [Remembered(poll) EXCEPT !.data = got.bytesIn + got.bytesOut,
                                         !.speeds = @ + speed]
  /\ pc' = [pc EXCEPT !["poller"] = Idle]
  /\ UNCHANGED <<vpnConfig, heap, owned, var, arg, got, core, bytes>>

-----------------------------------------------------------------------------
Init ==
  /\ vpnConfig \in [content : Contents, token : Tokens]
  /\ heap = [x \in Addresses |-> FreeCell]
  /\ owned = {}
  /\ var = [v \in DOMAIN VarType |-> NoAddress]
  /\ pc = [a \in Activities |-> IF a = "runner" THEN 1 ELSE Idle]
  /\ arg = [a \in Activities |-> NotCalling]
  /\ got = [bytesIn |-> 0, bytesOut |-> 0]
  /\ core = [config |-> Null, valid |-> FALSE, creds |-> Null]
  /\ bytes = [in |-> 0, out |-> 0]
  /\ poll = [started |-> FALSE, mStopped |-> FALSE, mLastBytesIn |-> 0,
             mLastBytesOut |-> 0, data |-> 0, speeds |-> 0]

Step(a) ==
  \/ Enter(a) \/ NewReturns(a) \/ SetReturns(a) \/ GetReturns(a)
  \/ EvalConfigReturns(a) \/ ProvideCredsReturns(a) \/ ConnectReturns(a)
  \/ TransportStatsReturns(a)

Next ==
  \/ \E a \in Activities : Step(a)
  \/ \E a \in Upcalls : StartUpcall(a) \/ EndUpcall(a)
  \/ \E x \in Addresses : Finalize(x)
  \/ Traffic \/ TestStopped \/ Report

Spec == Init /\ [][Next]_vars

-----------------------------------------------------------------------------
SessionDataTypeOK ==
  /\ vpnConfig \in [content : Contents, token : Tokens]
  /\ \A x \in Addresses :
       IsFree(x) \/ (heap[x].type \in DOMAIN Structs
                       /\ DOMAIN heap[x].val = DOMAIN Structs[heap[x].type])
  /\ owned \subseteq Addresses
  /\ var \in [DOMAIN VarType -> Addresses \cup {NoAddress}]
  /\ \A a \in Activities : pc[a] \in 0 .. Done(a) + 1
  /\ arg \in [Activities -> [in : BOOLEAN, address : Addresses \cup {NoAddress}]]
  /\ got \in [{"bytesIn", "bytesOut"} -> 0 .. MaxBytes]
  /\ bytes \in [in : 0 .. MaxBytes, out : 0 .. MaxBytes]

(* A native function that is given an address finds the struct there that  *)
(* the Java variable is declared with, alive until it returns, whatever    *)
(* the collector does meanwhile and although addresses are used again.     *)
AccessOnLive ==
  \A a \in Activities : arg[a].in =>
    \A v \in Call(a).args :
      arg[a].address # NoAddress /\ heap[arg[a].address].type = VarType[v]

(* Every struct that Java made or was given as a result has a proxy that   *)
(* will delete it, in particular each round of the poller, and no proxy    *)
(* will delete a struct the core lent to event() or log(), or one that is  *)
(* gone.                                                                   *)
OneOwner ==
  owned = {x \in Addresses : ~IsFree(x) /\ ~heap[x].lent}

(* The core only runs a session with the profile of this VpnConfig, which  *)
(* it found without an error, with the token as user name and password,    *)
(* and with every other setting as the core made it.                       *)
Configured ==
  Connecting =>
    /\ core.valid
    /\ core.config = [Fresh("Config") EXCEPT !.content = vpnConfig.content]
    /\ vpnConfig.content # Null /\ vpnConfig.token # Null
    /\ core.creds = [Fresh("ProvideCreds") EXCEPT !.cachePassword = TRUE,
                       !.username = vpnConfig.token, !.password = vpnConfig.token]

(* The speeds the client is told add up to the amount of data it is told,  *)
(* also when the counters of the core start again from zero.               *)
SpeedsAddUp == poll.speeds = poll.data

=============================================================================
