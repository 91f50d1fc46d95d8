# A TLA+ model of vpn-android

This directory holds TLA+ modules for the Android VPN library in `src/`
(TunnelBear vpn-android, package `com.tunnelbear.vpn`), the TLC configurations
that check them, and proofs for TLAPS.  Paths below are relative to
`src/vpn-android/src/main/java/com/tunnelbear/` unless they start with `src/`.

## 1. The system

    client app                VPN library process           VPN process
    ----------                -------------------           -----------
    startVpn / stopVpn  --->  VpnRemoteService   --intent-> PolarVpnService
    updateLogging (AIDL)                                     | main thread: onStartCommand,
    IVpnCallback        <---  onStartCommand   <--intent--   |   onDestroy, onRevoke
                                                             | connectThread, disconnectThread
                                                             v
                                                        ManagementHandler  (a runner thread)
                                                             |   tun_builder_*, event, socket_protect
                                                             v
                                                        proxies and directors (net/openvpn/ovpn3, ovpncli_wrap.cxx)
                                                             |   JNI
                                                             v
                                                        OpenVPN 3 core (git submodule, C++)

The library runs in two processes (`src/vpn-android/src/main/AndroidManifest.xml`).
`VpnRemoteService` is what the client binds to; it turns calls into intents and
status intents into callbacks.  `PolarVpnService` is the Android `VpnService`;
its main thread only starts a thread for each command.  A *connectThread*
prepares fields of the service, builds the static `VpnConfig`, stops the
`ManagementHandler` in the field `management`, installs a new one and starts an
un-named thread, called a *runner* here, that calls `connect_new` on whatever
`management` is by then.  The native `connect()` in `connect_new` runs the
session and calls `event()` and the `tun_builder_*` methods back on the runner.

Between Java and the core is the code that SWIG generated, checked in with the
rest: for each C++ object a Java *proxy* with its address, for each native method
a JNI function that checks and converts its arguments, and for the one class
whose virtual methods Java overrides a C++ *director* that calls Java.  It is the
larger part of the repository's C++, and what it does about ownership, references,
exceptions and threads is what the library relies on without seeing it.

A *disconnectThread* stops the handler in `management`, reports a status and calls
`stopSelf`.  None of these threads takes a lock.

### Inventory

| Part | State it keeps | Operations | Hard behaviour | What makes it correct |
|---|---|---|---|---|
| `PolarVpnService` | `management`, fields set by `prepareConnection`, statics for status and notification | connect, disconnect, onRevoke, logging, onDestroy, onOpenTun, status callbacks | threads of several commands, runners and life cycle callbacks share fields without a lock | every session can be found and stopped; the status tells the truth; a disconnect ends the VPN |
| `ManagementHandler` | a native client, its `VpnConnectionConfig` | connect_new, event, disconnect, tun_builder_* | callbacks on the runner while other threads call stop | a stopped session ends; the configuration is the one of the request |
| `StatusPoller` | `mStopped`, byte counters | run, stop | plain field shared by two threads | ends with the session |
| `VpnConnectionConfig` | addresses, DNS servers, routes | adders, reset | reused for every reconnection | one establishment does not leak into the next |
| `NetworkSpace`, `IpAddress`, `CidrBlock` | a sorted set of networks | add, positiveIPList | splitting overlapping networks, boundary prefixes | the list covers what was included and nothing else |
| `VpnConfig`, `ObjectSerializer` | static `mConfig`, preferences | initConfig, getDefaultConfig | published before complete; a second writer | the reader gets the object of its request |
| `VpnRemoteService` | the callback | startVpn, stopVpn, status intents | restarts, replaced callbacks | each status reaches the client that asked |
| Notification code of `PolarVpnService` | builder, cached custom notification, fields of the request, what is in the bar | promoteToForeground, update on status, cache on disconnect | two threads share the builder; a static outlives its request; a post after the service is gone | an update finds a builder; the notification shows the status, and goes with the service |
| `IOHelper`, `VpnHelper`, `DeviceHelper` | files in the cache directory | copy binaries and assets | partial copies, first run and later runs | installed files are complete |
| `VpnThreadExceptionHandler` | – | reportError | only on connect and disconnect threads | every setup failure is reported |
| Proxy of `OpenVPNClient` and its C++ half | `swigCPtr` twice, `swigCMemOwn`, the JNI reference `swig_self_` | construction, director_connect, delete, finalize, release and take of ownership | two objects that hold each other; finalizer against threads in native calls | deleted once, by its owner; a proxy nobody uses can be collected |
| Director of `OpenVPNClient` | `swig_override`, the tables of 33 methods, pending exceptions, local references, attached threads | 33 director methods, the JNI functions of the client | callbacks below callbacks, threads of the core, exceptions across the border | an upcall is a virtual call and leaves its thread as it found it |
| Structs of `ClientAPI` and their proxies | addresses and who deletes them | new, set, get, delete, results, structs lent to a callback | a collection while a native function reads the struct | no access to a deleted struct; one owner each |
| OpenVPN 3 core | – | event loop | – | git submodule, not in `src/`; modelled as an environment |

The hazards, each with its line, are in `PROJECT.json` under `hazards`.

## 2. The modules

    StatusReporter <- ManagementHandler <- PolarVpnService <- PolarVpnServiceProperties <- PolarVpnServiceProofs
    TunBuilder <- MCTunBuilder;  TunBuilder <- TunBuilderProofs
    Records <- DirectorTables, NativeStructs
    ClientProxy, DirectorTables <- Director <- DirectorProperties <- MCDirector
    DirectorProperties <- DirectorProofs <- VirtualCallProofs
    DirectorProperties ~~> VirtualCall;  PolarVpnServiceProperties ~~> VpnSwitch
    NativeStructs <- SessionData <- MCSessionData;  SessionData <- SessionDataProofs
    PolarVpnServiceProperties <- ServiceNotification
    ServiceNotification, PolarVpnServiceProofs <- ServiceNotificationProofs
    StatusReporter <- VpnRemoteService
    VpnRemoteService, CacheInstall <- RemoteInstall <- RemoteInstallProofs
    NetworkSpace, AddressConversion <- MCRoutes <- RouteProofs

An arrow is EXTENDS, `~~>` is INSTANCE with a refinement mapping.  The first line
is one composed state machine: the runner of a session is a thread of
`ManagementHandler` that reports through `StatusReporter` and reads fields that
threads of `PolarVpnService` write.  `Director` composes the life of a client
(`ClientProxy`) with the calls that cross the border: a call of a JNI function is
an `Enter` of `ClientProxy`, its return a `Leave`.

### StatusReporter: status reports

`sCurrentConnectionStatus` is the static of that name; `reported` is the status
of the last intent sent to `VpnRemoteService`; `pending[t]` the statuses thread
`t` has still to report and `notify[t]` how far it is.  The comparison, the
assignment and the send are `NotifyPass` (or `NotifySkip`), `NotifySet` and
`NotifySend`: the code has them twice (`onNotifyConnectionStatus` 377-387 and
the disconnectThread 292-301) and neither is under a lock.

### ManagementHandler: a session

Connect `c` creates handler `c` and runner `c`.  `target[c]` is the handler the
runner really works on and `usedConfig[c]` the configuration it read.  The steps
of `connect_new` are `EvalConfig`, then `CoreConnect` or `CoreRefuse`, the
events of the core, and `ConnectReturns`.  `CoreAttempt`, `CoreConnected`,
`CoreReconnecting` and `CoreExit` are the events the core gives to `event()`;
`EventStatuses` is its switch.  `Stopped` is `disconnect()`.

The core is not in `src/`.  Three things are assumed of it: a client runs
`connect()` once, a loop that has begun announces its end with EXITING, and the
loop is not resumed before a callback has returned.  Whether a `stop()` before
`connect()` is remembered is the constant `StopLatches`; the runs take FALSE,
the harder case, and the theorems hold for both.

### PolarVpnService: threads, field, life cycle

| In the code | In the module |
|---|---|
| main thread: `onStartCommand` | `StartConnect`, `StartDisconnect`, `UpdateLogging`, `StickyRestart` (a null intent) |
| `onRevoke`, `onDestroy` | `OnRevoke`, `OnDestroy` |
| connectThread 239-269 | `PrepareConnection`, `PublishConfig` (the constructor of `VpnConfig` publishes itself), `InitConfig`, `Replace` (250-253), `Install` (255-263) or `InstallThrows` (255), `ReportError` (267) |
| un-named thread 258-263 | `ReadManagement`, then the steps of `ManagementHandler` |
| disconnectThread 281-310 | `DisconnectStop`, the reports, `DisconnectSelf` |
| field `management` | `management[i]` for instance `i` of the service; a thread belongs to the instance `svc[t]` that started it |
| `stopSelf` | `stopping`: the system may destroy the instance, and a later start may still save it (`Deliver`) |
| death of the process | `ProcessDeath`: threads, clients and statics are gone, `reported` stays with the client |

Atomicity.  Each access to a shared field is an action of its own, with these
exceptions, none of which hides a state another thread could tell apart: the null
test of `management` and the call on it (the field never returns to null in an
instance), creating the handler, assigning it and starting the runner in
`Install` (nothing between them is read before the assignment), the send and the
`stopSelf` of `reportError`.  What the `loggingEnabled` flags do is left out: no
code reads them.

### VpnSwitch: what a client that waits is promised

The abstract specification of the three modules above: one session at a time, the
status on record, and whether the session has been asked to stop.  A session moves
on only when the state it announced is on record (`Move`), unless it has been asked
to stop; while it has not, the only offline status that is recorded is that of its
end (`Tell`); and it is over only when an offline status is (`Over`).  A session is
the handler in a loop (`TheSession` is its `core`, `Asked` its `stopRequested`), so
`Start` is `CoreConnect`, `Over` is `ConnectReturns`, `Tell` is `NotifySet` of any
thread, and a `disconnect()` with a session up is `Ask`.  Every other step of the
threads, and every step of a command, leaves the switch alone.

### TunBuilder: from the pushed options to the interface

`mCurrentConfig` is the one `VpnConnectionConfig` of a handler; a *round* is what
the core does in every (re)connection: `tun_builder_new`, a call per option,
`tun_builder_establish`.  `pushed` is a history variable with the options of the
round.  A Java exception in a callback is thrown again in the core by the
director (`JavaThrows` and `Resumed` of `Director`), so `EstablishFails` and
`Abort` end the session.  Two exceptions do not get that far: `addRoutev6` catches
that of an IPv6 route whose address is not found (111-113), and `getVpnBuilder` that
of a route the system refuses (`PolarVpnService` 587, 595).  The first is the constant
`Unknown`; what the system makes of the text of a route, itself, another route or
"rejected", is the constant `Given`, of which only its type is assumed.  Routes are
values here, since every caller adds included ones; of routes that overlap only the
default route is told from the others (`Positive`), the rest
is the subject of the next module.  Families of addresses are kept apart
because the code treats them apart: the default route needs a local address in
IPv4 only (`VpnConnectionConfig.addRoute` 65-68, `addRoutev6` 97-114).

### NetworkSpace: the list of routes

One action per branch of the loop of `generateIPList`.  `networks` is the
`PriorityQueue` as a bag; `Heads` leaves open which of two equal elements comes
first, as the library class does.  A network is its masked first address, its
prefix and its flag; `Size` says what `getMaskedAddress` does to a prefix that is
longer than the address.

### ClientProxy: two objects that hold each other

The C++ client has a JNI reference to its Java proxy, to call it back, and the
proxy has the address of the client and, while `swigCMemOwn` is set, the duty to
delete it.  `swigCPtr` and `baseCPtr` are the two copies of the address, one per
class of the hierarchy.  `delete()` is a step for each thing another thread could
come between: entering the monitor, the test of the ownership, the destructor,
`swig_disconnect_director_self`, the release of the reference, the zeroing.
`life` is what the garbage collector knows of the proxy, and `Reachable` what
keeps it: also a native call that was given the proxy as `jarg1_`.  `Deletes` and
`Transfers` switch on what no code in this library does but the class offers.

### DirectorTables, Director: calls across the border

`DirectorTables` is data: for each of the 33 virtual methods its slot, the kinds
of its arguments and result, and the two tables of the source that number them
again; for each JNI function of `TunBuilderBase` and `OpenVPNClient` the arguments
that a null check guards.  The order of the file is kept, since agreement of the
tables is a property (`OwnMethod`).

In `Director` a thread is a stack of frames: a JNI function ("wrapper"), a
director method ("upcall") or the Java body it called ("java").

| In the code | In the module |
|---|---|
| JNI function: null test, C++ call, return | `CallWrapper`, `RejectNull`, `CallFunction`, `ReturnToJava` |
| `connect()` running a session | the frame at "running": `CoreCalls`, `CoreEnds` |
| `JNIEnvWrapper`, `swig_override[i]` | `EnterUpcall`, `Detach` |
| upcall to the base class, or "purely virtual" | `CallBase`, `RejectPure` |
| `swig_get_self`, conversion, `Call*Method` | `CallJava` |
| the body returns or throws | `JavaReturns`, `JavaThrows` |
| `DirectorException`, return to the caller | `Pending`, `Leaked`, `Resumed`, `LeaveUpcall` |

A `refs` field counts the local references a frame of `connect()` has been left
with.  `VirtualCall` is the abstract specification: a virtual call runs the most
derived body once and gives its caller the value or the exception of that body.
`VirtualCalls` is the refinement mapping: the upcall frames of each stack, every
third one (`Turn`, since a JNI function, a director and a body take turns), with the
phase each has reached.  A phase "failed" has no counterpart in `VirtualCall`, so
a director that cannot find the proxy, or leaves an exception that is lost, is a
step the abstract specification does not have.

### NativeStructs, SessionData: what a session passes across

`NativeStructs` lists the fields of the seven structs a session uses with the kind
of conversion each has.  `SessionData` runs `connect_new`, the `StatusPoller`,
`event()` and `log()` as sequences of native calls (`Program`) over a heap of
addresses that are used again.  A call is two steps, `Enter`, which takes the
address out of the proxy, and the return, and the collector (`Finalize`) may act
between them on any proxy that nothing holds (`Held`).  The collector is as early
as the language allows: a variable that is not used any more holds nothing.

### ServiceNotification: the notification and the foreground

Adds to the threads of `PolarVpnService` what they do about the notification.
`prepareConnection` becomes four steps, since runners read what it writes:
`AssignFields` (145-157), `PrepareThrows`, `Promote` (up to the builder) and
`StartForeground`.  After the intent of a report a runner goes on with
`UpdateNotice`, the test and the calls on `mNotificationBuilder`, and `PostNotice`,
which posts what the field holds by then; it is `Quiet` again before the next
event, because `event()` has not returned.  `bar` is what is posted under the id of
the default notification, `foreground` the place a running instance has, which the
system clears with the instance.  What a search of the bar finds is left open
(`MayFind`), as the client posts and removes its own notification at will.

### VpnRemoteService: the callback

| In the code | In the module |
|---|---|
| one-way calls of `IVpnConnectionManager` | `calls`, a queue; one at a time on the binder thread (`serving`) |
| `startVpn` | `TakeStart` (110), `Prepare` (112-119), `Install` (123), `Forward` (125-177) |
| `stopVpn`, `updateLoggingEnabled` | `TakeOther` |
| intents from `PolarVpnService` | `intents`, a queue the system keeps over a death of the process |
| `onStartCommand` | `Handle` |
| `NEEDS_VPN_PERMISSION` (118), told by the binder thread past the queue of intents | the refusal in `Prepare` |
| the end of an instance: with the process, or by an unbind when nothing has started it | `Death`, `Unbind` |

It composes with `PolarVpnService` through what that promises here: reports only
after a connect, made by the steps of `StatusReporter`, errors, and the speed and
data intents that have the type of a status and none in them.

### CacheInstall: files in the cache directory

Two callers in two processes: `checkOrMoveBinaries` ("remote") and the constructor
of `VpnConfig` ("config").  `checkOrMoveBinaries` copies the executable through `getBinaryName` (`VpnHelper`
41-45) and then calls `copyBinaryToCacheDir` once more (230): places "binary" to
"permit", and "again" to "repermit".  The first logs what goes wrong and goes on with
the assets, the second makes an error of it (`Fails`).
A copy is two steps, `Open`, after which the file exists
and is empty, and `Close`; between them the other caller, a failure or a death may
come.  `file` is what a file holds, `opener` who emptied it last.  The directory is
a cache: Android may delete a file of it at any time (`Evict`), also one that is
being written, and what is then written to the open stream is lost.  `CacheInit` is
the directory of a fresh installation or of one that was used.

### RemoteInstall: startVpn with its installation

Composes the two modules before it.  `VpnRemoteService` says of line 123 that it
succeeds or that an error comes of it; here the call is at "install" while
`checkOrMoveBinaries` runs step by step, and its last step (`InstallReturns`) is the
`Install` of `VpnRemoteService` with the same outcome.  The constructor of `VpnConfig`
copies (`ConfigStep`) once a connect has been sent to the other process; the death
of the library process (`RemoteDeath`) ends the call, the copy and the callback at
once.

### AddressConversion: masks, lengths and text

`CidrBlock` and `iPv6Address` as functions, over octets of `OctetBits` bits and
eight groups, against definitions by sets of addresses.  A behavior is one input.
`MCRoutes` runs it beside `NetworkSpace`: a behavior converts a route or makes a
list, since the two are bounded to addresses of different widths.

## 3. The runs

| Run | Specification | Asks |
|---|---|---|
| `orderly` | a command at a time; a death, a restart; fair | `NoOrphan`, `OwnRequest`, `RunnerHasHandler`, `OfflineAtRest`, `StoppedSessionsEnd`, `DisconnectEndsSessions`, `DisconnectEndsService` |
| `polite` | `ServiceNotification`; also disconnects before it connects, and waits; reconnections, a death | `ImplementsVpnSwitch`, `StatusTruth`, `BuilderThere`, `NoticeFollows` |
| `tunnel` | `MCTunBuilder`: two rounds, routes that are refused, altered or not read | `InterfaceIsRound` |
| `routes` | all sets of four routes; all inputs of the conversions | `ListIsLongestMatch`, `DoneApart`, `LoopEnds`, `MaskLength`, `NormalIsFirst`, `ReadsBack` |
| `ownership` | `ClientProxy`: deletes, transfers, the finalizer | `FreedOnce`, `OwnerIsCollectable`, `NothingOrphaned`, `NoDanglingProxy` |
| `upcalls` | `Director`: one thread, every method | `OwnMethod`, `NoPendingException`, `RefsBalanced`, `NullIsRejected` |
| `workers` | `Director`: three threads, few methods | `AttachBalanced`, `SuperIsSafe`, `CallsOnLive`, `ImplementsVirtualCall` |
| `session` | `SessionData` | `SessionDataTypeOK`, `AccessOnLive`, `OneOwner`, `Configured`, `SpeedsAddUp` |
| `remote` | `RemoteInstall`: refusals, failing copies, a death or an unbind, a deleted file; fair | `ClientFollows`, `DroppedWhenGone`, `ExecutableIsWhole`, `OneError`, `StartEnds` |
| `zombie`, `silentsetup`, `whitelist` | expected violations | see section 5 |

Type invariants that are proved (`TypeCorrect`, `TunTypes`, `CacheTypes`) are not
checked again by a run.

What they show of the generated code: a client is deleted by exactly one of its
possible owners, and only after nothing calls it; each of the 33 callbacks reaches
the Java method of its name and each null argument is turned away before C++ sees
it; an upcall from any thread at any depth is a virtual call; and no struct is
read after the collector has taken its proxy, which is because the JNI functions
are given the proxy (`jarg1_`) beside the address: without it (the mutants
`ReachableWithoutCalls` and `HeldOnlyByVariables`) the runs find a use after free.

Environments.  Nothing in the library makes a client wait: `hasty` is commands at
any moment.  `orderly` (the thread of the last command has handed over
to the core, and no instance is on its way out) and `polite` (nothing moves at
all, and no session is live when a connect is sent) are assumptions on the
client; the properties that need one say by that what the client has to do.
What needs none is proved for `hasty` too (`TypeCorrect`, `RunnerNeverNull`,
`OfflineWhenOver`, `BuilderIsThere`).
`NoOrphan` and `OwnRequest` are false under `hasty`: two connectThreads that
pass lines 250-253 before either assigns `management` leave a session that no
field names, and the second runner reads the first one's configuration.  No run
shows that overlap.  `zombie` is the other race of line 285: a disconnectThread
overtakes the one connectThread before it.

Bounds.  Two connects are the least that replace each other and, with a third
thread for the disconnect or revocation, give the races at lines 255, 261 and
285 of `PolarVpnService`; each is a race of two threads with one session.
`MaxInstances` and `MaxDeaths` let the service be destroyed and come back,
`MaxRetries` lets a session reconnect (not under `orderly`, which looks at starts
and ends).  Two rounds let one leave something for
the next: an address, a server or a route it has and the next has not.  Of the three
routes one is taken as it is, one is refused in IPv4 and read as the first in IPv6,
and one cannot be read in IPv6.  `SDK_INT` is that of Android 8; the theorem is for
any, also those before KitKat, where the default route does not absorb the others.
Three bits and four routes
give networks nested three deep, neighbours, and routes that reach the last
address; every branch of the loop is taken.  `CHECK_DEADLOCK FALSE` is there
where the commands, the rounds or the traffic are used up or a session may be over;
`routes` is checked for deadlock.

In `ownership` two threads and the finalizer are the three who can reach
`delete()`.  In `upcalls` four frames are a session, its callback, the Java body
and a native method called from there, over every method; `workers` has a fifth,
for a callback below a callback, a second Java thread (the poller) and a thread
the VM does not know, over the methods that differ in kind: overridden and not,
protected, one that returns to the core.  `session` has two addresses:
the credentials and their status, or a result of the poller and a lent struct, are
there at the same time, and the next has to use the address of a deleted one, which
is where a stale address would read another struct; what is proved of `SessionData`
is for any number.  Addresses are interchangeable, hence the symmetry.  One byte in each direction is enough for the counters to move and
to start again from zero.

`polite` has two requests and a disconnect: two requests are what it takes for
one to find what the other left in a field or a static, and the disconnect
between them makes the client wait for the end of the first; before or after both
it finds no session, or ends the last.  A death lets a
request meet a new process with a status of the old one.  It has requests with a
custom notification and with the default one on Android 8; that a request asks for
the default notification as well makes no difference there.

In `remote` two calls let a second `startVpn` replace the callback while statuses
of the first are queued, or come after a copy error of the first; two reports
leave one on its way on either side of that.  One death or unbind (`MaxEnds`), one
interruption of the other process and one deleted file can each fall into any copy of either caller,
of which there are two files: the executable and an asset (the library has two,
which one loop copies; the proofs are for any set of them).
A file that is deleted accounts for one more error, hence `evictions` in
`OneError`.  In the conversions of `routes`
octets of two bits give 256 addresses, and lengths from
0 to 8 with both ends; what is proved is for any width.  Group
values 0, 1 and 2 in eight groups put zeros in every pattern.

Excluded routes.  `routes` bounds them to one (`MaxExcluded`), and to one that
has no included route inside it (`Plain`).  Beyond that `ListIsLongestMatch` is
false, on addresses of 3 bits already: with 0/1 included and 2/2 and 2/3
excluded the halves of 0/1 meet an equal network with the other flag; with 0/0
included, 4/1 excluded and 4/2 included the last is skipped as part of 0/0 and
lost.  The library never excludes a route: `tun_builder_add_route` (138) and
`tun_builder_reroute_gw` pass included ones and `tun_builder_exclude_route`
(142-146) does nothing.  A change there has to repair the loop first.

Fairness (`FairSpec`).  Weak fairness of each step of each thread, because a
thread that can run is scheduled; of the end of a session that was asked to stop;
of the destruction of a service that called `stopSelf`, but only when no session
is live, since the system keeps a `VpnService` bound while its tunnel is open.  No
fairness of commands, of what a core does unasked or of deaths.  In `RemoteInstall`
the binder thread runs, inside `checkOrMoveBinaries` as outside, and nothing else is
assumed.  In `NetworkSpace` the loop is the body of a method, so it runs on.

Deaths and `DisconnectEndsService`.  A process that is killed between the `stop()`
of a disconnect and its `stopSelf` is restarted by the system with a null intent
and then stays: no session, and no command left to stop it.  The property is
therefore about runs in which the process lives (`deaths = 0`); what is about
sessions holds with deaths too.

## 4. What is proved

`PolarVpnServiceProofs`, for every number of connects, disconnects, instances,
deaths and reconnections and either value of `StopLatches`:

* `TypeCorrect` and `RunnerNeverNull`, from `BaseInv`: a thread at work knows its
  instance, a handler exists only after the last step of its connectThread, and
  `management` holds created handlers only.  Without the second a runner that was
  just born could find a field that has been assigned but whose handler is
  absent.
* `NoSessionEscapes`: `NoOrphan` when `Environment # "hasty"`.  `OrderInv` adds
  what an orderly client gives: one connectThread at work at a time, at the live
  instance, with everything else stopped or in the field.
* `SessionsRunOwnRequest`: `OwnRequest` when `Environment # "hasty"`.  `Requests`
  says between which steps `mConfig` and `management` are those of a connect;
  `OrderInv` is why no other thread writes them in between.
* `OfflineWhenOver`: `OfflineAtRest` in every environment.  `OfflineInv` says that
  while the recorded status is an online one, a session is live or a thread has
  an offline status left to report that it will not lose.
* `StatusIsTrue`: `StatusTruth` when `Environment = "polite"`.  `TruthInv` says that
  one request at most is at work (`OneActive`), that a disconnectThread reports only
  when every session has been told to stop (`StopsTaken`), and that the state of a
  session that goes on is recorded or is the one status its runner has still to
  report (`Recorded`).  At rest that is the property; a step before it is not.  An
  orderly client is not enough (section 5).

* `ServiceIsASwitch`: `ImplementsVpnSwitch` when `Environment = "polite"`, by
  `SwitchInv` beside the invariants above: what a runner in a loop has still to
  report is the state its session announced last and nothing before it; once it has
  reported the end an offline status is on record; and a disconnectThread reports
  nothing but that the VPN is off.  `SessionFound` shows that there is one session
  at most and which; each thread's steps are then shown to be a step of the switch
  or a stutter.  Under `orderly` it is false, for the reason `StatusTruth` is: two
  sessions overlap.

`TunBuilderProofs`, for all addresses, servers, routes and packages, whatever the
system refuses or reads as something else, any Android and any number of rounds:

* `TunTypes` and `OwnRound`, from `IInv`: in a round the configuration is what was
  pushed in it, but for the default route that waits for an address and the IPv6
  routes without one (`Wanted`, `Mirror`), and between rounds it is empty but for the MTU (`Between`).  `InterfaceIsRound`
  alone says nothing of the configuration while a round is under way.

`DirectorProofs`, of `ClientProxy`, for any set of threads, with or without deletes
and transfers:

* `ProxyInvHolds`, by the invariant `ProxyInv`: who may be where inside `delete()`
  (`DeleteSteps`, `Construction`), that whoever destroys has taken the ownership
  and takes the address away before the reference goes (`Deletion`), that an
  owning proxy is referred to weakly and any other strongly (`Ownership`), and
  that nobody uses what is collected (`Collection`, `Undisturbed`).  From it
  `TypeCorrect`, `NoDoubleFree`, `CallsAreSafe`, `NoSelfReference`,
  `NothingLeftBehind` and `NoDanglingAddress`.

`DirectorProofs`, of `Director`, for any threads, methods and depth of the stacks:

* `CallbacksAreSafe`: every step of `Director` is a step of `ClientProxy` or leaves
  it alone, so `ProxyInv` and with it `CallsOnLive` hold of the composition.
* `ThreadsStayAttached`: `AttachBalanced`, from `AttachInv`: at most one frame of a
  stack attaches, and it is the outermost of a thread of the core.  Without that
  an inner callback that returns could detach the thread for the outer one.
* `UpcallsReachTheirMethod`, `ReferencesAreDeleted`, `NullNeverArrives`: `OwnMethod`,
  `RefsBalanced`, `NullIsRejected`.  They rest on two things.  The tables agree slot
  by slot (`OwnSlots`), which is shown for each part of `Upcalls` and carried over
  the `++` that puts them together.  And every stack has its `Shape` (`StackInv`): a
  frame is at a place its code can be at, was called from the frame below it
  (`CallFrom`), and is a JNI function, a director or a body by its depth (`InTurn`).
  Each action is one of five changes of a stack (push, call, move, pop, end), for
  which `StackInv` is proved once.  The second theorem has the hypothesis that no
  body returns null for a vector: then the director returns without deleting its
  reference (`Leaked`), which no body of `ManagementHandler` brings about.

`VirtualCallProofs`, for any threads, methods and depth of the stacks:

* `SuperCallsAreSafe`: `SuperIsSafe` under `NoWayBack`: among the methods the class
  overrides, Java calls on to the superclass only for protected ones, which have an
  explicit function.  `OneConnect` adds that one thread is in `connect()`, once, and
  that a thread of the core is in a callback only while there is one; so a body
  either has `connect()` two frames below it or is the only one of its thread.
* `ExceptionsAreCleared`: `NoPendingException`, from `QuietInv`: an exception is
  pending only in code that is about to return (`ExceptionPlaces`).  For the callback
  itself the proxy must be found, which follows from `CallsInv`: as many native calls
  as a stack has are counted in `ClientProxy`, and those keep the proxy.
* `DirectorsImplementVirtualCalls`: `Spec => ImplementsVirtualCall`.  Each step of a
  JNI function leaves the virtual calls alone (`WrapperStutters`), a call of a
  director is `Invoke` (`UpcallStarts`), a step of the innermost upcall or of its body
  passes on its phase as `VirtualCall` allows (`UpcallGoesOn`, `BodyPasses`), and
  leaving a director is `Return` (`UpcallReturns`).

The last two have the hypothesis `Callbacks`: the core calls only methods that have
a body, no body returns null for a vector, and the program neither deletes the
client nor hands it over.  Without the first, 0 would be given to the core with an
exception pending; without the last, a callback could find its proxy gone.
`ManagementHandler` satisfies them: it overrides the pure methods, makes a vector on
every call of `tun_builder_get_local_networks` (223), and nothing calls `delete()` or
a `swig*Ownership` method.  `MCDirector` states them as an assumption on the values
it gives the constants, so that both runs evaluate them.

`SessionDataProofs`, for any set of addresses, any contents and any traffic:

* `StructsHaveOneOwner`: `OneOwner`, from `OwnInv`, which adds that the parameter of
  a running callback holds the struct that was lent to it.
* `NoUseAfterFree`: `AccessOnLive`, from `AccessInv`: a variable an activity still
  uses (`Uses`) points to a live struct of its declared type, and so does the
  address a running native function was given.  It is `Held` that keeps the
  second true: after the call has begun the variable may hold nothing.
* `SessionIsConfigured`: `Configured`, from `RunnerInv`: up to which call the struct
  the runner fills in has the values the program sets (`FilledInv`), and what the
  core has been told of them after each call.  It needs `AccessInv`, since otherwise
  the memory could be another struct's by the time the core reads it.
* `SpeedsAreData`: `SpeedsAddUp`, from `PollInv`: the last counters the poller keeps
  are those whose sum it has told, also when the core starts again from zero.
* `SessionDataTypes`: `SessionDataTypeOK`, from `HeapInv`, `BytesInv`, `GotInv` and
  `PlacesInv`: what a getter returns is a counter only if the struct at the address
  has that field, which is again `AccessInv`.

`RemoteInstallProofs`, for any number of calls, reports, deaths and threads:

* `CacheTypes` and `ExecutableWhole`, of `CacheInstall`, from an invariant that says
  who may write the executable and when, and that the permission is given only
  between a finished copy and the next caller; a file that is deleted takes its
  permission along.
* `OnlyAbsenceDrops`: `DroppedWhenGone`, from `CallbackInv`: while no death and no
  unbind has ended an instance and anything is under way (`Underway`: a call being served, a connect sent, a
  report, an intent) the callback is not null.  The property alone says nothing of
  the commands that have yet to bring intents about.
* `LastSentIsTold`: for any number of reporting threads, when the queue of intents is
  empty the callback has been told the status that was sent last, if one was sent
  since it came, unless its call was refused and it was told that last (`Refused`).
  `ToldInv` is the same for a queue that is not empty: that status is in it, with no
  other behind.  A refusal is told past the queue; that it can only be that of the
  call whose callback is in the field follows from `Numbered`: calls are served in
  the order of their numbers, one at a time, and each is answered once.
* `ClientIsTold`: `ClientFollows`, for one reporting thread.  `SentInv` says that the
  status sent last is the recorded one unless the thread is about to send that.  Two
  threads can assign in one order and send in the other (`PolarVpnService` 292-297
  and 378-383), and then only `LastSentIsTold` is true.
* `ImplementsRemote`, `ImplementsCache`: `RemoteInstall` implements both its parts, so
  `PartsStaySafe`: what is proved of each holds of the composition.
* `ErrorOnce`: `OneError`, from `Budget`: the errors told, the one a copying loop is
  about to tell, the one a missing asset will still cost and the one a second copy of
  the executable may come to are together at most one more than the deletions.

`ServiceNotificationProofs`, for every environment and any number of commands,
instances and deaths:

* `NoticeIsService`: every behavior of `ServiceNotification` is one of
  `PolarVpnService`, step by step or stuttering, so the theorems of
  `PolarVpnServiceProofs` hold with notifications too.
* `BuilderIsThere`: `BuilderThere` from Android 8 on, from `NoticeInv`: a request past
  `prepareConnection` has left a builder in its instance, or a custom notification
  at hand (`Prepared`), and a runner that may still update the notification works
  for an instance that has one (`Covered`).  A request that comes meanwhile changes
  the fields the test reads, so the test alone says nothing about the builder.
* `NoticeShowsStatus`: `NoticeFollows` from Android 8 on and for a polite client, from
  `ShowInv` beside `TruthInv`: the recorded status is in the bar, or in the builder
  about to be posted, or known to the runner that is about to test it, or yet to be
  reported (`Shown`); and a session that is being set up finds an offline status.
* `NoticeIsASwitch`: `ImplementsVpnSwitch` with notifications too, which is what the
  run `polite` checks: `NoticeIsService` and `ServiceIsASwitch` together.

`RouteProofs`, for every width of an address or an octet, any number of routes and
any groups (so also for 32 bits, octets of eight, and eight groups of 16):

* `DoneIsApart`: `DoneApart`, whatever is excluded, from `OrderInv`: nothing in the
  queue begins before the network in hand, and what is done with ends before it.
* `ListMatchesLongest` and `RoutesTypeCorrect`: `ListIsLongestMatch` and the module's `TypeOK` with
  one excluded route at most (`MaxExcluded <= 1`; section 3 says what goes wrong with
  two, and that the library excludes none).  `ListInv` adds to `OrderInv` that what
  the loop works on (`Work`: in hand, in the queue, done with) stands for the routes
  it was given (`StandsFor`): it has the same hole, no included network inside that,
  and covers the same addresses outside.  Each branch of the loop preserves this for
  a reason of its own: two halves cover what the network covered, what is dropped
  lies inside a kept network of its kind, and a network is never put aside as done
  while the hole is still ahead in it.
* `MaskHasItsLength`: `MaskLength`.  A number is an odd one times a power of two in one
  way (`OddPartExists`, `OddPartIsOne`), and `LenZeros` counts that power.
* `NormalisedIsFirst`: `NormalIsFirst`.  `getInt` reads back what `Format` writes of any
  number of four octets (`FormatIsRead`), and taking away the remainder gives the
  first number with the same quotient.
* `TextIsReadBack`: `ReadsBack`.  The loop over the groups writes those from the first
  to the last that is not zero (`TextIs`, `TextOf`), and says with "::" whether zeros
  follow; that there may also have been zeros in front is lost.
* `RoutesAreBoth`: a behavior of `MCRoutes`, which the run checks, is one of
  `NetworkSpace` and one of `AddressConversion`.

Three facts these rest on are inductions, which the prover does not do as such.
That `2^(m+n)` is `2^m * 2^n` is shown by counting: `2^n` is the number of subsets of
`1..n` (`PowerCounts`), and the subsets of a union are pairs.  What `LenZeros`, a
recursive function, and the fold of `IPv6Address` compute is shown by the least number
for which it would be something else (`LeastNumber`).  That functions with their
equations exist is shown too: for `LenZeros` it is the exponent itself, for the fold it
is built from smaller sets of groups to larger ones (`PassesExist`).

The assumptions are those on the constants, for `TunBuilder` that the core names the
remote and the addresses before it reroutes, and the hypotheses named above, each
of which some run satisfies.

Only model-checked: the liveness properties (`StoppedSessionsEnd`,
`DisconnectEndsSessions`, `DisconnectEndsService`, `LoopEnds`, `StartEnds`), since
fairness is out of reach of the prover.

## 5. Where the code and its comments differ

| Run | What happens |
|---|---|
| `zombie` | a disconnectThread overtakes the connectThread before it: the session starts afterwards and stays up |
| `silentsetup` | a configuration the core cannot parse is reported to nobody |
| `whitelist` | a package that is not installed ends the white list |

The lines and the comments are quoted in `PROJECT.json`, `findings`.

Met while modelling, with no comment in the code that says otherwise:

* After one custom notification `currentCustomNotification` stays set until the
  process dies, so the default notification of a later request is put up once, at
  Initializing, and never follows a status (`PolarVpnService` 389-419).
* A runner posts outside any lock: the last status of a stopped session may be
  posted after the service is gone, and stays in the bar (414).
* Before Android 8 a status that comes between the fields and the builder of a
  second request meets a null builder (392); the exception ends the session.
* A route that the system refuses (`PolarVpnService` 587, 595) and an IPv6 route whose
  address is not found (`VpnConnectionConfig` 112) are logged and left out: the
  interface comes up without them, and neither the core nor the client is told.
* A status of an earlier session that is handled between the lines 110 and 118 of
  `VpnRemoteService` is told to the new callback, and NEEDS_VPN_PERMISSION after it,
  although the session is up: what the client was told last is then not the recorded
  status (`Refused` in `ClientFollows`).
* `callback` is a field of the instance.  A client that unbinds before the first
  status intent has started the service ends the instance (`onDestroy`), and the
  intents that follow find another one without a callback, while the process lives.
* After a death of the library process the statuses and errors of the session that
  goes on in the other one have no callback, until the client calls `startVpn`
  again (`VpnRemoteService` 110).
* An exception in `startVpn` that is not `VpnSetupError` is heard by nobody: the call
  is one-way (175).
* The first `startVpn` on external memory ends in a copy error although all was
  copied, since `moveAssetsToCacheDir` returns false always (`IOHelper` 59); the
  second finds the files.  An asset that exists but is not whole counts as
  installed, for good (`VpnConfig` 160-168).
* An IPv6 route whose first group is zero, other than ::, is given to the system as
  another address (`IpAddress` 86-103); `ReadsBack` says exactly which.
* With two excluded routes the list can be wrong (section 3); no code excludes one.
* A reconnection reads the white list of the latest request, not that of the
  request its session came from (`PolarVpnService` 620).
* A replaced session gives EXITING after the new one has given CONNECTED, and the
  static status is then DISCONNECTED while a session is up: `StatusTruth` needs the
  polite client, and is false under `orderly`.
* Both copies of compare, assign and send (`PolarVpnService` 292-301, 378-387) are
  without a lock, so two threads may send in the other order than they assigned:
  the last status sent need not be the recorded one.
* `tun_builder_get_local_networks` returns the address of a vector whose proxy is
  by then only in the frame that has returned (`ovpncliJNI.java` 462).  Until the
  director has copied it (`ovpncli_wrap.cxx` 1409) the finalizer may delete it:
  `FinalizeNetworks`.  `ManagementHandler` 223 makes such a vector on every call.

## 6. What is not modelled

* The OpenVPN core (a submodule), build files and their `config.h`,
  `openvpn-plugin.h`, AIDL declarations, value types and constants: no logic of
  this library.
* Of the generated code: the structs and vectors the library never makes
  (SessionToken, DynamicChallenge, KeyValue, ConnectionInfo, InterfaceStats,
  MergeConfig, RemoteOverride, the external PKI requests, the vectors of Java
  strings beyond the one of `get_local_networks`), whose accessors are those of
  the modelled ones, and the functions that return the address of a member inside
  another struct.
* The digits of addresses in text, the text of logs and notifications, icons,
  actions and the notification channel.
* The preferences.  Every request writes them (`VpnConfig` 101) and nothing reads
  them while the service works: `getDefaultConfig` is called on a runner, after
  `initConfig` has set `mConfig` in the same process.  `ObjectSerializer` is a codec
  without state.
* The fields `prepareConnection` hands on untouched (servers, token, bundle, texts),
  and what `startVpn` copies from its bundle to the intent.
* Where an unbind meets a call that is being served: the call goes on in the old
  instance, whose steps touch nothing of the new one, so `Unbind` waits for it.
* The handler of an exception in a disconnectThread (`PolarVpnService` 308): the
  core's `stop()` and `startService` are taken not to throw there.
* That a runner sees `mStopped`, a plain field another thread assigns, is assumed:
  `StoppedSessionsEnd` is false where it never does.
* The composition of `VpnRemoteService` with the whole of `PolarVpnService`: the
  product is out of TLC's reach, so it is composed with its `StatusReporter`.

## 7. Plan

Every safety property of a passing run is proved, and so are both refinements.  What is left:
that a behavior of `SessionData` with its calls taken together is one of
`ManagementHandler`'s session, which would join the two views of `connect_new`.
