---------------------------- MODULE ClientProxy ----------------------------
(***************************************************************************)
(* A client of the core is two objects that hold each other: the C++       *)
(* SwigDirector_ClientAPI_OpenVPNClient, here "native", and its Java proxy *)
(* (a ManagementHandler).  The proxy has the address of the native object  *)
(* in swigCPtr, once per class of its hierarchy, and swigCMemOwn says      *)
(* whether it has to delete it; the native object has a JNI reference to   *)
(* the proxy in swig_self_ to call it back.  This module is about their    *)
(* lives: calls, garbage collection, delete() and changes of ownership.    *)
(***************************************************************************)
EXTENDS Naturals

CONSTANTS
  Threads,      \* threads that use the client
  Finalizer,    \* the thread that runs finalize()
  NoThread,
  Deletes,      \* does a thread of the program call delete()?
  Transfers,    \* does it hand the native object over to C++ and take it back?
  MaxCalls      \* bound: calls of native methods one thread is in

ASSUME FinalizerAssumption ==
  Finalizer \notin Threads /\ NoThread \notin Threads /\ NoThread # Finalizer

ASSUME UsageAssumption ==
  Deletes \in BOOLEAN /\ Transfers \in BOOLEAN /\ MaxCalls \in Nat

Deleters == Threads \cup {Finalizer}

VARIABLES
  held,         \* does a field or a local variable of the program refer to the proxy?
  life,         \* the proxy, for the garbage collector
  swigCPtr,     \* is swigCPtr of ClientAPI_OpenVPNClient set?
  baseCPtr,     \* and the one of ClientAPI_TunBuilderBase?
  swigCMemOwn,
  jthis,        \* JObjectWrapper: jthis_ with weak_global_
  native,       \* the native object
  frees,        \* how often it was deleted
  calls,        \* per thread: the calls of native methods it is in, with this as argument
  step,         \* per thread: its step inside delete(), or in the destructor
  monitor       \* the thread inside a synchronized method of the proxy

proxyVars ==
  <<held, life, swigCPtr, baseCPtr, swigCMemOwn, jthis, native, frees, calls,
    step, monitor>>

ProxyTypeOK ==
  /\ held \in BOOLEAN
  /\ life \in {"none", "live", "finalizing", "gone"}
  /\ swigCPtr \in BOOLEAN /\ baseCPtr \in BOOLEAN /\ swigCMemOwn \in BOOLEAN
  /\ jthis \in {"null", "weak", "global"}
  /\ native \in {"none", "live", "freed"}
  /\ frees \in Nat
  /\ calls \in [Threads -> Nat]
  /\ step \in [Deleters ->
                {"no", "enter", "test", "destroy", "disconnect", "release",
                 "zero", "ownerDisconnect", "ownerRelease", "give"}]
  /\ monitor \in Deleters \cup {NoThread}

ProxyInit ==
  /\ held = FALSE
  /\ life = "none"
  /\ swigCPtr = FALSE /\ baseCPtr = FALSE /\ swigCMemOwn = FALSE
  /\ jthis = "null"
  /\ native = "none"
  /\ frees = 0
  /\ calls = [t \in Threads |-> 0]
  /\ step = [t \in Deleters |-> "no"]
  /\ monitor = NoThread

-----------------------------------------------------------------------------
(* The references.                                                         *)

(* A mutant: the native methods are not given the proxy. *)
ReachableWithoutCalls ==
  held \/ jthis = "global" \/ \E t \in Threads : step[t] # "no"

(* What keeps the proxy from being collected: the program, a global        *)
(* reference, a native call, whose argument jarg1_ is the proxy, and a     *)
(* thread that is inside one of its methods.                               *)
Reachable ==
  \/ held
  \/ jthis = "global"
  \/ \E t \in Threads :
       calls[t] > 0 \/ step[t] \notin {"no", "ownerDisconnect", "ownerRelease"}

(* JObjectWrapper.get finds the proxy until the collector has taken it.    *)
FindsProxy == jthis # "null" /\ life \in {"live", "finalizing"}

(* A mutant: a reference is weak only if it need not be. *)
StrongReference(mem_own, weak_global) ==
  IF weak_global /\ ~mem_own THEN "weak" ELSE "global"

(* JObjectWrapper.set, on the first call.                                  *)
Reference(mem_own, weak_global) ==
  IF weak_global \/ ~mem_own THEN "weak" ELSE "global"

(* A mutant: only taking it back is looked at. *)
ChangedOnTaking(reference, take) ==
  IF take /\ reference = "global" THEN "weak" ELSE reference

(* JObjectWrapper.java_change_ownership.                                   *)
ChangedOwnership(reference, take) ==
  CASE take /\ reference = "global" -> "weak"
    [] ~take /\ reference = "weak"  -> "global"
    [] OTHER                        -> reference

-----------------------------------------------------------------------------
(* The proxy and its calls.                                                *)

(* new_ClientAPI_OpenVPNClient and the constructor with its address.       *)
Construct(t) ==
  /\ life = "none"
  /\ native' = "live"
  /\ life' = "live"
  /\ swigCPtr' = TRUE /\ baseCPtr' = TRUE /\ swigCMemOwn' = TRUE
  /\ calls' = [calls EXCEPT ![t] = @ + 1]
  /\ UNCHANGED <<held, jthis, frees, step, monitor>>

(* director_connect(this, swigCPtr, swigCMemOwn, true): swig_set_self.     *)
Connect(t) ==
  /\ life = "live" /\ ~held /\ calls[t] = 1
  /\ jthis = "null" /\ native = "live"
  /\ jthis' = Reference(swigCMemOwn, TRUE)
  /\ held' = TRUE
  /\ calls' = [calls EXCEPT ![t] = @ - 1]
  /\ UNCHANGED <<life, swigCPtr, baseCPtr, swigCMemOwn, native, frees, step, monitor>>

Constructed == life # "none" /\ (jthis # "null" \/ frees > 0)

(* Java code that has the proxy, from the program or as the receiver of a  *)
(* call in progress, calls a native method with (swigCPtr, this).          *)
Enter(t) ==
  /\ Constructed /\ swigCPtr
  /\ held \/ \E u \in Threads : calls[u] > 0
  /\ step[t] = "no"
  /\ calls' = [calls EXCEPT ![t] = @ + 1]
  /\ UNCHANGED <<held, life, swigCPtr, baseCPtr, swigCMemOwn, jthis, native, frees, step, monitor>>

Leave(t) ==
  /\ Constructed /\ calls[t] > 0
  /\ calls' = [calls EXCEPT ![t] = @ - 1]
  /\ UNCHANGED <<held, life, swigCPtr, baseCPtr, swigCMemOwn, jthis, native, frees, step, monitor>>

(* The program forgets the proxy.                                          *)
Drop ==
  /\ held
  /\ held' = FALSE
  /\ UNCHANGED <<life, swigCPtr, baseCPtr, swigCMemOwn, jthis, native, frees, calls, step, monitor>>

-----------------------------------------------------------------------------
(* delete(), of ClientAPI_OpenVPNClient and then of its superclass.        *)

At(t, from, to) == step[t] = from /\ step' = [step EXCEPT ![t] = to]

CallDelete(t) ==
  /\ Deletes /\ held /\ Constructed
  /\ \A u \in Threads : step[u] # "give"
  /\ At(t, "no", "enter")
  /\ UNCHANGED <<held, life, swigCPtr, baseCPtr, swigCMemOwn, jthis, native, frees, calls, monitor>>

(* finalize() calls delete().                                              *)
Finalize ==
  /\ life = "live" /\ Constructed
  /\ ~Reachable
  /\ life' = "finalizing"
  /\ At(Finalizer, "no", "enter")
  /\ UNCHANGED <<held, swigCPtr, baseCPtr, swigCMemOwn, jthis, native, frees, calls, monitor>>

(* A mutant: the method is not synchronized. *)
EnterUnsynchronized(t) ==
  /\ At(t, "enter", "test")
  /\ monitor' = t
  /\ UNCHANGED <<held, life, swigCPtr, baseCPtr, swigCMemOwn, jthis, native, frees, calls>>

(* The method is synchronized.                                             *)
EnterMonitor(t) ==
  /\ monitor = NoThread
  /\ At(t, "enter", "test")
  /\ monitor' = t
  /\ UNCHANGED <<held, life, swigCPtr, baseCPtr, swigCMemOwn, jthis, native, frees, calls>>

TestOwnership(t) ==
  /\ At(t, "test", IF swigCPtr /\ swigCMemOwn THEN "destroy" ELSE "zero")
  /\ UNCHANGED <<held, life, swigCPtr, baseCPtr, swigCMemOwn, jthis, native, frees, calls, monitor>>

(* swigCMemOwn = false, then delete_ClientAPI_OpenVPNClient.               *)
CallDestructor(t) ==
  /\ At(t, "destroy", "disconnect")
  /\ swigCMemOwn' = FALSE
  /\ UNCHANGED <<held, life, swigCPtr, baseCPtr, jthis, native, frees, calls, monitor>>

(* A mutant: the superclass keeps the address. *)
DisconnectDerived(t) ==
  /\ \/ At(t, "disconnect", "release")
     \/ monitor \in {t, NoThread} /\ At(t, "ownerDisconnect", "ownerRelease")
  /\ IF FindsProxy THEN swigCMemOwn' = FALSE /\ swigCPtr' = FALSE
     ELSE UNCHANGED <<swigCMemOwn, swigCPtr>>
  /\ UNCHANGED <<held, life, baseCPtr, jthis, native, frees, calls, monitor>>

(* ~SwigDirector: swig_disconnect_director_self finds the proxy and calls  *)
(* swigDirectorDisconnect, which disowns the native object and calls       *)
(* delete() in the monitor its thread may be in already.                   *)
Disconnect(t) ==
  /\ \/ At(t, "disconnect", "release")
     \/ monitor \in {t, NoThread} /\ At(t, "ownerDisconnect", "ownerRelease")
  /\ IF FindsProxy
     THEN /\ swigCMemOwn' = FALSE
          /\ swigCPtr' = FALSE
          /\ baseCPtr' = FALSE
     ELSE UNCHANGED <<swigCMemOwn, swigCPtr, baseCPtr>>
  /\ UNCHANGED <<held, life, jthis, native, frees, calls, monitor>>

(* ~Director releases the reference, and the memory goes.                  *)
Release(t) ==
  /\ \/ At(t, "release", "zero")
     \/ At(t, "ownerRelease", "no")
  /\ jthis' = "null"
  /\ native' = "freed"
  /\ frees' = frees + 1
  /\ UNCHANGED <<held, life, swigCPtr, baseCPtr, swigCMemOwn, calls, monitor>>

(* swigCPtr = 0, and super.delete(), which would delete what is left.      *)
Zero(t) ==
  /\ At(t, "zero", "no")
  /\ swigCPtr' = FALSE
  /\ baseCPtr' = FALSE
  /\ IF baseCPtr /\ swigCMemOwn
     THEN swigCMemOwn' = FALSE /\ native' = "freed" /\ frees' = frees + 1
     ELSE UNCHANGED <<swigCMemOwn, native, frees>>
  /\ monitor' = NoThread
  /\ life' = IF t = Finalizer THEN "gone" ELSE life
  /\ UNCHANGED <<held, jthis, calls>>

-----------------------------------------------------------------------------
(* Ownership handed to C++ and back.  Neither method is synchronized: the  *)
(* threads have to agree that nobody deletes or transfers meanwhile.       *)

Settled == \A t \in Deleters : step[t] = "no"

(* swigReleaseOwnership: the field first, then the reference.              *)
StartRelease(t) ==
  /\ Transfers /\ held /\ Constructed /\ swigCPtr /\ Settled
  /\ At(t, "no", "give")
  /\ swigCMemOwn' = FALSE
  /\ UNCHANGED <<held, life, swigCPtr, baseCPtr, jthis, native, frees, calls, monitor>>

EndRelease(t) ==
  /\ At(t, "give", "no")
  /\ jthis' = IF swigCPtr THEN ChangedOwnership(jthis, FALSE) ELSE jthis
  /\ UNCHANGED <<held, life, swigCPtr, baseCPtr, swigCMemOwn, native, frees, calls, monitor>>

(* swigTakeOwnership.                                                      *)
TakeOwnership(t) ==
  /\ Transfers /\ held /\ Constructed /\ Settled
  /\ swigCMemOwn' = TRUE
  /\ jthis' = IF swigCPtr THEN ChangedOwnership(jthis, TRUE) ELSE jthis
  /\ UNCHANGED <<held, life, swigCPtr, baseCPtr, native, frees, calls, step, monitor>>

(* A C++ owner deletes the native object that was released to it.          *)
OwnerDelete(t) ==
  /\ Transfers /\ ~swigCMemOwn /\ jthis = "global" /\ native = "live"
  /\ Settled
  /\ At(t, "no", "ownerDisconnect")
  /\ UNCHANGED <<held, life, swigCPtr, baseCPtr, swigCMemOwn, jthis, native, frees, calls, monitor>>

-----------------------------------------------------------------------------
ProxyStep(t) ==
  \/ EnterMonitor(t) \/ TestOwnership(t) \/ CallDestructor(t)
  \/ Disconnect(t) \/ Release(t) \/ Zero(t)

ThreadStep(t) ==
  \/ Construct(t) \/ Connect(t)
  \/ calls[t] < MaxCalls /\ Enter(t)
  \/ Leave(t)
  \/ CallDelete(t)
  \/ StartRelease(t) \/ EndRelease(t) \/ TakeOwnership(t) \/ OwnerDelete(t)

ProxyNext ==
  \/ Drop \/ Finalize
  \/ \E t \in Threads : ThreadStep(t)
  \/ \E t \in Deleters : ProxyStep(t)

ProxySpec == ProxyInit /\ [][ProxyNext]_proxyVars

-----------------------------------------------------------------------------
(* The native object is deleted at most once, whoever gets to it first:    *)
(* delete() of a thread, the finalizer, or the C++ owner.                  *)
FreedOnce == frees <= 1

(* While Java threads use the client and leave its life to the collector,  *)
(* as ManagementHandler does, a native method runs on a live native        *)
(* object: also the connect() or transport_stats() of a thread that was    *)
(* the last to know the handler.                                           *)
CallsOnLive ==
  ~Deletes /\ ~Transfers =>
    \A t \in Threads : calls[t] > 0 => native = "live"

(* The native object does not keep the proxy alive that owns it: a handler *)
(* nobody refers to can always be collected, and the core with it.         *)
OwnerIsCollectable ==
  swigCPtr /\ swigCMemOwn /\ Settled => jthis # "global"

(* A native object that was handed over to C++ keeps its proxy, and a      *)
(* proxy that was collected leaves nothing behind.                         *)
NothingOrphaned ==
  life = "gone" => native = "freed" /\ jthis = "null"

(* A method of the proxy is never called with the address of a native      *)
(* object that is gone: the address is taken away first.                   *)
NoDanglingProxy ==
  Settled /\ native = "freed" => ~swigCPtr /\ ~baseCPtr

-----------------------------------------------------------------------------
(* The invariant these follow from: who may be where, and which references *)
(* and addresses there are then.                                           *)

Destroying(t) ==
  step[t] \in {"disconnect", "release", "ownerDisconnect", "ownerRelease"}

(* The monitor is held in the body of delete(), and the finalizer has one  *)
(* thing to do.                                                            *)
DeleteSteps ==
  /\ \A t \in Deleters :
       monitor = t <=> step[t] \in {"test", "destroy", "disconnect", "release", "zero"}
  /\ step[Finalizer] \notin {"ownerDisconnect", "ownerRelease", "give"}
  /\ step[Finalizer] # "no" <=> life = "finalizing"

(* Before the constructor is through nobody has the proxy.                 *)
Construction ==
  /\ life = "none" <=> native = "none"
  /\ life = "none" => /\ ~held /\ ~swigCPtr /\ ~swigCMemOwn /\ jthis = "null"
                      /\ \A t \in Threads : calls[t] = 0
                      /\ Settled
  /\ life # "none" /\ ~Constructed =>
       life = "live" /\ ~held /\ swigCPtr /\ swigCMemOwn /\ native = "live" /\ Settled

(* A native object is deleted by one thread, which has taken the ownership *)
(* from the proxy and takes the address away before the reference goes.    *)
Deletion ==
  /\ baseCPtr = swigCPtr
  /\ frees = IF native = "freed" THEN 1 ELSE 0
  /\ native = "freed" => ~swigCPtr /\ jthis = "null"
  /\ \A t \in Deleters :
       /\ Destroying(t) => /\ native = "live" /\ ~swigCMemOwn /\ jthis # "null"
                           /\ life \in {"live", "finalizing"}
       /\ step[t] \in {"release", "ownerRelease"} => ~swigCPtr
       /\ step[t] \in {"ownerDisconnect", "ownerRelease"} => jthis = "global"
       /\ step[t] = "destroy" =>
            swigCPtr /\ swigCMemOwn /\ native = "live" /\ jthis # "null"
       /\ step[t] = "zero" => ~(swigCPtr /\ swigCMemOwn)
  /\ \A t, u \in Deleters : Destroying(t) /\ Destroying(u) => t = u

(* A proxy that owns is referred to weakly, one that does not strongly.    *)
Ownership ==
  /\ swigCPtr /\ swigCMemOwn => jthis # "global"
  /\ \A t \in Deleters : step[t] = "give" =>
       /\ swigCPtr /\ native = "live" /\ ~swigCMemOwn
       /\ \A u \in Deleters : u # t => step[u] = "no"
  /\ \/ ~Constructed \/ native = "freed"
     \/ swigCPtr /\ swigCMemOwn
     \/ jthis = "global"
     \/ \E t \in Deleters : Destroying(t) \/ step[t] = "give"

(* Nobody uses a proxy that is collected, and it deletes what it owned.    *)
Collection ==
  /\ life \in {"finalizing", "gone"} =>
       ~held /\ \A t \in Threads : calls[t] = 0 /\ step[t] = "no"
  /\ step[Finalizer] \in {"enter", "test"} =>
       native = "freed" \/ (swigCPtr /\ swigCMemOwn)
  /\ step[Finalizer] = "zero" \/ life = "gone" => native = "freed"

(* The program leaves deletion to the collector.                           *)
Undisturbed ==
  ~Deletes /\ ~Transfers =>
    /\ \A t \in Threads : step[t] = "no"
    /\ native = "freed" => life \in {"finalizing", "gone"}

ProxyInv ==
  /\ ProxyTypeOK /\ DeleteSteps /\ Construction /\ Deletion /\ Ownership
  /\ Collection /\ Undisturbed

=============================================================================
