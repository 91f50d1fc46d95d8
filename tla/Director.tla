------------------------------ MODULE Director ------------------------------
(***************************************************************************)
(* The calls that cross the border between Java and the core.  Java calls  *)
(* a JNI function of DirectorTables; connect() stays in the core for the   *)
(* whole session, and the core calls the client back: the director method  *)
(* attaches the thread to the VM if it has to, finds the Java proxy and    *)
(* calls the overriding method, which may use the client in turn.  The     *)
(* state of a thread is its stack of such calls, its pending Java          *)
(* exception, and the local references its native frames hold.             *)
(*                                                                         *)
(* The core is external: it calls any method of CoreMethods in any order,  *)
(* from the thread in connect() or from threads of its own, and ends the   *)
(* session when one of them throws.                                        *)
(***************************************************************************)
EXTENDS ClientProxy, DirectorTables

CONSTANTS
  Workers,      \* threads of the core, unknown to the VM
  Overridden,   \* the methods the class of the proxy overrides
  CoreMethods,  \* the methods the core calls
  JavaMethods,  \* the native methods Java calls
  ReturnsNull,  \* overriding methods that may return null for a vector
  MaxFrames     \* bound: depth of a stack

ASSUME DirectorAssumption ==
  /\ Workers \subseteq Threads
  /\ Overridden \subseteq DOMAIN Upcalls
  /\ CoreMethods \subseteq DOMAIN Upcalls
  /\ JavaMethods \subseteq DOMAIN Wrappers
  /\ ReturnsNull \subseteq {"tun_builder_get_local_networks"}

VARIABLES
  stack,        \* per thread: its frames, the innermost last
  pending,      \* per thread: is a Java exception pending?
  attached,     \* per thread: does the VM know it?
  escaped       \* has a C++ exception left a JNI function?

directorVars == <<stack, pending, attached, escaped>>
vars == <<directorVars, proxyVars>>

Frame(code, method, at) ==
  [code |-> code, method |-> method, at |-> at, null |-> FALSE,
   refs |-> 0, attaches |-> FALSE]

Places == {"check", "running", "ending", "calling", "done", "zero"}

DirectorInit ==
  /\ stack = [t \in Threads |-> <<>>]
  /\ pending = [t \in Threads |-> FALSE]
  /\ attached = [t \in Threads |-> t \notin Workers]
  /\ escaped = FALSE

-----------------------------------------------------------------------------
Top(t) == stack[t][Len(stack[t])]

Below(t) == SubSeq(stack[t], 1, Len(stack[t]) - 1)

Is(t, code, at) == stack[t] # <<>> /\ Top(t).code = code /\ Top(t).at \in at

Goto(t, at) == [stack EXCEPT ![t][Len(stack[t])].at = at]

InJava(t) == IF stack[t] = <<>> THEN t \notin Workers ELSE Is(t, "java", {"body"})

(* Is a thread in connect(), at one of these places?                       *)
Connected(at) ==
  \E t \in Threads : \E i \in DOMAIN stack[t] :
    stack[t][i].method = "connect" /\ stack[t][i].at \in at

(* A mutant: a derived class is taken to override every method. *)
SwigOverrideAlways(slot) == OverrideMethods[slot + 1][1] # ""

(* What swig_connect_director stores in swig_override: does the class of   *)
(* the proxy have a method of its own for the slot?                        *)
SwigOverride(slot) == OverrideMethods[slot + 1][1] \in Overridden

(* swig_module_init: the Java method that the slot leads to.               *)
DirectorMethodId(slot) == DirectorMethods[slot + 1][1]

-----------------------------------------------------------------------------
(* Java calls C++.                                                         *)

(* A mutant: the protected methods are called like the others. *)
SameBridge(m) == IF m \in DOMAIN Wrappers THEN m ELSE Explicit[m]

(* The JNI function behind a native method: in a class derived from        *)
(* ClientAPI_OpenVPNClient, as ManagementHandler, the protected methods    *)
(* call the body of C++ and not themselves again.                          *)
Bridge(m) == IF m \in DOMAIN Explicit THEN Explicit[m] ELSE m

CallWrapper(t, m, null) ==
  LET w == Bridge(m) IN
    /\ InJava(t) /\ Len(stack[t]) < MaxFrames
    /\ w = "connect" => ~Connected(Places)
    /\ null => Takes(w, Nullable)
    /\ IF Wrappers[w].static THEN UNCHANGED proxyVars ELSE Enter(t)
    /\ stack' = [stack EXCEPT ![t] =
                   Append(@, [Frame("wrapper", w, "check") EXCEPT !.null = null])]
    /\ UNCHANGED <<pending, attached, escaped>>

(* A null argument: NullPointerException, and 0 is returned.               *)
RejectNull(t) ==
  /\ Is(t, "wrapper", {"check"})
  /\ Top(t).null /\ Takes(Top(t).method, Checked)
  /\ pending' = [pending EXCEPT ![t] = TRUE]
  /\ stack' = Goto(t, "zero")
  /\ UNCHANGED <<attached, escaped, proxyVars>>

(* Otherwise the C++ function is called: connect() enters the session, a   *)
(* virtual method goes through the director, and other functions of the    *)
(* core return.                                                            *)
CallFunction(t) ==
  /\ Is(t, "wrapper", {"check"})
  /\ ~(Top(t).null /\ Takes(Top(t).method, Checked))
  /\ LET m == Top(t).method IN
       stack' = CASE m = "connect"        -> Goto(t, "running")
                  [] m \in DOMAIN Upcalls ->
                       [Goto(t, "calling") EXCEPT ![t] =
                          Append(@, Frame("upcall", m, "enter"))]
                  [] OTHER                -> Goto(t, "done")
  /\ UNCHANGED <<pending, attached, escaped, proxyVars>>

(* Back in Java, which sees a pending exception thrown: the body catches   *)
(* it, or raises it.                                                       *)
ReturnToJava(t) ==
  /\ Is(t, "wrapper", {"done", "zero"})
  /\ IF Wrappers[Top(t).method].static THEN UNCHANGED proxyVars ELSE Leave(t)
  /\ pending' = [pending EXCEPT ![t] = FALSE]
  /\ \/ stack' = [stack EXCEPT ![t] = Below(t)]
     \/ /\ pending[t] /\ Below(t) # <<>>
        /\ stack' = [stack EXCEPT ![t] =
                       [Below(t) EXCEPT ![Len(Below(t))].at = "raise"]]
  /\ UNCHANGED <<attached, escaped>>

-----------------------------------------------------------------------------
(* The core calls Java.                                                    *)

InCore(t) ==
  \/ Is(t, "wrapper", {"running"})
  \/ t \in Workers /\ stack[t] = <<>> /\ Connected({"running"})

CoreCalls(t, m) ==
  /\ InCore(t) /\ Len(stack[t]) < MaxFrames
  /\ stack' = [stack EXCEPT ![t] = Append(@, Frame("upcall", m, "enter"))]
  /\ UNCHANGED <<pending, attached, escaped, proxyVars>>

(* The session ends when the threads of the core have.                     *)
CoreEnds(t) ==
  /\ Is(t, "wrapper", {"running", "ending"})
  /\ \A u \in Workers : stack[u] = <<>>
  /\ stack' = Goto(t, "done")
  /\ UNCHANGED <<pending, attached, escaped, proxyVars>>

(* JNIEnvWrapper, then the test of the slot.                               *)
EnterUpcall(t) ==
  /\ Is(t, "upcall", {"enter"})
  /\ LET u == Upcalls[Top(t).method]
         next == IF SwigOverride(u.slot) THEN "self"
                 ELSE IF u.pure THEN "pure" ELSE "base"
     IN stack' = [stack EXCEPT ![t][Len(stack[t])] =
                    [@ EXCEPT !.at = next, !.attaches = ~attached[t]]]
  /\ attached' = [attached EXCEPT ![t] = TRUE]
  /\ UNCHANGED <<pending, escaped, proxyVars>>

(* The method of TunBuilderBase or OpenVPNClient.                          *)
CallBase(t) ==
  /\ Is(t, "upcall", {"base"})
  /\ stack' = Goto(t, "value")
  /\ UNCHANGED <<pending, attached, escaped, proxyVars>>

(* A pure virtual method that no class overrides: a Java exception is left *)
(* pending and 0 is returned to C++.                                       *)
RejectPure(t) ==
  /\ Is(t, "upcall", {"pure"})
  /\ pending' = [pending EXCEPT ![t] = TRUE]
  /\ stack' = Goto(t, "default")
  /\ UNCHANGED <<attached, escaped, proxyVars>>

(* swig_get_self, the conversion of the arguments and the call; if the     *)
(* proxy was collected, "null upcall object" is left pending.              *)
CallJava(t) ==
  /\ Is(t, "upcall", {"self"})
  /\ LET u == Upcalls[Top(t).method]
         called == [Top(t) EXCEPT !.at = "java", !.refs = 1 + Strings(u.args)]
     IN IF FindsProxy
        THEN /\ stack' = [stack EXCEPT ![t] =
                            Append(Append(Below(t), called),
                                   Frame("java", DirectorMethodId(u.slot), "body"))]
             /\ UNCHANGED pending
        ELSE /\ stack' = Goto(t, "default")
             /\ pending' = [pending EXCEPT ![t] = TRUE]
  /\ UNCHANGED <<attached, escaped, proxyVars>>

(* The body returns; of a vector only the address, and whoever has its     *)
(* proxy then is gone.                                                     *)
JavaReturns(t) ==
  /\ Is(t, "java", {"body"})
  /\ LET m == Top(t).method
         results == IF Upcalls[m].result # "vector" THEN {"value"}
                    ELSE {"networks"} \cup IF m \in ReturnsNull THEN {"null"} ELSE {}
     IN \E at \in results :
          stack' = [stack EXCEPT ![t] = [Below(t) EXCEPT ![Len(Below(t))].at = at]]
  /\ UNCHANGED <<pending, attached, escaped, proxyVars>>

JavaThrows(t) ==
  /\ Is(t, "java", {"body", "raise"})
  /\ pending' = [pending EXCEPT ![t] = TRUE]
  /\ stack' = [stack EXCEPT ![t] = [Below(t) EXCEPT ![Len(Below(t))].at = "thrown"]]
  /\ UNCHANGED <<attached, escaped, proxyVars>>

(* The finalizer of a ClientAPI_StringVec nobody refers to deletes the     *)
(* vector.                                                                 *)
FinalizeNetworks(t) ==
  /\ Is(t, "upcall", {"networks"})
  /\ stack' = Goto(t, "freed")
  /\ UNCHANGED <<pending, attached, escaped, proxyVars>>

(* A mutant: the reference to the proxy is not deleted. *)
LeakedSelf(at) ==
  CASE at = "thrown" -> 7
    [] at = "null"   -> 1
    [] at = "value"  -> 1
    [] OTHER         -> 0

(* The local references that a director method does not delete: none       *)
(* after DeleteLocalRef(swigjobj), which is skipped when it throws, with   *)
(* the throwable, and five classes and strings of DirectorException, or    *)
(* returns for an unexpected null.  The strings are guarded.               *)
Leaked(at) ==
  CASE at = "thrown" -> 7
    [] at = "null"   -> 1
    [] OTHER         -> 0

(* A mutant: the thread stays attached. *)
DetachNot(t) == [attached EXCEPT ![t] = TRUE]

(* The thread is detached by the call that attached it.                    *)
Detach(t) == [attached EXCEPT ![t] = @ /\ ~Top(t).attaches]

(* The pending exception is cleared and thrown as a C++ DirectorException. *)
(* A thread that is detached has none.                                     *)
Pending(at, before) ==
  CASE at = "thrown" -> FALSE
    [] at = "null"   -> TRUE
    [] OTHER         -> before

(* Where the caller goes on: the core ends the session on an exception.    *)
Resumed(caller, at) ==
  CASE caller = "calling"                  -> "done"
    [] caller # "calling" /\ at = "thrown" -> "ending"
    [] OTHER                               -> caller

(* A JNI function does not catch it.                                       *)
Escapes(t) ==
  /\ Top(t).at = "thrown"
  /\ Below(t) # <<>> /\ Below(t)[Len(Below(t))].at = "calling"

LeaveUpcall(t) ==
  /\ Is(t, "upcall", {"value", "networks", "freed", "null", "default", "thrown"})
  /\ LET at == Top(t).at
         n == Len(Below(t))
         caller == Below(t)[n]
     IN /\ stack' = [stack EXCEPT ![t] =
                       IF n = 0 THEN <<>>
                       ELSE [Below(t) EXCEPT ![n] =
                               [caller EXCEPT !.at = Resumed(caller.at, at),
                                              !.refs = caller.refs + Leaked(at)]]]
        /\ pending' = [pending EXCEPT ![t] = Pending(at, @) /\ ~Top(t).attaches]
        /\ escaped' = (escaped \/ Escapes(t))
  /\ attached' = Detach(t)
  /\ UNCHANGED proxyVars

-----------------------------------------------------------------------------
Init == ProxyInit /\ DirectorInit

JavaStep(t) ==
  \/ \E m \in JavaMethods, null \in BOOLEAN : CallWrapper(t, m, null)
  \/ RejectNull(t) \/ CallFunction(t) \/ ReturnToJava(t)
  \/ JavaReturns(t) \/ JavaThrows(t)

CoreStep(t) ==
  \/ \E m \in CoreMethods : CoreCalls(t, m)
  \/ CoreEnds(t) \/ EnterUpcall(t) \/ CallBase(t) \/ RejectPure(t)
  \/ CallJava(t) \/ FinalizeNetworks(t) \/ LeaveUpcall(t)

ProxyLife ==
  /\ \/ Drop \/ Finalize
     \/ \E t \in Threads \ Workers : stack[t] = <<>> /\ (Construct(t) \/ Connect(t))
     \/ ProxyStep(Finalizer)
  /\ UNCHANGED directorVars

Next == ProxyLife \/ \E t \in Threads : JavaStep(t) \/ CoreStep(t)

Spec == Init /\ [][Next]_vars

=============================================================================
